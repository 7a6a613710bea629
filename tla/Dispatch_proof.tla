--------------------------- MODULE Dispatch_proof ---------------------------
(***************************************************************************)
(* Proofs about Scheduler, continued.  Whatever root may kill, no service  *)
(* that is scheduled or runs is lost, and none has more than one message   *)
(* or answer under way.  active_worker is the number of workers that are   *)
(* awake, a worker that dispatched for itself finds its own done slot      *)
(* empty, and the messages of an exclusive service arrive in the order     *)
(* they were sent in.  While root kills nobody and has room for a signal,  *)
(* it hears of every service that dies.                                    *)
(***************************************************************************)
EXTENDS Scheduler_proof, FiniteSetTheorems

(***************************************************************************)
(* The pool P, with F the ids that were not handed out.                    *)
(***************************************************************************)
(* The statuses of a service that is to be in some place *)
Live == {"schedule", "running", "done"}

(* A service posts when it has read its last receipt; a message it bounced
   comes with a receipt. *)
Answered(P, s) ==
  /\ P[s].receipt = "none" => P[s].bounce = NoMsg
  /\ P[s].out \notin {NoMsg, Signal(s)} => P[s].receipt = "none"

(* root asks for the death of services that have no thread of their own. *)
MayHang(m) == m.type = "hang" => m.sid \notin Exclusives

PoolAnswered(P, F) ==
  /\ F \cap Exclusives = {}
  /\ \A x \in Exclusives : P[x].status \in {"exclusive", "absent"}
  /\ \A s \in Services :
       Answered(P, s) /\ (P[s].out # NoMsg => MayHang(P[s].out))
  /\ P[Root].receipt = "response" => P[Root].bounce.to \notin Exclusives

(* Exclusive services post for themselves. *)
Mute(P, R) == \A x \in Exclusives : R[x].out \in {P[x].out, NoMsg}

(* service_read_receipt and service_pop_message, *)
LEMMA ReadReceiptAnswered ==
  ASSUME NEW P, PoolOK(P), NEW F, PoolAnswered(P, F), NEW s \in Services
  PROVE  LET R == ServiceReadReceipt(P, s)
         IN  /\ PoolAnswered(R, F) /\ Mute(P, R)
             /\ R[s].receipt = "none"
             /\ \A t \in Services : R[t].status = P[t].status
<1> DEFINE R == ServiceReadReceipt(P, s)
<1>1. \A t \in Services :
        /\ R[t].status = P[t].status /\ R[t].out = P[t].out
        /\ R[t].bounce = IF t = s THEN NoMsg ELSE P[t].bounce
        /\ R[t].receipt = IF t = s THEN "none" ELSE P[t].receipt
  BY DEF PoolOK, Service, ServiceReadReceipt
<1> HIDE DEF R
<1>2. PoolAnswered(R, F) /\ Mute(P, R)
  BY <1>1, SchedulerAssumption, PoolAssumption
  DEF PoolAnswered, Answered, Mute
<1> QED
  BY <1>1, <1>2 DEF R

(* (the service it is about has no receipt left) *)
LEMMA PopMessageAnswered ==
  ASSUME NEW P, PoolOK(P), NEW F, PoolAnswered(P, F), NEW s \in Services,
         P[s].receipt = "none"
  PROVE  LET R == ServicePopMessage(P, s)
         IN  /\ PoolAnswered(R, F) /\ Mute(P, R)
             /\ R[s].receipt = "none"
             /\ \A t \in Services : R[t].status = P[t].status
BY SchedulerAssumption
DEF PoolAnswered, Answered, Mute, ServicePopMessage, PoolOK, Service

(* service_send_message, after them, *)
LEMMA SendMessageAnswered ==
  ASSUME NEW P, PoolOK(P), NEW F, PoolAnswered(P, F), NEW s \in Services,
         NEW m \in Message, MayHang(m), P[s].receipt = "none"
  PROVE  LET R == ServiceSendMessage(P, s, m)
         IN  /\ PoolAnswered(R, F)
             /\ \A t \in Services :
                  /\ R[t].status = P[t].status
                  /\ t # s => R[t].out = P[t].out
BY SchedulerAssumption
DEF PoolAnswered, Answered, ServiceSendMessage, PoolOK, Service

(* service_status_set, of a service that has no thread of its own, *)
LEMMA StatusAnswered ==
  ASSUME NEW P, PoolOK(P), NEW F, PoolAnswered(P, F),
         NEW s \in Services \ Exclusives, NEW st
  PROVE  /\ PoolAnswered([P EXCEPT ![s].status = st], F)
         /\ Mute(P, [P EXCEPT ![s].status = st])
         /\ PoolAnswered(ServiceStatusSet(P, s, st), F)
         /\ Mute(P, ServiceStatusSet(P, s, st))
<1> DEFINE R == [P EXCEPT ![s].status = st]
<1>1. \A t \in Services :
        /\ R[t].out = P[t].out /\ R[t].bounce = P[t].bounce
        /\ R[t].receipt = P[t].receipt
        /\ t # s => R[t].status = P[t].status
  BY DEF PoolOK, Service
<1>2. PoolAnswered(R, F) /\ Mute(P, R)
  <2> HIDE DEF R
  <2> QED
    BY <1>1, SchedulerAssumption, PoolAssumption
    DEF PoolAnswered, Answered, Mute
<1> QED
  BY <1>2 DEF ServiceStatusSet, Mute

(* service_send_signal, *)
LEMMA SignalAnswered ==
  ASSUME NEW P, PoolOK(P), NEW F, PoolAnswered(P, F),
         NEW s \in Services \ Exclusives
  PROVE  PoolAnswered(ServiceSendSignal(P, s), F)
         /\ Mute(P, ServiceSendSignal(P, s))
<1> DEFINE R == [P EXCEPT ![s].out = Signal(s)]
<1>1. \A t \in Services :
        /\ R[t].status = P[t].status /\ R[t].bounce = P[t].bounce
        /\ R[t].receipt = P[t].receipt
        /\ R[t].out = IF t = s THEN Signal(s) ELSE P[t].out
  BY DEF PoolOK, Service
<1>2. MayHang(Signal(s))
  BY DEF MayHang, Signal
<1>3. PoolAnswered(R, F) /\ Mute(P, R)
  <2> HIDE DEF R
  <2> QED
    BY <1>1, <1>2, SchedulerAssumption, PoolAssumption
    DEF PoolAnswered, Answered, Mute
<1> QED
  BY <1>3 DEF ServiceSendSignal, Mute

(* service_message_out, *)
LEMMA MessageOutAnswered ==
  ASSUME NEW P, PoolOK(P), NEW F, PoolAnswered(P, F), NEW s \in Services
  PROVE  LET R == ServiceMessageOut(P, s)
         IN  /\ PoolAnswered(R, F) /\ Mute(P, R)
             /\ R[s].out = NoMsg
             /\ \A t \in Services : R[t].status = P[t].status
<1> DEFINE R == ServiceMessageOut(P, s)
<1>1. \A t \in Services :
        /\ R[t].status = P[t].status /\ R[t].bounce = P[t].bounce
        /\ R[t].receipt = P[t].receipt
        /\ R[t].out = IF t = s THEN NoMsg ELSE P[t].out
  BY DEF PoolOK, Service, ServiceMessageOut
<1> HIDE DEF R
<1>2. PoolAnswered(R, F) /\ Mute(P, R)
  BY <1>1, SchedulerAssumption, PoolAssumption
  DEF PoolAnswered, Answered, Mute
<1> QED
  BY <1>1, <1>2 DEF R

(* a slot that is taken or given back, *)
LEMMA SlotAnswered ==
  ASSUME NEW P, PoolOK(P), NEW F, PoolAnswered(P, F), NEW s \in Services,
         NEW st, st = "absent" \/ s \notin Exclusives
  PROVE  LET R == [P EXCEPT ![s] = EmptyService(st)]
         IN  PoolAnswered(R, F) /\ Mute(P, R)
<1> DEFINE R == [P EXCEPT ![s] = EmptyService(st)]
<1>1. \A t \in Services :
        /\ t # s => R[t] = P[t]
        /\ t = s => /\ R[t].status = st /\ R[t].bounce = NoMsg
                    /\ R[t].receipt = "none" /\ R[t].out = NoMsg
  BY DEF PoolOK, EmptyService
<1> HIDE DEF R
<1>2. PoolAnswered(R, F) /\ Mute(P, R)
  BY <1>1, SchedulerAssumption, PoolAssumption
  DEF PoolAnswered, Answered, Mute
<1> QED
  BY <1>2 DEF R

(* and service_write_receipt, once the message it answers is taken. *)
LEMMA WriteReceiptAnswered ==
  ASSUME NEW P, PoolOK(P), NEW F, PoolAnswered(P, F), NEW s \in Services,
         P[s].out \in {NoMsg, Signal(s)}, NEW r \in Receipt \ {"none"}, NEW m,
         r = "response" => m.to \notin Exclusives
  PROVE  LET R == ServiceWriteReceipt(P, s, r, m)
         IN  /\ PoolAnswered(R, F) /\ Mute(P, R)
             /\ \A t \in Services : R[t].status = P[t].status
<1> DEFINE R == ServiceWriteReceipt(P, s, r, m)
<1>1. \A t \in Services :
        /\ R[t].status = P[t].status /\ R[t].out = P[t].out
        /\ \/ R[t].bounce = P[t].bounce /\ R[t].receipt = P[t].receipt
           \/ t = s /\ R[t].bounce = m /\ R[t].receipt = r
  BY DEF PoolOK, Service, ServiceWriteReceipt
<1> HIDE DEF R
<1>2. PoolAnswered(R, F) /\ Mute(P, R)
  BY <1>1, SchedulerAssumption, PoolAssumption
  DEF PoolAnswered, Answered, Mute
<1> QED
  BY <1>1, <1>2 DEF R

(***************************************************************************)
(* The kernel, from k to l: what becomes live is in the queue, nothing     *)
(* leaves the queue and no exclusive service comes into it.                *)
(***************************************************************************)
Queued(k, l) ==
  /\ \A s \in Services : l.pool[s].status \in Live =>
       k.pool[s].status \in Live \/ s \in Ids(l.schedule)
  /\ Ids(k.schedule) \subseteq Ids(l.schedule)

KernelAnswered(k, l) ==
  /\ PoolAnswered(l.pool, l.fresh) /\ Mute(k.pool, l.pool)
  /\ Ids(l.schedule) \cap Exclusives \subseteq Ids(k.schedule)

(* One change after the other *)
LEMMA KernelTwice ==
  ASSUME NEW k, NEW l, NEW o
  PROVE  /\ Queued(k, l) /\ Queued(l, o) => Queued(k, o)
         /\ KernelAnswered(k, l) /\ KernelAnswered(l, o) =>
              KernelAnswered(k, o)
<1>1. Queued(k, l) /\ Queued(l, o) => Queued(k, o)
  BY DEF Queued
<1>2. KernelAnswered(k, l) /\ KernelAnswered(l, o) => KernelAnswered(k, o)
  BY DEF KernelAnswered, Mute
<1> QED
  BY <1>1, <1>2

(* Only the pool changes, and nobody's status. *)
LEMMA KernelPoolAnswered ==
  ASSUME NEW k, KernelOK(k), NEW P
  PROVE  LET l == [k EXCEPT !.pool = P]
         IN  /\ (\A s \in Services : P[s].status \in Live =>
                   k.pool[s].status \in Live) => Queued(k, l)
             /\ PoolAnswered(P, k.fresh) /\ Mute(k.pool, P) =>
                   KernelAnswered(k, l)
<1> DEFINE l == [k EXCEPT !.pool = P]
<1>1. l.pool = P /\ l.schedule = k.schedule /\ l.fresh = k.fresh
  BY DEF KernelOK
<1> HIDE DEF l
<1>2. (\A s \in Services : P[s].status \in Live =>
         k.pool[s].status \in Live) => Queued(k, l)
  BY <1>1 DEF Queued
<1>3. PoolAnswered(P, k.fresh) /\ Mute(k.pool, P) => KernelAnswered(k, l)
  BY <1>1 DEF KernelAnswered
<1> QED
  BY <1>2, <1>3 DEF l

(* schedule_back, *)
LEMMA BackAnswered ==
  ASSUME NEW k, KernelOK(k), NEW s \in Services
  PROVE  LET l == ScheduleBack(k, s)
         IN  /\ Queued(k, l) /\ s \in Ids(l.schedule)
             /\ l.pool = k.pool /\ l.fresh = k.fresh
             /\ PoolAnswered(k.pool, k.fresh) /\ s \notin Exclusives =>
                  KernelAnswered(k, l)
<1> DEFINE l == ScheduleBack(k, s)
<1>1. /\ l.pool = k.pool /\ l.fresh = k.fresh
      /\ l.schedule = Append(k.schedule, s) /\ k.schedule \in Seq(Services)
  BY DEF KernelOK, ScheduleBack
<1> HIDE DEF l
<1>2. Ids(l.schedule) = Ids(k.schedule) \cup {s}
  BY <1>1, IdsAppend
<1>3. Queued(k, l)
  BY <1>1, <1>2 DEF Queued
<1>4. PoolAnswered(k.pool, k.fresh) /\ s \notin Exclusives =>
        KernelAnswered(k, l)
  BY <1>1, <1>2 DEF KernelAnswered, Mute
<1> QED
  BY <1>1, <1>2, <1>3, <1>4 DEF l

(* the same with a change of status, as Park and schedule_if_idle do it, *)
LEMMA ScheduledAnswered ==
  ASSUME NEW k, KernelOK(k), NEW s \in Services
  PROVE  LET l == ScheduleBack([k EXCEPT !.pool =
                                  ServiceStatusSet(@, s, "schedule")], s)
         IN  /\ Queued(k, l) /\ s \in Ids(l.schedule)
             /\ PoolAnswered(k.pool, k.fresh) /\ s \notin Exclusives =>
                  KernelAnswered(k, l)
             /\ \A t \in Services : l.pool[t].out = k.pool[t].out
<1> DEFINE P == ServiceStatusSet(k.pool, s, "schedule")
           j == [k EXCEPT !.pool = P]
           l == ScheduleBack(j, s)
<1>1. KernelOK(j) /\ j.pool = P
  BY SetStatusOK DEF Status, KernelOK
<1>2. /\ \A t \in Services \ {s} : P[t] = k.pool[t]
      /\ \A t \in Services : P[t].out = k.pool[t].out
  BY DEF ServiceStatusSet, KernelOK, PoolOK, Service
<1>3. PoolAnswered(k.pool, k.fresh) /\ s \notin Exclusives =>
        KernelAnswered(k, j)
  BY StatusAnswered, KernelPoolAnswered DEF KernelOK
<1>4. j.schedule = k.schedule /\ j.fresh = k.fresh
  BY DEF KernelOK
<1> HIDE DEF P, j
<1>5. Queued(j, l) /\ s \in Ids(l.schedule) /\ l.pool = j.pool
  BY <1>1, BackAnswered
<1>6. Queued(k, l)
  BY <1>1, <1>2, <1>4, <1>5 DEF Queued
<1>7. PoolAnswered(k.pool, k.fresh) /\ s \notin Exclusives =>
        KernelAnswered(k, l)
  <2>1. KernelAnswered(k, j) => PoolAnswered(j.pool, j.fresh)
    BY DEF KernelAnswered
  <2>2. PoolAnswered(j.pool, j.fresh) /\ s \notin Exclusives =>
          KernelAnswered(j, l)
    BY <1>1, BackAnswered
  <2> HIDE DEF l
  <2> QED
    BY <1>3, <2>1, <2>2, KernelTwice
<1>8. \A t \in Services : l.pool[t].out = k.pool[t].out
  BY <1>1, <1>2, <1>5
<1> QED
  BY <1>5, <1>6, <1>7, <1>8 DEF P, j

(* (schedule_if_idle, for the receiver of a message) *)
LEMMA ScheduleIfIdleAnswered ==
  ASSUME NEW k, KernelOK(k), NEW s \in Services
  PROVE  /\ Queued(k, ScheduleIfIdle(k, s))
         /\ PoolAnswered(k.pool, k.fresh) =>
              KernelAnswered(k, ScheduleIfIdle(k, s))
         /\ \A t \in Services :
              ScheduleIfIdle(k, s).pool[t].out = k.pool[t].out
<1>1. CASE ServiceStatusGet(k.pool, s) = "idle"
  <2>1. PoolAnswered(k.pool, k.fresh) => s \notin Exclusives
    BY <1>1 DEF PoolAnswered, ServiceStatusGet
  <2> QED
    BY <1>1, <2>1, ScheduledAnswered DEF ScheduleIfIdle
<1>2. CASE ServiceStatusGet(k.pool, s) # "idle"
  BY <1>2 DEF ScheduleIfIdle, Queued, KernelAnswered, Mute
<1> QED
  BY <1>1, <1>2

(* service_push_message, *)
LEMMA PushAnswered ==
  ASSUME NEW k, KernelOK(k), NEW m
  PROVE  /\ Queued(k, Push(k, m))
         /\ PoolAnswered(k.pool, k.fresh) => KernelAnswered(k, Push(k, m))
         /\ \A t \in Services : Push(k, m).pool[t].out = k.pool[t].out
<1> DEFINE P == ServicePushMessage(k.pool, m.to, m)
<1>1. \A t \in Services :
        /\ P[t].status = k.pool[t].status /\ P[t].out = k.pool[t].out
        /\ P[t].bounce = k.pool[t].bounce /\ P[t].receipt = k.pool[t].receipt
  BY DEF KernelOK, PoolOK, Service, ServicePushMessage
<1>2. Push(k, m) = [k EXCEPT !.pool = P] /\ Push(k, m).pool = P
  BY DEF Push, KernelOK
<1> HIDE DEF P
<1>3. PoolAnswered(k.pool, k.fresh) =>
        PoolAnswered(P, k.fresh) /\ Mute(k.pool, P)
  BY <1>1, SchedulerAssumption, PoolAssumption
  DEF PoolAnswered, Answered, Mute
<1> QED
  BY <1>1, <1>2, <1>3, KernelPoolAnswered

(* and service_write_receipt, under the lock. *)
LEMMA AnswerAnswered ==
  ASSUME NEW k, KernelOK(k), NEW id \in Services,
         NEW r \in Receipt \ {"none"}, NEW m
  PROVE  /\ Queued(k, Answer(k, id, r, m))
         /\ /\ PoolAnswered(k.pool, k.fresh)
            /\ k.pool[id].out \in {NoMsg, Signal(id)}
            /\ r = "response" => m.to \notin Exclusives
            => KernelAnswered(k, Answer(k, id, r, m))
<1> DEFINE P == ServiceWriteReceipt(k.pool, id, r, m)
<1>1. \A t \in Services : P[t].status = k.pool[t].status
  BY DEF KernelOK, PoolOK, Service, ServiceWriteReceipt
<1>2. /\ PoolAnswered(k.pool, k.fresh)
      /\ k.pool[id].out \in {NoMsg, Signal(id)}
      /\ r = "response" => m.to \notin Exclusives
      => PoolAnswered(P, k.fresh) /\ Mute(k.pool, P)
  BY WriteReceiptAnswered DEF KernelOK
<1>3. Answer(k, id, r, m) = [k EXCEPT !.pool = P]
  BY DEF Answer
<1> HIDE DEF P
<1> QED
  BY <1>1, <1>2, <1>3, KernelPoolAnswered

(* The three outcomes of HANG, *)
LEMMA HangServiceAnswered ==
  ASSUME NEW k, KernelOK(k), NEW id \in Services,
         NEW m \in Message, m.sid \in Services
  PROVE  /\ Queued(k, HangService(k, id, m))
         /\ /\ PoolAnswered(k.pool, k.fresh) /\ m.sid \notin Exclusives
            /\ k.pool[id].out \in {NoMsg, Signal(id)}
            => KernelAnswered(k, HangService(k, id, m))
<1> DEFINE P == ServiceHang(k.pool, m.sid)
           kHung == [k EXCEPT !.pool = P]
           kBack == ScheduleBack(k, m.sid)
           Fit(l) == /\ PoolAnswered(l.pool, l.fresh)
                     /\ l.pool[id].out \in {NoMsg, Signal(id)}
<1>1. KernelOK(kHung) /\ kHung.pool = P /\ kHung.fresh = k.fresh
  BY HangOK, KernelSetPool DEF KernelOK
<1>2. KernelOK(kBack) /\ kBack.pool = k.pool /\ kBack.fresh = k.fresh
  BY ScheduleBackOK, BackAnswered
<1>3. Queued(k, kBack)
      /\ (Fit(k) /\ m.sid \notin Exclusives => KernelAnswered(k, kBack))
  BY BackAnswered
<1>4. /\ \A t \in Services :
           P[t].status \in Live => k.pool[t].status \in Live
      /\ P[id].out \in {k.pool[id].out, Signal(id)}
  BY DEF ServiceHang, ServiceSendSignal, KernelOK, PoolOK, Service, Live
<1>5. PoolAnswered(k.pool, k.fresh) /\ m.sid \notin Exclusives =>
        PoolAnswered(P, k.fresh) /\ Mute(k.pool, P)
  <2> SUFFICES ASSUME PoolAnswered(k.pool, k.fresh), m.sid \notin Exclusives
               PROVE  PoolAnswered(P, k.fresh) /\ Mute(k.pool, P)
    OBVIOUS
  <2> DEFINE D == [k.pool EXCEPT ![m.sid].status = "dead"]
  <2>1. PoolOK(D) /\ PoolOK(k.pool)
    BY PutStatusOK DEF KernelOK, Status
  <2>2. PoolAnswered(D, k.fresh) /\ Mute(k.pool, D)
    BY <2>1, StatusAnswered
  <2> HIDE DEF D
  <2>3. PoolAnswered(ServiceSendSignal(D, m.sid), k.fresh)
        /\ Mute(D, ServiceSendSignal(D, m.sid))
    BY <2>1, <2>2, SignalAnswered
  <2>4. P \in {k.pool, ServiceSendSignal(D, m.sid)}
    BY DEF ServiceHang, D
  <2> QED
    BY <2>2, <2>3, <2>4 DEF Mute
<1> HIDE DEF P
<1>6. Queued(k, kHung)
      /\ (Fit(k) /\ m.sid \notin Exclusives => KernelAnswered(k, kHung))
  BY <1>4, <1>5, KernelPoolAnswered
<1>7. /\ Fit(k) => Fit(kBack)
      /\ Fit(k) /\ m.sid \notin Exclusives => Fit(kHung)
  BY <1>1, <1>2, <1>4, <1>5, <1>3 DEF KernelAnswered
<1>8. {"error", "done"} \subseteq Receipt \ {"none"}
  BY DEF Receipt
<1> HIDE DEF kHung, kBack
<1>9. ASSUME NEW l \in {kHung, kBack}, NEW r \in {"error", "done"}, NEW b
      PROVE  /\ Queued(k, Answer(l, id, r, b))
             /\ Fit(k) /\ m.sid \notin Exclusives =>
                  KernelAnswered(k, Answer(l, id, r, b))
  <2>1. Queued(l, Answer(l, id, r, b))
        /\ (Fit(l) => KernelAnswered(l, Answer(l, id, r, b)))
    BY <1>1, <1>2, <1>8, AnswerAnswered
  <2> QED
    BY <1>3, <1>6, <1>7, <2>1, KernelTwice
<1> QED
  BY <1>9 DEF HangService, kHung, kBack, P

(* dispatch_schedule_message, *)
LEMMA DispatchScheduleMessageAnswered ==
  ASSUME NEW k, KernelOK(k), NEW id \in Services,
         NEW m \in Message, NEW n \in k.fresh \cup {NoService}
  PROVE  LET l == DispatchScheduleMessage(k, id, m, n)
         IN  /\ Queued(k, l)
             /\ /\ PoolAnswered(k.pool, k.fresh) /\ MayHang(m)
                /\ k.pool[id].out \in {NoMsg, Signal(id)}
                => KernelAnswered(k, l)
<1> DEFINE Fit(l) == /\ PoolAnswered(l.pool, l.fresh)
                     /\ l.pool[id].out \in {NoMsg, Signal(id)}
<1>0. {"error", "done", "response"} \subseteq Receipt \ {"none"}
  BY DEF Receipt
<1>1. LET l == Answer(k, id, "error", m)
      IN  Queued(k, l) /\ (Fit(k) => KernelAnswered(k, l))
  BY <1>0, AnswerAnswered
<1>2. ASSUME n # NoService
      PROVE  LET l == Answer([k EXCEPT !.pool = ServiceNew(@, n),
                                       !.fresh = @ \ {n}],
                             id, "response", [m EXCEPT !.to = n])
             IN  Queued(k, l) /\ (Fit(k) => KernelAnswered(k, l))
  <2> DEFINE P == ServiceNew(k.pool, n)
             kNew == [k EXCEPT !.pool = ServiceNew(@, n), !.fresh = @ \ {n}]
             mNew == [m EXCEPT !.to = n]
             l == Answer(kNew, id, "response", mNew)
  <2>1. n \in Services /\ n \in k.fresh
    BY <1>2 DEF KernelOK
  <2>2. /\ kNew.pool = P /\ kNew.fresh = k.fresh \ {n}
        /\ kNew.schedule = k.schedule
    BY DEF KernelOK
  <2>3. PoolOK(P) /\ mNew.to = n
    BY NewInitDeleteOK DEF KernelOK, Message
  <2>4. KernelOK(kNew)
    BY <2>3 DEF KernelOK, PoolOK
  <2>5. /\ \A t \in Services :
             P[t].status \in Live => k.pool[t].status \in Live
        /\ P[id].out \in {k.pool[id].out, NoMsg}
    BY <2>1 DEF ServiceNew, EmptyService, KernelOK, PoolOK, Live
  <2>6. Fit(k) => n \notin Exclusives /\ PoolAnswered(P, k.fresh \ {n})
                    /\ Mute(k.pool, P)
    <3> SUFFICES ASSUME Fit(k)
                 PROVE  n \notin Exclusives /\ PoolAnswered(P, k.fresh \ {n})
                          /\ Mute(k.pool, P)
      OBVIOUS
    <3>1. n \notin Exclusives
      BY <2>1 DEF PoolAnswered
    <3>2. PoolAnswered(P, k.fresh) /\ Mute(k.pool, P)
      BY <2>1, <3>1, SlotAnswered DEF ServiceNew, KernelOK
    <3> QED
      BY <3>1, <3>2 DEF PoolAnswered
  <2> HIDE DEF P, kNew, mNew
  <2>7. Queued(k, kNew) /\ (Fit(k) => KernelAnswered(k, kNew))
    BY <2>2, <2>5, <2>6 DEF Queued, KernelAnswered
  <2>8. Queued(kNew, l) /\ (Fit(kNew) /\ n \notin Exclusives =>
                              KernelAnswered(kNew, l))
    BY <1>0, <2>3, <2>4, AnswerAnswered
  <2>9. Fit(k) => Fit(kNew)
    BY <2>2, <2>5, <2>6
  <2> HIDE DEF l
  <2>10. Queued(k, l) /\ (Fit(k) => KernelAnswered(k, l))
    BY <2>6, <2>7, <2>8, <2>9, KernelTwice
  <2> QED
    BY <2>10 DEF l, kNew, mNew
<1>3. ASSUME m.type = "del"
      PROVE  LET l == Answer([k EXCEPT !.pool = ServiceDelete(@, m.sid)],
                             id, "done", NoMsg)
             IN  Queued(k, l) /\ (Fit(k) => KernelAnswered(k, l))
  <2> DEFINE P == ServiceDelete(k.pool, m.sid)
             kDel == [k EXCEPT !.pool = P]
             l == Answer(kDel, id, "done", NoMsg)
  <2>1. m.sid \in Services /\ PoolOK(P)
    BY <1>3, NewInitDeleteOK DEF Message, KernelOK
  <2>2. KernelOK(kDel) /\ kDel.pool = P /\ kDel.fresh = k.fresh
    BY <2>1, KernelSetPool DEF KernelOK
  <2>3. /\ \A t \in Services :
             P[t].status \in Live => k.pool[t].status \in Live
        /\ P[id].out \in {k.pool[id].out, NoMsg}
    BY <2>1 DEF ServiceDelete, Absent, EmptyService, KernelOK, PoolOK, Live
  <2>4. Fit(k) => PoolAnswered(P, k.fresh) /\ Mute(k.pool, P)
    BY <2>1, SlotAnswered DEF ServiceDelete, Absent, KernelOK
  <2> HIDE DEF P
  <2>5. Queued(k, kDel) /\ (Fit(k) => KernelAnswered(k, kDel))
    BY <2>3, <2>4, KernelPoolAnswered
  <2>6. Fit(k) => Fit(kDel)
    BY <2>2, <2>3, <2>4
  <2> HIDE DEF kDel
  <2>7. Queued(kDel, l) /\ (Fit(kDel) => KernelAnswered(kDel, l))
    BY <1>0, <2>2, AnswerAnswered
  <2> HIDE DEF l
  <2>8. Queued(k, l) /\ (Fit(k) => KernelAnswered(k, l))
    BY <2>5, <2>6, <2>7, KernelTwice
  <2> QED
    BY <2>8 DEF l, kDel, P
<1>4. ASSUME m.type = "hang"
      PROVE  LET l == HangService(k, id, m)
             IN  Queued(k, l) /\ (Fit(k) /\ MayHang(m) => KernelAnswered(k, l))
  <2>1. m.sid \in Services
    BY <1>4 DEF Message
  <2> QED
    BY <1>4, <2>1, HangServiceAnswered DEF MayHang
<1> QED
  BY <1>1, <1>2, <1>3, <1>4 DEF DispatchScheduleMessage

(* dispatch_out_message, *)
LEMMA DispatchOutMessageAnswered ==
  ASSUME NEW k, KernelOK(k), NEW id \in Services,
         NEW m \in Message, NEW n \in k.fresh \cup {NoService}
  PROVE  LET l == DispatchOutMessage(k, id, m, n)
         IN  /\ Queued(k, l)
             /\ /\ PoolAnswered(k.pool, k.fresh) /\ MayHang(m)
                /\ k.pool[id].out \in {NoMsg, Signal(id)}
                => KernelAnswered(k, l)
<1>1. CASE m.to = System
  BY <1>1, DispatchScheduleMessageAnswered DEF DispatchOutMessage
<1>2. CASE m.to # System
  <2> DEFINE r == PushResult(k.pool, m.to)
             b == IF r = "done" THEN NoMsg ELSE m
             k1 == Push(k, m)
             k2 == Answer(k1, id, r, b)
             k3 == ScheduleIfIdle(k2, m.to)
             Fit(l) == /\ PoolAnswered(l.pool, l.fresh)
                       /\ l.pool[id].out \in {NoMsg, Signal(id)}
  <2>1. m.to \in Services
    BY <1>2 DEF Message
  <2>2. /\ r \in Receipt \ {"none"} /\ r # "response"
        /\ b \in Message \cup {NoMsg}
    BY DEF PushResult, Receipt
  <2>3. DispatchOutMessage(k, id, m, n) = k3
    BY <1>2 DEF DispatchOutMessage
  <2>4. KernelOK(k1)
    BY PushOK
  <2>5. Queued(k, k1) /\ (Fit(k) => KernelAnswered(k, k1) /\ Fit(k1))
    BY PushAnswered DEF KernelAnswered
  <2> HIDE DEF r, b, k1
  <2>6. KernelOK(k2)
    BY <2>2, <2>4, AnswerOK
  <2>7. Queued(k1, k2) /\ (Fit(k1) => KernelAnswered(k1, k2))
    BY <2>2, <2>4, AnswerAnswered
  <2> HIDE DEF k2
  <2>8. Queued(k2, k3)
        /\ (PoolAnswered(k2.pool, k2.fresh) => KernelAnswered(k2, k3))
    BY <2>1, <2>6, ScheduleIfIdleAnswered
  <2>9. KernelAnswered(k1, k2) => PoolAnswered(k2.pool, k2.fresh)
    BY DEF KernelAnswered
  <2> HIDE DEF k3
  <2>10. Queued(k, k3)
    BY <2>5, <2>7, <2>8, KernelTwice
  <2>11. Fit(k) => KernelAnswered(k, k3)
    BY <2>5, <2>7, <2>8, <2>9, KernelTwice
  <2> QED
    BY <2>3, <2>10, <2>11
<1> QED
  BY <1>1, <1>2

(* the death signal of a service, *)
LEMMA SignalRootAnswered ==
  ASSUME NEW k, KernelOK(k), NEW id \in Services, NEW m \in Message
  PROVE  LET l == SignalRoot(k, id, m)
         IN  /\ Queued(k, l)
             /\ k.pool[id].out = NoMsg => l.pool[id].out = NoMsg
             /\ PoolAnswered(k.pool, k.fresh) /\ id \notin Exclusives =>
                  KernelAnswered(k, l)
<1>1. LET l == ScheduleIfIdle(Push(k, m), Root)
      IN  /\ Queued(k, l)
          /\ k.pool[id].out = NoMsg => l.pool[id].out = NoMsg
          /\ PoolAnswered(k.pool, k.fresh) => KernelAnswered(k, l)
  <2> DEFINE k1 == Push(k, m)
             l == ScheduleIfIdle(k1, Root)
  <2>1. KernelOK(k1)
    BY PushOK
  <2>2. /\ Queued(k, k1)
        /\ PoolAnswered(k.pool, k.fresh) => KernelAnswered(k, k1)
        /\ k1.pool[id].out = k.pool[id].out
    BY PushAnswered
  <2> HIDE DEF k1
  <2>3. /\ Queued(k1, l)
        /\ PoolAnswered(k1.pool, k1.fresh) => KernelAnswered(k1, l)
        /\ l.pool[id].out = k1.pool[id].out
    BY <2>1, PoolAssumption, ScheduleIfIdleAnswered
  <2>4. KernelAnswered(k, k1) => PoolAnswered(k1.pool, k1.fresh)
    BY DEF KernelAnswered
  <2> HIDE DEF l
  <2>5. Queued(k, l) /\ (PoolAnswered(k.pool, k.fresh) =>
                           KernelAnswered(k, l))
    BY <2>2, <2>3, <2>4, KernelTwice
  <2>6. l.pool[id].out = k.pool[id].out
    BY <2>2, <2>3
  <2> QED
    BY <2>5, <2>6 DEF l, k1
<1>2. LET l == ScheduleBack(k, id)
      IN  /\ Queued(k, l) /\ l.pool = k.pool
          /\ PoolAnswered(k.pool, k.fresh) /\ id \notin Exclusives =>
               KernelAnswered(k, l)
  BY BackAnswered
<1>3. LET l == [k EXCEPT !.pool = ServiceDelete(@, id)]
      IN  /\ Queued(k, l) /\ l.pool[id].out = NoMsg
          /\ PoolAnswered(k.pool, k.fresh) => KernelAnswered(k, l)
  <2> DEFINE P == ServiceDelete(k.pool, id)
  <2>1. /\ \A t \in Services :
             P[t].status \in Live => k.pool[t].status \in Live
        /\ P[id].out = NoMsg
    BY DEF ServiceDelete, Absent, EmptyService, KernelOK, PoolOK, Live
  <2>2. PoolAnswered(k.pool, k.fresh) =>
          PoolAnswered(P, k.fresh) /\ Mute(k.pool, P)
    BY SlotAnswered DEF ServiceDelete, Absent, KernelOK
  <2> HIDE DEF P
  <2>3. LET l == [k EXCEPT !.pool = P]
        IN  /\ Queued(k, l) /\ l.pool[id].out = NoMsg
            /\ PoolAnswered(k.pool, k.fresh) => KernelAnswered(k, l)
    BY <2>1, <2>2, KernelPoolAnswered DEF KernelOK
  <2> QED
    BY <2>3 DEF P
<1> QED
  BY <1>1, <1>2, <1>3 DEF SignalRoot

(* and what becomes of a service that is done: it is queued or waits. *)
LEMMA ParkAnswered ==
  ASSUME NEW k, KernelOK(k), NEW id \in Services
  PROVE  LET l == Park(k, id)
         IN  /\ Queued(k, l)
             /\ l.pool[id].status \in Live => id \in Ids(l.schedule)
             /\ PoolAnswered(k.pool, k.fresh) /\ id \notin Exclusives =>
                  KernelAnswered(k, l)
<1>1. CASE ServiceHasMessage(k.pool, id)
  BY <1>1, ScheduledAnswered DEF Park
<1>2. CASE ~ServiceHasMessage(k.pool, id)
  <2> DEFINE P == ServiceStatusSet(k.pool, id, "idle")
             l == [k EXCEPT !.pool = P]
  <2>1. \A t \in Services :
          P[t].status \in Live => k.pool[t].status \in Live /\ t # id
    BY DEF ServiceStatusSet, Exists, KernelOK, PoolOK, Service, Live
  <2>2. PoolAnswered(k.pool, k.fresh) /\ id \notin Exclusives =>
          PoolAnswered(P, k.fresh) /\ Mute(k.pool, P)
    BY StatusAnswered DEF KernelOK
  <2>3. Park(k, id) = l /\ l.pool = P
    BY <1>2 DEF Park, KernelOK
  <2> HIDE DEF P
  <2>4. /\ Queued(k, l)
        /\ PoolAnswered(k.pool, k.fresh) /\ id \notin Exclusives =>
             KernelAnswered(k, l)
    BY <2>1, <2>2, KernelPoolAnswered
  <2> QED
    BY <2>1, <2>3, <2>4
<1> QED
  BY <1>1, <1>2

(***************************************************************************)
(* The invariants.                                                         *)
(***************************************************************************)
(* A service that is scheduled or runs is in some place. *)
LiveInv == \A s \in Services : pool[s].status \in Live => s \in Placed

(* exclusive_message has a message in its hands. *)
PendingAt ==
  \A x \in Exclusives : pending[x] # NoMsg => pc[x] \in {"spin", "out"}

(* No worker gets an exclusive service, and what such a service has handed
   over is answered before it posts again. *)
AnswersInv ==
  /\ PoolAnswered(pool, fresh)
  /\ Placed \cap Exclusives = {}
  /\ \A x \in Exclusives : pending[x] # NoMsg =>
       pool[x].out = NoMsg /\ MayHang(pending[x])
  /\ PendingAt

(* What a step keeps: the first always, the second when root kills no exclusive
   service.  And a dead service leaves its place with its signal taken. *)
Keeps ==
  /\ LiveInv => LiveInv'
  /\ \A s \in Placed :
       s \in Placed' \/ pool[s].status # "dead" \/ pool'[s].out = NoMsg
  /\ Killable \cap Exclusives = {} /\ AnswersInv /\ PendingAt' => AnswersInv'

(* Nothing happens to the pool. *)
LEMMA StillKeeps ==
  ASSUME UNCHANGED <<pool, fresh, pending>>, Placed' = Placed
  PROVE  Keeps
BY DEF Keeps, LiveInv, AnswersInv

(* The pool changes as the lemmas above say. *)
LEMMA PoolKeeps ==
  ASSUME UNCHANGED <<schedule, slots, pending>>, fresh' = fresh,
         \A s \in Services : pool'[s].status \in Live =>
           pool[s].status \in Live \/ s \in Placed,
         Killable \cap Exclusives = {} /\ AnswersInv =>
           PoolAnswered(pool', fresh) /\ Mute(pool, pool')
  PROVE  Keeps
<1>1. Placed' = Placed
  BY DEF Placed, Held, slots
<1>2. LiveInv => LiveInv'
  BY <1>1 DEF LiveInv
<1>3. Killable \cap Exclusives = {} /\ AnswersInv /\ PendingAt' => AnswersInv'
  BY <1>1, SchedulerAssumption DEF AnswersInv, Mute
<1> QED
  BY <1>1, <1>2, <1>3 DEF Keeps

(* What a queue has is at its front or behind. *)
LEMMA IdsHead ==
  ASSUME NEW S, NEW q \in Seq(S), q # <<>>
  PROVE  /\ Tail(q) \in Seq(S) /\ Head(q) \in S
         /\ Ids(q) = Ids(Tail(q)) \cup {Head(q)}
<1> DEFINE r == Tail(q)
<1>1. /\ Len(q) \in Nat \ {0} /\ DOMAIN q = 1..Len(q)
      /\ DOMAIN r = 1..(Len(q) - 1)
      /\ \A i \in 1..(Len(q) - 1) : r[i] = q[i + 1]
      /\ Head(q) = q[1]
      /\ r \in Seq(S) /\ Head(q) \in S
  OBVIOUS
<1> HIDE DEF r
<1>2. \A i \in DOMAIN q : i # 1 => i - 1 \in DOMAIN r /\ q[i] = r[i - 1]
  BY <1>1
<1>3. \A i \in DOMAIN r : i + 1 \in DOMAIN q /\ r[i] = q[i + 1]
  BY <1>1
<1>4. Ids(q) \subseteq Ids(r) \cup {Head(q)}
  BY <1>1, <1>2 DEF Ids
<1>5. 1 \in DOMAIN q
  BY <1>1
<1>6. Ids(r) \cup {Head(q)} \subseteq Ids(q)
  BY <1>1, <1>3, <1>5 DEF Ids
<1> QED
  BY <1>1, <1>4, <1>6 DEF r

(* A queue has nothing of its own. *)
LEMMA IdsIn ==
  ASSUME NEW S, NEW q \in Seq(S)
  PROVE  Ids(q) \subseteq S
BY DEF Ids

(***************************************************************************)
(* Jobs that move.                                                         *)
(***************************************************************************)
(* A worker takes the job in its mailbox. *)
LEMMA TakeJobKeeps ==
  ASSUME PlaceType, Control, NEW w \in Workers, TakeJob(w)
  PROVE  Keeps
<1>1. /\ ready' = [ready EXCEPT ![w] = NoService]
      /\ running' = [running EXCEPT ![w] = ready[w]]
      /\ ready[w] # NoService /\ pc[w] = "loop"
      /\ UNCHANGED <<pool, fresh, schedule, pending, done, doneJob, job>>
  BY DEF TakeJob, At, restVars, poolVars, frameVars, exclusiveVars
<1>2. running[w] = NoService
  BY <1>1 DEF Control, Hands, HasJob
<1>3. Held' = Held
  BY <1>1, <1>2 DEF PlaceType, Held
<1> QED
  BY <1>1, <1>3, StillKeeps DEF Placed

(* A worker hands its job back, *)
LEMMA CompleteKeeps ==
  ASSUME PlaceType, NEW w \in Workers, NEW l, CompleteTo(w, l),
         UNCHANGED <<pool, fresh, schedule, pending, ready, doneJob, job>>
  PROVE  Keeps
<1>1. /\ done[w] = NoService
      /\ running' = [running EXCEPT ![w] = NoService]
      /\ done' = [done EXCEPT ![w] = running[w]]
  BY DEF CompleteTo
<1>2. Held' = Held
  BY <1>1 DEF PlaceType, Held
<1> QED
  BY <1>2, StillKeeps DEF Placed

(* the pass collects it, *)
LEMMA CollectDoneKeeps ==
  ASSUME PlaceType, NEW t \in Threads, CollectDone(t), index \in Nat \ {0}
  PROVE  Keeps
<1>1. /\ index \in Workers
      /\ done' = [done EXCEPT ![index] = NoService]
      /\ doneJob' = IF done[index] = NoService THEN doneJob
                    ELSE Append(doneJob, done[index])
      /\ UNCHANGED <<pool, fresh, schedule, pending, ready, running, job>>
  BY SchedulerAssumption
  DEF CollectDone, MoreWorkers, poolVars, exclusiveVars, Workers
<1>2. CASE done[index] = NoService
  <2>1. done' = done /\ doneJob' = doneJob
    BY <1>1, <1>2 DEF PlaceType
  <2> QED
    BY <1>1, <2>1, StillKeeps DEF Placed, Held
<1>3. CASE done[index] # NoService
  <2>1. Ids(doneJob') = Ids(doneJob) \cup {done[index]}
    BY <1>1, <1>3, IdsAppend DEF PlaceType
  <2>2. Held' = Held
    BY <1>1, <1>3, <2>1 DEF PlaceType, Held
  <2> QED
    BY <1>1, <2>2, StillKeeps DEF Placed
<1> QED
  BY <1>2, <1>3

(* hands the next one out, *)
LEMMA AssignJobKeeps ==
  ASSUME PlaceType, NEW t \in Threads, AssignJob(t), index \in Nat \ {0}
  PROVE  Keeps
<1> DEFINE s == JobInHand
           q == QueueAfter
<1>1. /\ index \in Workers
      /\ job # NoService \/ schedule # <<>>
      /\ schedule' = q
      /\ UNCHANGED <<pool, fresh, pending, running, done, doneJob>>
      /\ \/ /\ ready[index] = NoService
            /\ ready' = [ready EXCEPT ![index] = s] /\ job' = NoService
         \/ ready' = ready /\ job' = s
  BY SchedulerAssumption
  DEF AssignJob, poolVars, exclusiveVars, Workers
<1>2. /\ s \in Services
      /\ Ids(schedule) \cup {job} = Ids(q) \cup {s, job}
      /\ job # NoService => s = job
  <2>1. CASE job = NoService
    BY <1>1, <2>1, IdsHead DEF PlaceType, JobInHand, QueueAfter
  <2>2. CASE job # NoService
    BY <2>2 DEF PlaceType, JobInHand, QueueAfter
  <2> QED
    BY <2>1, <2>2
<1> HIDE DEF s, q
<1>3. Held' = (Held \ {job}) \cup {s} \/ Held' = Held \cup {s}
  <2>1. CASE /\ ready[index] = NoService
             /\ ready' = [ready EXCEPT ![index] = s] /\ job' = NoService
    <3>1. \A w \in Workers :
            ready'[w] = IF w = index THEN s ELSE ready[w]
      BY <1>1, <2>1 DEF PlaceType
    <3>2. \A v \in Services : (\E w \in Workers : ready'[w] = v) <=>
                              (\E w \in Workers : ready[w] = v) \/ v = s
      BY <1>1, <2>1, <3>1 DEF PlaceType
    <3> QED
      BY <1>1, <1>2, <2>1, <3>2 DEF PlaceType, Held
  <2>2. CASE ready' = ready /\ job' = s
    BY <1>1, <1>2, <2>2 DEF PlaceType, Held
  <2> QED
    BY <1>1, <2>1, <2>2
<1>4. NoService \notin Held /\ (job # NoService => job \in Held)
  BY DEF PlaceType, Held
<1>5. NoService \notin Services /\ q \in Seq(Services)
  BY <1>1, SchedulerAssumption
  DEF PlaceType, q, QueueAfter
<1>6. NoService \notin Ids(q) /\ NoService \notin Ids(schedule)
  BY <1>5, IdsIn DEF PlaceType
<1>7. Ids(schedule') \cup Held' = Ids(schedule) \cup Held
  <2>1. CASE job = NoService
    BY <1>1, <1>2, <1>3, <1>4, <1>5, <1>6, <2>1
  <2>2. CASE job # NoService
    BY <1>1, <1>2, <1>3, <1>4, <2>2
  <2> QED
    BY <2>1, <2>2
<1> QED
  BY <1>1, <1>7, StillKeeps DEF Placed

(* puts the one that is left back, *)
LEMMA AssignEndKeeps ==
  ASSUME PlaceType, NEW t \in Threads, AssignEnd(t)
  PROVE  Keeps
<1>1. /\ schedule' = IF job = NoService THEN schedule
                     ELSE Append(schedule, job)
      /\ job' = NoService
      /\ UNCHANGED <<pool, fresh, pending, ready, running, done, doneJob>>
  BY DEF AssignEnd, PushLeft, poolVars, slotVars, exclusiveVars
<1>2. /\ job = NoService => Ids(schedule') = Ids(schedule)
      /\ job # NoService => Ids(schedule') = Ids(schedule) \cup {job}
  BY <1>1, IdsAppend DEF PlaceType
<1>3. Held' \cup {job} = Held \cup {job} /\ (job = NoService => Held' = Held)
  BY <1>1 DEF Held, PlaceType
<1>4. job # NoService => job \in Held
  BY DEF PlaceType, Held
<1>5. Placed' = Placed
  BY <1>2, <1>3, <1>4 DEF Placed
<1> QED
  BY <1>1, <1>5, StillKeeps

(* and a worker takes the job of another. *)
LEMMA StealKeeps ==
  ASSUME PlaceType, NEW w \in Workers, Steal(w)
  PROVE  Keeps
<1>1. PICK v \in Workers : ready[v] # NoService /\ ready' = MoveJob(v, w)
  BY DEF Steal
<1>2. /\ ready[w] = NoService
      /\ UNCHANGED <<pool, fresh, schedule, pending, running, done, doneJob,
                     job>>
  BY DEF Steal, poolVars, exclusiveVars
<1>3. \A u \in Workers :
        ready'[u] = IF u = v THEN NoService
                    ELSE IF u = w THEN ready[v] ELSE ready[u]
  BY <1>1, <1>2 DEF MoveJob, PlaceType
<1>4. \A s \in Services : (\E u \in Workers : ready'[u] = s) <=>
                          (\E u \in Workers : ready[u] = s)
  BY <1>1, <1>2, <1>3 DEF PlaceType
<1>5. Placed' = Placed
  BY <1>2, <1>4, ZenonT(60) DEF PlaceType, Held, Placed
<1> QED
  BY <1>2, <1>5, StillKeeps

(***************************************************************************)
(* What the lock protects.                                                 *)
(***************************************************************************)
(* A service id that leaves the pass is not lost if it is not live after. *)
LEMMA KernelKeeps ==
  ASSUME NEW k, SetKernel(k), Queued(Kernel, k), NEW X,
         Held \subseteq Held' \cup X, Held' \subseteq Held,
         \A s \in Services \cap X :
           k.pool[s].status \in Live => s \in Ids(k.schedule),
         \A s \in Services \cap X :
           pool[s].status # "dead" \/ k.pool[s].out = NoMsg,
         \A x \in Exclusives : pending'[x] \in {pending[x], NoMsg},
         Killable \cap Exclusives = {} /\ AnswersInv =>
           KernelAnswered(Kernel, k)
  PROVE  Keeps
<1>1. pool' = k.pool /\ schedule' = k.schedule /\ fresh' = k.fresh
  BY DEF SetKernel
<1>2. LiveInv => LiveInv'
  BY <1>1 DEF LiveInv, Queued, Kernel, Placed
<1>3. Killable \cap Exclusives = {} /\ AnswersInv /\ PendingAt' => AnswersInv'
  BY <1>1, SchedulerAssumption
  DEF AnswersInv, KernelAnswered, Kernel, Placed, Mute
<1>4. \A s \in Placed :
        s \in Placed' \/ pool[s].status # "dead" \/ pool'[s].out = NoMsg
  BY <1>1 DEF Queued, Kernel, Placed, Held
<1> QED
  BY <1>2, <1>3, <1>4 DEF Keeps

(* The service that leaves the pass *)
LEMMA HeadGone ==
  ASSUME PlaceType, doneJob # <<>>, doneJob' = Tail(doneJob),
         UNCHANGED <<ready, running, done, job>>
  PROVE  /\ Head(doneJob) \in Services /\ Head(doneJob) \in Held
         /\ Held \subseteq Held' \cup {Head(doneJob)} /\ Held' \subseteq Held
BY IdsHead DEF PlaceType, Held

(* The kernel once an outbound message is taken *)
LEMMA TakenKernel ==
  ASSUME TypeInv, NEW id \in Services
  PROVE  LET k == [Kernel EXCEPT !.pool = ServiceMessageOut(pool, id)]
         IN  /\ KernelOK(k) /\ k.fresh = fresh /\ Queued(Kernel, k)
             /\ k.pool[id].out = NoMsg
             /\ k.pool[id].status = pool[id].status
             /\ pool[id].out # NoMsg => pool[id].out \in Message
             /\ PoolAnswered(pool, fresh) =>
                  /\ KernelAnswered(Kernel, k)
                  /\ pool[id].out # NoMsg => MayHang(pool[id].out)
<1> DEFINE P == ServiceMessageOut(pool, id)
           k == [Kernel EXCEPT !.pool = P]
<1>1. PoolOK(pool) /\ PoolOK(P) /\ fresh \in SUBSET Services
  BY MessageOutOK DEF TypeInv, TypeOK
<1>2. KernelOK(k) /\ KernelOK(Kernel)
  BY <1>1, KernelSetPool, KernelIsOK
<1>3. /\ \A t \in Services : P[t].status = pool[t].status
      /\ P[id].out = NoMsg
      /\ pool[id].out # NoMsg => pool[id].out \in Message
  BY <1>1 DEF ServiceMessageOut, PoolOK, Service
<1>4. PoolAnswered(pool, fresh) => PoolAnswered(P, fresh) /\ Mute(pool, P)
  BY <1>1, MessageOutAnswered
<1> HIDE DEF P
<1>5. Kernel.pool = pool /\ Kernel.fresh = fresh
      /\ k.pool = P /\ k.fresh = fresh
  BY DEF Kernel
<1>6. Queued(Kernel, k)
      /\ (PoolAnswered(pool, fresh) => KernelAnswered(Kernel, k))
  BY <1>2, <1>3, <1>4, <1>5, KernelPoolAnswered
<1> HIDE DEF k
<1>7. PoolAnswered(pool, fresh) =>
        (pool[id].out # NoMsg => MayHang(pool[id].out))
  BY DEF PoolAnswered
<1> QED
  BY <1>2, <1>3, <1>5, <1>6, <1>7 DEF k, P

(* Step 2 of the pass: the message of a service that is done, *)
LEMMA DispatchJobKeeps ==
  ASSUME TypeInv, NEW t \in Threads, DispatchJob(t)
  PROVE  Keeps
<1> DEFINE id == Head(doneJob)
           m == pool[id].out
           k == [Kernel EXCEPT !.pool = ServiceMessageOut(pool, id)]
<1>0. PlaceType
  BY PlaceTypeHolds
<1>1. PICK n \in NewIds(m) :
        SetKernel(Park(IF m = NoMsg THEN k
                       ELSE DispatchOutMessage(k, id, m, n), id))
  BY DEF DispatchJob
<1>2. /\ doneJob # <<>> /\ doneJob' = Tail(doneJob)
      /\ UNCHANGED <<ready, running, done, job, pending>>
      /\ pool[id].status # "dead"
  BY DEF DispatchJob, DispatchVars, slotVars, exclusiveVars, ServiceStatusGet
<1>3. /\ id \in Services /\ id \in Held
      /\ Held \subseteq Held' \cup {id} /\ Held' \subseteq Held
  BY <1>0, <1>2, HeadGone
<1>4. /\ KernelOK(k) /\ k.fresh = fresh /\ Queued(Kernel, k)
      /\ k.pool[id].out = NoMsg
      /\ m # NoMsg => m \in Message
      /\ PoolAnswered(pool, fresh) =>
           KernelAnswered(Kernel, k) /\ (m # NoMsg => MayHang(m))
  BY <1>3, TakenKernel
<1>5. n \in k.fresh \cup {NoService} /\ fresh \subseteq Services
  BY <1>0, <1>4 DEF NewIds, PlaceType
<1> HIDE DEF k, m, id
<1> DEFINE o == IF m = NoMsg THEN k ELSE DispatchOutMessage(k, id, m, n)
<1>6. /\ KernelOK(o) /\ Queued(k, o)
      /\ /\ KernelAnswered(Kernel, k)
         /\ m # NoMsg => MayHang(m)
         => KernelAnswered(k, o)
  <2>1. KernelAnswered(Kernel, k) => PoolAnswered(k.pool, k.fresh)
    BY DEF KernelAnswered
  <2>2. CASE m = NoMsg
    <3>1. Queued(k, k) /\ (PoolAnswered(k.pool, k.fresh) =>
                             KernelAnswered(k, k))
      BY DEF Queued, KernelAnswered, Mute
    <3> QED
      BY <1>4, <2>1, <2>2, <3>1
  <2>3. CASE m # NoMsg
    <3>1. KernelOK(DispatchOutMessage(k, id, m, n))
      BY <1>3, <1>4, <1>5, <2>3, DispatchOutMessageOK
    <3> QED
      BY <1>3, <1>4, <1>5, <2>1, <2>3, <3>1, DispatchOutMessageAnswered
  <2> QED
    BY <2>2, <2>3
<1>7. SetKernel(Park(o, id))
  BY <1>1
<1> HIDE DEF o
<1>8. /\ Queued(o, Park(o, id))
      /\ Park(o, id).pool[id].status \in Live =>
           id \in Ids(Park(o, id).schedule)
      /\ PoolAnswered(o.pool, o.fresh) /\ id \notin Exclusives =>
           KernelAnswered(o, Park(o, id))
  BY <1>3, <1>6, ParkAnswered
<1> DEFINE l == Park(o, id)
<1> HIDE DEF l
<1>9. Queued(Kernel, l)
  BY <1>4, <1>6, <1>8, KernelTwice DEF l
<1>10. AnswersInv => KernelAnswered(Kernel, l)
  <2> SUFFICES ASSUME AnswersInv PROVE KernelAnswered(Kernel, l)
    OBVIOUS
  <2>1. PoolAnswered(pool, fresh) /\ id \notin Exclusives
    BY <1>3 DEF AnswersInv, Placed
  <2>2. KernelAnswered(Kernel, k) /\ KernelAnswered(k, o)
    BY <1>4, <1>6, <2>1
  <2>3. PoolAnswered(o.pool, o.fresh)
    BY <2>2 DEF KernelAnswered
  <2>4. KernelAnswered(o, l)
    BY <1>8, <2>1, <2>3 DEF l
  <2> QED
    BY <2>2, <2>4, KernelTwice
<1>11. SetKernel(l) /\ \A s \in Services \cap {id} :
         l.pool[s].status \in Live => s \in Ids(l.schedule)
  BY <1>7, <1>8 DEF l
<1>12. \A s \in Services \cap {id} :
         pool[s].status # "dead" \/ l.pool[s].out = NoMsg
  BY <1>2
<1> QED
  BY <1>2, <1>3, <1>9, <1>10, <1>11, <1>12, KernelKeeps

(* and the death signal of one that died. *)
LEMMA DispatchSignalKeeps ==
  ASSUME TypeInv, NEW t \in Threads, DispatchSignal(t)
  PROVE  Keeps
<1> DEFINE id == Head(doneJob)
           m == pool[id].out
           k == [Kernel EXCEPT !.pool = ServiceMessageOut(pool, id)]
           l == SignalRoot(k, id, m)
<1>0. PlaceType
  BY PlaceTypeHolds
<1>1. /\ SetKernel(l)
      /\ ServiceStatusGet(pool, id) = "dead" /\ m # NoMsg
  BY DEF DispatchSignal, IsSignal
<1>2. /\ doneJob # <<>> /\ doneJob' = Tail(doneJob)
      /\ UNCHANGED <<ready, running, done, job, pending>>
  BY DEF DispatchSignal, DispatchVars, slotVars, exclusiveVars
<1>3. /\ id \in Services /\ id \in Held
      /\ Held \subseteq Held' \cup {id} /\ Held' \subseteq Held
  BY <1>0, <1>2, HeadGone
<1>4. /\ KernelOK(k) /\ Queued(Kernel, k) /\ k.pool[id].out = NoMsg
      /\ k.pool[id].status = pool[id].status /\ m \in Message
      /\ PoolAnswered(pool, fresh) => KernelAnswered(Kernel, k)
  BY <1>1, <1>3, TakenKernel
<1>5. k.pool[id].status \notin Live
  BY <1>1, <1>4 DEF ServiceStatusGet, Exists, Live
<1> HIDE DEF k, m, id
<1>6. /\ Queued(k, l) /\ l.pool[id].out = NoMsg
      /\ PoolAnswered(k.pool, k.fresh) /\ id \notin Exclusives =>
           KernelAnswered(k, l)
  BY <1>3, <1>4, SignalRootAnswered
<1> HIDE DEF l
<1>7. Queued(Kernel, l)
  BY <1>4, <1>6, KernelTwice
<1>8. AnswersInv => KernelAnswered(Kernel, l)
  <2>1. AnswersInv => PoolAnswered(pool, fresh) /\ id \notin Exclusives
    BY <1>3 DEF AnswersInv, Placed
  <2>2. KernelAnswered(Kernel, k) => PoolAnswered(k.pool, k.fresh)
    BY DEF KernelAnswered
  <2> QED
    BY <1>4, <1>6, <2>1, <2>2, KernelTwice
<1>9. \A s \in Services \cap {id} :
         l.pool[s].status \in Live => s \in Ids(l.schedule)
  BY <1>5, <1>6 DEF Queued
<1>10. \A s \in Services \cap {id} :
         pool[s].status # "dead" \/ l.pool[s].out = NoMsg
  BY <1>6
<1> QED
  BY <1>1, <1>2, <1>3, <1>7, <1>8, <1>9, <1>10, KernelKeeps

(***************************************************************************)
(* What a VM does to the pool when it is resumed.                          *)
(***************************************************************************)
(* A pool in which no service has become live, and that answers as before *)
Harmless(P) ==
  /\ PoolOK(P)
  /\ \A s \in Services : P[s].status \in Live => pool[s].status \in Live
  /\ Killable \cap Exclusives = {} /\ AnswersInv =>
       PoolAnswered(P, fresh) /\ Mute(pool, P)

(* A service that is run, or exclusive, takes what it is to read. *)
LEMMA ConsumedHarmless ==
  ASSUME TypeInv, NEW s \in Services
  PROVE  /\ Harmless(Consumed(s)) /\ Harmless(pool)
         /\ Consumed(s)[s].receipt = "none"
         /\ \A t \in Services : Consumed(s)[t].status = pool[t].status
<1> DEFINE C == Consumed(s)
<1>1. PoolOK(C) /\ PoolOK(pool)
  BY ConsumedOK DEF TypeInv
<1>2. /\ \A t \in Services : C[t].status = pool[t].status
      /\ C[s].receipt = "none"
  BY <1>1 DEF Consumed, ServiceReadReceipt, ServicePopMessage, PoolOK, Service
<1>3. PoolAnswered(pool, fresh) => PoolAnswered(C, fresh) /\ Mute(pool, C)
  BY <1>1, ReadReceiptAnswered, PopMessageAnswered DEF Consumed
<1> HIDE DEF C
<1>4. Harmless(C) /\ Harmless(pool)
  BY <1>1, <1>2, <1>3 DEF Harmless, AnswersInv, Mute
<1> QED
  BY <1>2, <1>4 DEF C

(* It may post a message, *)
LEMMA SendHarmless ==
  ASSUME NEW P, Harmless(P), NEW s \in Services \cap Placed,
         P[s].receipt = "none", NEW m \in Message,
         Killable \cap Exclusives = {} /\ AnswersInv => MayHang(m)
  PROVE  Harmless(ServiceSendMessage(P, s, m))
<1> DEFINE R == ServiceSendMessage(P, s, m)
<1>1. PoolOK(P) /\ PoolOK(R)
  BY SendMessageOK DEF Harmless
<1>2. \A t \in Services : R[t].status = P[t].status
  BY <1>1 DEF ServiceSendMessage, PoolOK, Service
<1>3. ASSUME Killable \cap Exclusives = {}, AnswersInv
      PROVE  PoolAnswered(R, fresh) /\ Mute(pool, R)
  <2>1. PoolAnswered(P, fresh) /\ Mute(pool, P) /\ s \notin Exclusives
    BY <1>3 DEF Harmless, AnswersInv
  <2>2. /\ PoolAnswered(R, fresh)
        /\ \A t \in Services : t # s => R[t].out = P[t].out
    BY <1>1, <1>3, <2>1, SendMessageAnswered
  <2> QED
    BY <2>1, <2>2, SchedulerAssumption DEF Mute
<1> QED
  BY <1>1, <1>2, <1>3 DEF Harmless

(* die, *)
LEMMA DeathHarmless ==
  ASSUME NEW P, Harmless(P), NEW s \in Services \cap Placed
  PROVE  /\ Harmless(ServiceStatusSet(P, s, "dead")) /\ Harmless(Death(P, s))
<1> DEFINE D == ServiceStatusSet(P, s, "dead")
           R == ServiceSendSignal(D, s)
<1>1. PoolOK(P) /\ PoolOK(D) /\ PoolOK(R)
  BY StatusSetOK, SendSignalOK DEF Harmless, Status
<1>2. \A t \in Services : D[t].status \in Live => P[t].status \in Live
  BY <1>1 DEF ServiceStatusSet, PoolOK, Service, Live
<1>3. \A t \in Services : R[t].status = D[t].status
  BY <1>1 DEF ServiceSendSignal, PoolOK, Service
<1>4. ASSUME Killable \cap Exclusives = {}, AnswersInv
      PROVE  /\ PoolAnswered(D, fresh) /\ Mute(pool, D)
             /\ PoolAnswered(R, fresh) /\ Mute(pool, R)
  <2>1. PoolAnswered(P, fresh) /\ Mute(pool, P) /\ s \notin Exclusives
    BY <1>4 DEF Harmless, AnswersInv
  <2>2. PoolAnswered(D, fresh) /\ Mute(P, D)
    BY <1>1, <2>1, StatusAnswered
  <2>3. PoolAnswered(R, fresh) /\ Mute(D, R)
    BY <1>1, <2>1, <2>2, SignalAnswered
  <2> QED
    BY <2>1, <2>2, <2>3 DEF Mute
<1> HIDE DEF D, R
<1>5. Harmless(D) /\ Harmless(R)
  BY <1>1, <1>2, <1>3, <1>4 DEF Harmless
<1> QED
  BY <1>5 DEF Death, D, R

(* and, if it is root, initialise or delete a service. *)
LEMMA SlotHarmless ==
  ASSUME NEW P, Harmless(P), NEW s \in Services
  PROVE  /\ Harmless(ServiceDelete(P, s))
         /\ P[Root].receipt = "none" =>
              ServiceDelete(P, s)[Root].receipt = "none"
         /\ P[Root].receipt = "none" =>
              ServiceInit(P, s)[Root].receipt = "none"
         /\ (Killable \cap Exclusives = {} /\ AnswersInv =>
               s \notin Exclusives) => Harmless(ServiceInit(P, s))
<1> DEFINE D == ServiceDelete(P, s)
           I == ServiceInit(P, s)
<1>0. Root \in Services
  BY PoolAssumption
<1>1. PoolOK(P) /\ PoolOK(D) /\ PoolOK(I)
  BY NewInitDeleteOK DEF Harmless
<1>2. /\ \A t \in Services : D[t].status \in Live => P[t].status \in Live
      /\ \A t \in Services : I[t].status \in Live => P[t].status \in Live
      /\ P[Root].receipt = "none" =>
           D[Root].receipt = "none" /\ I[Root].receipt = "none"
  BY <1>0, <1>1
  DEF ServiceDelete, Absent, EmptyService, ServiceInit, PoolOK, Service, Live
<1>3. PoolAnswered(P, fresh) => PoolAnswered(D, fresh) /\ Mute(P, D)
  BY <1>1, SlotAnswered DEF ServiceDelete, Absent
<1>4. PoolAnswered(P, fresh) /\ s \notin Exclusives =>
        PoolAnswered(I, fresh) /\ Mute(P, I)
  BY <1>1, StatusAnswered DEF ServiceInit
<1> HIDE DEF D, I
<1>5. Harmless(D)
  BY <1>1, <1>2, <1>3 DEF Harmless, Mute
<1>6. (Killable \cap Exclusives = {} /\ AnswersInv => s \notin Exclusives)
      => Harmless(I)
  BY <1>1, <1>2, <1>4 DEF Harmless, Mute
<1> QED
  BY <1>2, <1>5, <1>6 DEF D, I

(* A harmless pool that takes the place of the pool keeps the invariants, *)
LEMMA HarmlessKeeps ==
  ASSUME Harmless(pool'), UNCHANGED <<fresh, schedule, slots, pending>>
  PROVE  Keeps
BY PoolKeeps DEF Harmless

(* and so it does when the service that ran is marked. *)
LEMMA MarkKeeps ==
  ASSUME TypeInv, Control, NEW w \in Workers, pc[w] \in {"set", "resume"},
         NEW P, Harmless(P), NEW st,
         pool' = ServiceStatusSet(P, running[w], st),
         UNCHANGED <<fresh, schedule, slots, pending>>
  PROVE  Keeps
<1> DEFINE s == running[w]
<1>1. s \in Placed /\ s \in Services
  BY RunningPlaced
<1> HIDE DEF s
<1>2. pool' = ServiceStatusSet(P, s, st)
  BY DEF s
<1>3. \A t \in Services :
        pool'[t].status \in Live => pool[t].status \in Live \/ t \in Placed
  BY <1>1, <1>2 DEF Harmless, PoolOK, ServiceStatusSet
<1>4. ASSUME Killable \cap Exclusives = {}, AnswersInv
      PROVE  PoolAnswered(pool', fresh) /\ Mute(pool, pool')
  <2>1. /\ PoolAnswered(P, fresh) /\ Mute(pool, P) /\ s \notin Exclusives
        /\ PoolOK(P)
    BY <1>1, <1>4 DEF Harmless, AnswersInv
  <2> DEFINE R == ServiceStatusSet(P, s, st)
  <2>2. PoolAnswered(R, fresh) /\ Mute(P, R)
    BY <1>1, <2>1, StatusAnswered
  <2> HIDE DEF R
  <2>3. PoolAnswered(R, fresh) /\ Mute(pool, R)
    BY <2>1, <2>2 DEF Mute
  <2> QED
    BY <1>2, <2>3 DEF R
<1> QED
  BY <1>3, <1>4, PoolKeeps

(* A VM that yields leaves such a pool, and the service is done. *)
LEMMA FinishKeeps ==
  ASSUME TypeInv, Control, NEW w \in Workers, pc[w] = "resume",
         NEW P, Harmless(P), Finish(w, P)
  PROVE  Keeps
<1>1. /\ pool' = ServiceStatusSet(P, running[w], "done")
      /\ UNCHANGED <<fresh, schedule, slots, pending>>
  BY DEF Finish, slotVars, frameVars, exclusiveVars, slots
<1> QED
  BY <1>1, MarkKeeps

(* worker_run *)
LEMMA SetRunningKeeps ==
  ASSUME TypeInv, Control, NEW w \in Workers, SetRunning(w)
  PROVE  Keeps
<1>1. /\ pool' = ServiceStatusSet(pool, running[w], "running")
      /\ UNCHANGED <<fresh, schedule, slots, pending>> /\ pc[w] = "set"
  BY DEF SetRunning, At, slotVars, frameVars, exclusiveVars, slots
<1>2. Harmless(pool)
  BY PoolAssumption, ConsumedHarmless
<1> QED
  BY <1>1, <1>2, MarkKeeps

(* Whatever a worker's VM does keeps the invariants. *)
LEMMA ResumeServiceKeeps ==
  ASSUME TypeInv, Control, NEW w \in Workers, ResumeService(w)
  PROVE  Keeps
<1> DEFINE s == running[w]
           C == Consumed(s)
<1>1. pc[w] = "resume"
  BY DEF ResumeService, Yield, Post, Quit, QuitRoot, RootNew, RootKill,
         RootInit, RootReap, At
<1>2. s \in Services \cap Placed
  BY <1>1, RunningPlaced
<1>3. Harmless(C) /\ Harmless(pool) /\ C[s].receipt = "none"
  BY <1>2, ConsumedHarmless
<1>4. Root \in Services /\ PoolOK(pool)
  BY PoolAssumption DEF TypeInv
<1>5. CASE Yield(w)
  BY <1>1, <1>3, <1>5, FinishKeeps DEF Yield
<1>6. ASSUME NEW m \in Message, Finish(w, ServiceSendMessage(C, s, m)),
             Killable \cap Exclusives = {} /\ AnswersInv => MayHang(m)
      PROVE  Keeps
  <2>1. Harmless(ServiceSendMessage(C, s, m))
    <3> HIDE DEF C, s
    <3> QED
      BY <1>2, <1>3, <1>6, SendHarmless
  <2> QED
    BY <1>1, <1>6, <2>1, FinishKeeps
<1>7. CASE Post(w)
  <2>1. PICK d \in Addressees :
          Finish(w, ServiceSendMessage(C, s, Request(s, d, 0)))
    BY <1>7 DEF Post
  <2>2. Request(s, d, 0) \in Message /\ MayHang(Request(s, d, 0))
    BY <1>2, SchedulerAssumption, RequestType DEF MayHang, Request
  <2> QED
    BY <1>6, <2>1, <2>2
<1>8. CASE Quit(w) \/ QuitRoot(w)
  <2>1. /\ UNCHANGED <<fresh, schedule, slots, pending>>
        /\ \/ pool' = Death(C, s) \/ pool' = pool
           \/ pool' = ServiceStatusSet(C, s, "dead")
    BY <1>8
    DEF Quit, QuitRoot, slotVars, frameVars, exclusiveVars, slots
  <2>2. Harmless(ServiceStatusSet(C, s, "dead")) /\ Harmless(Death(C, s))
    <3> HIDE DEF C, s
    <3> QED
      BY <1>2, <1>3, DeathHarmless
  <2> QED
    BY <1>3, <2>1, <2>2, HarmlessKeeps
<1>9. CASE RootNew(w)
  <2>1. Finish(w, ServiceSendMessage(C, s, Command("new", NoService)))
    BY <1>9 DEF RootNew
  <2>2. MayHang(Command("new", NoService))
    BY DEF MayHang, Command
  <2> QED
    BY <1>6, <2>1, <2>2, CommandType
<1>10. CASE RootKill(w)
  <2>1. PICK t \in Killable :
          Finish(w, ServiceSendMessage(C, s, Command("hang", t)))
    BY <1>10 DEF RootKill
  <2>2. t \in Services
    BY SchedulerAssumption
  <2>3. Killable \cap Exclusives = {} => MayHang(Command("hang", t))
    BY DEF MayHang, Command
  <2> QED
    BY <1>6, <2>1, <2>2, <2>3, CommandType
<1>11. CASE RootInit(w)
  <2> DEFINE n == pool[Root].bounce.to
             P == ServiceReadReceipt(pool, Root)
             P1 == ServiceInit(P, n)
             P2 == ServiceDelete(P, n)
             m1 == Request(Root, n, 0)
             m2 == Command("hang", n)
  <2>1. /\ pool[Root].receipt = "response" /\ s = Root
        /\ \/ Finish(w, ServiceSendMessage(P1, Root, m1))
           \/ Finish(w, ServiceSendMessage(P2, Root, m2))
    BY <1>11 DEF RootInit, MustInit
  <2>2. n \in Services /\ (AnswersInv => n \notin Exclusives)
    BY <1>4, <2>1 DEF PoolOK, AnswersInv, PoolAnswered
  <2>3. P = Consumed(Root)
    BY <2>1 DEF Consumed
  <2>4. Harmless(P) /\ P[Root].receipt = "none"
    BY <1>4, <2>3, ConsumedHarmless
  <2>5. m1 \in Message /\ m2 \in Message
    BY <1>4, <2>2, RequestType, CommandType
  <2>6. MayHang(m1) /\ (AnswersInv => MayHang(m2))
    BY <2>2 DEF MayHang, Request, Command
  <2> HIDE DEF P, n
  <2>7. Harmless(P1) /\ Harmless(P2) /\ P1[Root].receipt = "none"
        /\ P2[Root].receipt = "none"
    BY <2>2, <2>4, SlotHarmless
  <2> HIDE DEF P1, P2, m1, m2
  <2>8. /\ Harmless(ServiceSendMessage(P1, Root, m1))
        /\ Harmless(ServiceSendMessage(P2, Root, m2))
    BY <1>2, <2>1, <2>5, <2>6, <2>7, SendHarmless
  <2> QED
    BY <1>1, <2>1, <2>8, FinishKeeps
<1>12. CASE RootReap(w)
  <2> DEFINE n == NextMessage(pool, Root).from
             P == ServicePopMessage(pool, Root)
             P1 == ServiceDelete(P, n)
             m == Command("del", n)
  <2>1. /\ pool[Root].receipt = "none" /\ s = Root
        /\ NextMessage(pool, Root) # NoMsg
        /\ Finish(w, P) \/ Finish(w, ServiceSendMessage(P1, Root, m))
    BY <1>12 DEF RootReap, MustReap
  <2>2. n \in Services
    BY <1>4, <2>1, NextMessageOK DEF Message
  <2>3. P = Consumed(Root)
    BY <2>1 DEF Consumed
  <2>4. Harmless(P) /\ P[Root].receipt = "none"
    BY <1>4, <2>3, ConsumedHarmless
  <2>5. m \in Message /\ MayHang(m)
    BY <2>2, CommandType DEF MayHang, Command
  <2> HIDE DEF P, n
  <2>6. Harmless(P1) /\ P1[Root].receipt = "none"
    BY <2>2, <2>4, SlotHarmless
  <2> HIDE DEF P1, m
  <2>7. Harmless(ServiceSendMessage(P1, Root, m))
    BY <1>2, <2>1, <2>5, <2>6, SendHarmless
  <2> QED
    BY <1>1, <2>1, <2>4, <2>7, FinishKeeps
<1> QED
  BY <1>5, <1>7, <1>8, <1>9, <1>10, <1>11, <1>12 DEF ResumeService

(***************************************************************************)
(* Exclusive threads.                                                      *)
(***************************************************************************)
LEMMA SamePool ==
  ASSUME TypeInv, UNCHANGED <<pool, fresh, schedule, slots, pending>>
  PROVE  Keeps
<1>1. Harmless(pool)
  BY PoolAssumption, ConsumedHarmless
<1> QED
  BY <1>1, HarmlessKeeps

(* The service of an exclusive thread runs. *)
LEMMA ExclusiveResumeKeeps ==
  ASSUME TypeInv, NEW x \in Exclusives, ExclusiveResume(x)
  PROVE  Keeps
<1> USE DEF slotVars, frameVars, exclusiveVars, slots
<1>1. x \in Services
  BY SchedulerAssumption
<1>2. CASE LoopExclusive(x) \/ ExclusiveQuit(x) \/ ExitExclusive(x)
           \/ ExclusiveSend(x)
  BY <1>2, SamePool
  DEF LoopExclusive, ExclusiveQuit, ExitExclusive, ExclusiveSend, notPc,
      restVars, poolVars
<1>3. CASE ExclusiveYield(x)
  <2>1. Harmless(pool')
    BY <1>1, <1>3, ConsumedHarmless DEF ExclusiveYield
  <2> QED
    BY <1>3, <2>1, HarmlessKeeps DEF ExclusiveYield
<1>4. CASE ExclusivePost(x)
  <2> DEFINE C == Consumed(x)
  <2>1. PICK d \in Addressees :
          pool' = ServiceSendMessage(C, x, Request(x, d, 0))
    BY <1>4 DEF ExclusivePost
  <2> DEFINE m == Request(x, d, 0)
             R == ServiceSendMessage(C, x, m)
  <2>2. /\ UNCHANGED <<fresh, schedule, slots, pending>>
        /\ pc[x] = "resume" /\ pool' = R
    BY <1>4, <2>1 DEF ExclusivePost, At
  <2>3. /\ Harmless(C) /\ C[x].receipt = "none" /\ PoolOK(C)
        /\ \A t \in Services : C[t].status = pool[t].status
    BY <1>1, ConsumedHarmless DEF Harmless
  <2>4. m \in Message /\ MayHang(m)
    BY <1>1, SchedulerAssumption, RequestType DEF MayHang, Request
  <2> HIDE DEF m, C
  <2>5. \A t \in Services : R[t].status = C[t].status
    BY <2>3 DEF ServiceSendMessage, PoolOK, Service
  <2>6. PoolAnswered(C, fresh) =>
          /\ PoolAnswered(R, fresh)
          /\ \A t \in Services : t # x => R[t].out = C[t].out
    BY <1>1, <2>3, <2>4, SendMessageAnswered
  <2> HIDE DEF R
  <2>7. Placed' = Placed
    BY <2>2 DEF Placed, Held
  <2>8. LiveInv => LiveInv'
    BY <2>2, <2>3, <2>5, <2>7 DEF LiveInv
  <2>9. ASSUME Killable \cap Exclusives = {}, AnswersInv, PendingAt'
        PROVE  AnswersInv'
    <3>1. PoolAnswered(C, fresh) /\ Mute(pool, C)
      BY <2>3, <2>9 DEF Harmless
    <3>2. pending[x] = NoMsg
      BY <2>2, <2>9 DEF AnswersInv, PendingAt
    <3>3. \A y \in Exclusives : pending[y] # NoMsg =>
            R[y].out = NoMsg /\ MayHang(pending[y])
      BY <2>6, <2>9, <3>1, <3>2, SchedulerAssumption DEF AnswersInv, Mute
    <3> QED
      BY <2>2, <2>6, <2>7, <2>9, <3>1, <3>3 DEF AnswersInv
  <2> QED
    BY <2>7, <2>8, <2>9 DEF Keeps
<1> QED
  BY <1>2, <1>3, <1>4 DEF ExclusiveResume

(* exclusive_message takes the message that is out, *)
LEMMA TakeOutKeeps ==
  ASSUME TypeInv, NEW x \in Exclusives, TakeOut(x)
  PROVE  Keeps
<1> DEFINE P == ServiceMessageOut(pool, x)
<1>1. /\ pool' = P
      /\ pending' = [pending EXCEPT ![x] = pool[x].out]
      /\ UNCHANGED <<fresh, schedule, slots>>
  BY DEF TakeOut, slotVars, frameVars, slots
<1>2. x \in Services /\ PoolOK(pool)
      /\ pending \in [Exclusives -> Message \cup {NoMsg}]
  BY SchedulerAssumption DEF TypeInv, TypeOK
<1>3. \A t \in Services : P[t].status = pool[t].status
  BY <1>2 DEF ServiceMessageOut, PoolOK, Service
<1>4. PoolAnswered(pool, fresh) =>
        PoolAnswered(P, fresh) /\ Mute(pool, P) /\ P[x].out = NoMsg
  BY <1>2, MessageOutAnswered
<1> HIDE DEF P
<1>5. Placed' = Placed
  BY <1>1 DEF Placed, Held, slots
<1>6. LiveInv => LiveInv'
  BY <1>1, <1>3, <1>5 DEF LiveInv
<1>7. ASSUME Killable \cap Exclusives = {}, AnswersInv, PendingAt'
      PROVE  AnswersInv'
  <2>1. PoolAnswered(P, fresh) /\ Mute(pool, P) /\ P[x].out = NoMsg
        /\ (pool[x].out # NoMsg => MayHang(pool[x].out))
    BY <1>2, <1>4, <1>7 DEF AnswersInv, PoolAnswered
  <2>2. \A y \in Exclusives : pending'[y] # NoMsg =>
          P[y].out = NoMsg /\ MayHang(pending'[y])
    BY <1>1, <1>2, <1>7, <2>1 DEF AnswersInv, Mute
  <2> QED
    BY <1>1, <1>5, <1>7, <2>1, <2>2 DEF AnswersInv
<1> QED
  BY <1>5, <1>6, <1>7 DEF Keeps

(* dispatches it *)
LEMMA DispatchOutKeeps ==
  ASSUME TypeInv, NEW x \in Exclusives, DispatchOut(x)
  PROVE  Keeps
<1> DEFINE m == pending[x]
           k == DispatchOutMessage(Kernel, x, m, NoService)
           l == IF m = NoMsg THEN Kernel ELSE k
<1>1. /\ SetKernel(l)
      /\ pending' = [pending EXCEPT ![x] = NoMsg]
      /\ UNCHANGED slots
  BY DEF DispatchOut, slotVars, slots
<1>2. /\ x \in Services /\ KernelOK(Kernel)
      /\ pending \in [Exclusives -> Message \cup {NoMsg}]
      /\ m # NoMsg => m \in Message
  BY SchedulerAssumption, KernelIsOK DEF TypeInv, TypeOK
<1>3. Kernel.pool = pool /\ Kernel.fresh = fresh
  BY DEF Kernel
<1>4. Held' = Held /\ \A y \in Exclusives : pending'[y] \in {pending[y], NoMsg}
  BY <1>1, <1>2 DEF Held, slots
<1>5. AnswersInv => PoolAnswered(pool, fresh)
                    /\ (m # NoMsg => pool[x].out = NoMsg /\ MayHang(m))
  BY DEF AnswersInv
<1> HIDE DEF m
<1>6. m # NoMsg =>
        Queued(Kernel, k) /\ (AnswersInv => KernelAnswered(Kernel, k))
  BY <1>2, <1>3, <1>5, DispatchOutMessageAnswered
<1>7. Queued(Kernel, Kernel) /\ (AnswersInv => KernelAnswered(Kernel, Kernel))
  BY <1>3, <1>5 DEF Queued, KernelAnswered, Mute
<1>8. Queued(Kernel, l) /\ (AnswersInv => KernelAnswered(Kernel, l))
  BY <1>6, <1>7
<1> HIDE DEF l
<1>9. Held \subseteq Held' \cup {} /\ Held' \subseteq Held
  BY <1>4
<1>10. /\ \A s \in Services \cap {} :
            l.pool[s].status \in Live => s \in Ids(l.schedule)
       /\ \A s \in Services \cap {} :
            pool[s].status # "dead" \/ l.pool[s].out = NoMsg
  OBVIOUS
<1> QED
  BY <1>1, <1>4, <1>8, <1>9, <1>10, KernelKeeps

(* and sends what is in the sending queue, or puts it back. *)
LEMMA SendKeeps ==
  ASSUME TypeInv, SendInv, NEW x \in Exclusives, Send(x)
  PROVE  Keeps
<1> DEFINE q == sending[x]
           m == Head(q)
           k == Push(Kernel, m)
           l == ScheduleIfIdle(k, m.to)
<1>1. /\ pc[x] = "send" /\ index > 1 /\ index \in Nat
      /\ SetKernel(l) \/ UNCHANGED <<pool, fresh, schedule>>
      /\ UNCHANGED <<slots, pending>>
  BY DEF Send, At, slotVars, slots, TypeInv, TypeOK
<1>2. q \in Seq(Mail) /\ KernelOK(Kernel)
  BY KernelIsOK DEF TypeInv, TypeOK
<1>3. index - 1 <= Len(q)
  BY <1>1 DEF SendInv
<1> HIDE DEF q
<1>4. m \in Message /\ m.to \in Services
  BY <1>1, <1>2, <1>3 DEF Mail
<1> HIDE DEF m
<1>5. Kernel.pool = pool /\ Kernel.fresh = fresh
  BY DEF Kernel
<1>6. /\ KernelOK(k) /\ Queued(Kernel, k)
      /\ PoolAnswered(pool, fresh) => KernelAnswered(Kernel, k)
  BY <1>2, <1>4, <1>5, PushOK, PushAnswered
<1> HIDE DEF k
<1>7. /\ Queued(k, l)
      /\ PoolAnswered(k.pool, k.fresh) => KernelAnswered(k, l)
  BY <1>4, <1>6, ScheduleIfIdleAnswered
<1> HIDE DEF l
<1>8. Queued(Kernel, l) /\ (AnswersInv => KernelAnswered(Kernel, l))
  <2>1. KernelAnswered(Kernel, k) => PoolAnswered(k.pool, k.fresh)
    BY DEF KernelAnswered
  <2>2. AnswersInv => PoolAnswered(pool, fresh)
    BY DEF AnswersInv
  <2> QED
    BY <1>6, <1>7, <2>1, <2>2, KernelTwice
<1>9. CASE SetKernel(l)
  <2>1. Held \subseteq Held' \cup {} /\ Held' \subseteq Held
    BY <1>1 DEF Held, slots
  <2>2. /\ \A s \in Services \cap {} :
             l.pool[s].status \in Live => s \in Ids(l.schedule)
        /\ \A s \in Services \cap {} :
             pool[s].status # "dead" \/ l.pool[s].out = NoMsg
    OBVIOUS
  <2>3. \A y \in Exclusives : pending'[y] \in {pending[y], NoMsg}
    BY <1>1
  <2> QED
    BY <1>8, <1>9, <2>1, <2>2, <2>3, KernelKeeps
<1>10. CASE UNCHANGED <<pool, fresh, schedule>>
  BY <1>1, <1>10, SamePool
<1> QED
  BY <1>1, <1>9, <1>10

(***************************************************************************)
(* Every step keeps the invariants.                                        *)
(***************************************************************************)
LEMMA ScheduleDispatchKeeps ==
  ASSUME TypeInv, NEW t \in Threads, ScheduleDispatch(t)
  PROVE  Keeps
<1>0. PlaceType /\ index \in Nat \ {0}
  BY PlaceTypeHolds DEF TypeInv, TypeOK
<1>1. CASE CollectDone(t)
  BY <1>0, <1>1, CollectDoneKeeps
<1>2. CASE CollectEnd(t) \/ NoSignal(t) \/ DispatchEnd(t) \/ WakeAssigned(t)
  BY <1>2, SamePool
  DEF CollectEnd, NoSignal, DispatchEnd, WakeAssigned, notPc, restVars,
      poolVars, slotVars, frameVars, exclusiveVars, slots
<1>3. CASE DispatchJob(t)
  BY <1>3, DispatchJobKeeps
<1>4. CASE DispatchSignal(t)
  BY <1>4, DispatchSignalKeeps
<1>5. CASE AssignJob(t)
  BY <1>0, <1>5, AssignJobKeeps
<1>6. CASE AssignEnd(t)
  BY <1>0, <1>6, AssignEndKeeps
<1> QED
  BY <1>1, <1>2, <1>3, <1>4, <1>5, <1>6 DEF ScheduleDispatch

(* Every step of a worker does, *)
LEMMA WorkerKeeps ==
  ASSUME TypeInv, OneScheduler, Control, NEW w \in Workers, WorkerStep(w)
  PROVE  Keeps
<1> USE DEF notPc, restVars, poolVars, slotVars, frameVars, exclusiveVars,
            slots
<1>0. PlaceType /\ ControlType /\ w \in Threads
  BY PlaceTypeHolds, ControlTypeHolds DEF Threads
<1>1. CASE TakeAndComplete(w)
  <2>1. CASE TakeJob(w)
    BY <1>0, <2>1, TakeJobKeeps
  <2>2. CASE SetRunning(w)
    BY <2>2, SetRunningKeeps
  <2>3. CASE StartWorker(w) \/ FindNoJob(w) \/ CheckDead(w)
             \/ CompleteBlocked(w) \/ CompleteSelfFails(w)
    BY <2>3, SamePool
    DEF StartWorker, FindNoJob, CheckDead, CompleteBlocked, CompleteSelfFails
  <2>4. CASE Complete(w)
    BY <1>0, <2>4, CompleteKeeps DEF Complete
  <2>5. CASE CompleteOwned(w) \/ CompleteSelf(w) \/ DispatchForSelf(w)
    <3>1. doneJob = <<>> /\ job = NoService
      BY <1>0, <2>5, LocalsEmpty
      DEF CompleteOwned, CompleteSelf, DispatchForSelf, At, Scheduling
    <3>2. doneJob' = <<>> /\ job' = NoService
      BY <2>5
      DEF CompleteOwned, CompleteSelf, DispatchForSelf, EnterDispatch
    <3>3. CASE CompleteOwned(w) \/ CompleteSelf(w)
      BY <1>0, <3>1, <3>2, <3>3, CompleteKeeps
      DEF CompleteOwned, CompleteSelf
    <3>4. CASE DispatchForSelf(w)
      BY <3>1, <3>2, <3>4, SamePool DEF DispatchForSelf
    <3> QED
      BY <2>5, <3>3, <3>4
  <2> QED
    BY <1>1, <2>1, <2>2, <2>3, <2>4, <2>5 DEF TakeAndComplete
<1>2. CASE ResumeService(w)
  BY <1>2, ResumeServiceKeeps
<1>3. CASE ScheduleDispatchWorker(w)
  <2>1. CASE Acquire(w)
    <3>1. doneJob = <<>> /\ job = NoService
      BY <1>0, <2>1, LocalsEmpty DEF Acquire, LockFree
    <3> QED
      BY <2>1, <3>1, SamePool DEF Acquire, EnterDispatch
  <2>2. CASE AcquireFails(w) \/ StealNothing(w)
    BY <2>2, SamePool DEF AcquireFails, StealNothing
  <2>3. CASE ScheduleDispatch(w)
    BY <1>0, <2>3, ScheduleDispatchKeeps
  <2>4. CASE Steal(w)
    BY <1>0, <2>4, StealKeeps
  <2>5. CASE Release(w)
    <3>1. doneJob = <<>> /\ job = NoService
      BY <1>0, <2>5, LocalsEmpty DEF Release, At, Scheduling
    <3> QED
      BY <2>5, <3>1, SamePool DEF Release, LeaveDispatch
  <2> QED
    BY <1>3, <2>1, <2>2, <2>3, <2>4, <2>5 DEF ScheduleDispatchWorker
<1>4. CASE NoJob(w)
  BY <1>4, SamePool
  DEF NoJob, Deactivate, CheckLast, LookAgain, DeactivateAgain, CountDown,
      GoToSleep, SetSleeping, WaitEvent, ClearSleeping, Awake
<1>5. CASE QuitWorker(w)
  BY <1>5, SamePool DEF QuitWorker, WakeAll, SeeTerm, ExitWorker
<1> QED
  BY <1>1, <1>2, <1>3, <1>4, <1>5 DEF WorkerStep

(* and so does every step of an exclusive thread. *)
LEMMA ExclusiveKeeps ==
  ASSUME TypeInv, OneScheduler, SendInv, Control,
         NEW x \in Exclusives, ExclusiveStep(x)
  PROVE  Keeps
<1> USE DEF notPc, restVars, poolVars, slotVars, frameVars, exclusiveVars,
            slots
<1>0. ControlType /\ x \in Threads
  BY ControlTypeHolds DEF Threads
<1>1. CASE ExclusiveResume(x)
  BY <1>1, ExclusiveResumeKeeps
<1>2. CASE TakeOut(x)
  BY <1>2, TakeOutKeeps
<1>3. CASE DispatchOut(x)
  BY <1>3, DispatchOutKeeps
<1>4. CASE Send(x)
  BY <1>4, SendKeeps
<1>5. CASE SendEnd(x) \/ ReleaseExclusive(x)
  <2>1. doneJob = <<>> /\ job = NoService
    BY <1>0, <1>5, LocalsEmpty DEF SendEnd, ReleaseExclusive, At, Scheduling
  <2> QED
    BY <1>5, <2>1, SamePool
    DEF SendEnd, ReleaseExclusive, EnterDispatch, LeaveDispatch
<1>6. CASE ScheduleDispatch(x)
  BY <1>0, <1>6, ScheduleDispatchKeeps
<1>7. CASE Spin(x) \/ CountSleepers(x) \/ WakeSome(x) \/ WakeEnd(x)
  BY <1>7, SamePool DEF Spin, CountSleepers, WakeSome, WakeEnd
<1> QED
  BY <1>1, <1>2, <1>3, <1>4, <1>5, <1>6, <1>7
  DEF ExclusiveStep, ExclusiveMessage

(***************************************************************************)
(* Where exclusive_message is when it has a message in its hands.          *)
(***************************************************************************)
(* Workers do not move exclusive threads. *)
LEMMA WorkerMoves ==
  ASSUME ControlType, NEW w \in Workers, WorkerStep(w)
  PROVE  UNCHANGED pending /\ \A x \in Exclusives : pc'[x] = pc[x]
<1> DEFINE Aside == UNCHANGED pending /\ \A x \in Exclusives : pc'[x] = pc[x]
<1>0. /\ w \notin Exclusives
      /\ \A l : Goto(w, l) => \A x \in Exclusives : pc'[x] = pc[x]
  BY DEF ControlType, Goto
<1> USE DEF notPc, restVars, exclusiveVars
<1>1. TakeAndComplete(w) => Aside
  BY <1>0
  DEF TakeAndComplete, StartWorker, TakeJob, FindNoJob, CheckDead, SetRunning,
      Complete, CompleteBlocked, CompleteOwned, DispatchForSelf, CompleteSelf,
      CompleteSelfFails, CompleteTo
<1>2. ResumeService(w) => Aside
  BY <1>0
  DEF ResumeService, Yield, Post, Quit, QuitRoot, RootNew, RootKill, RootInit,
      RootReap, Finish
<1>3. ScheduleDispatch(w) => Aside
  BY <1>0
  DEF ScheduleDispatch, CollectDone, CollectEnd, DispatchJob, DispatchSignal,
      NoSignal, DispatchEnd, AssignJob, WakeAssigned, AssignEnd, DispatchVars
<1>4. ScheduleDispatchWorker(w) => Aside
  BY <1>0, <1>3
  DEF ScheduleDispatchWorker, Acquire, AcquireFails, Steal, StealNothing,
      Release
<1>5. NoJob(w) => Aside
  BY <1>0
  DEF NoJob, Deactivate, CheckLast, LookAgain, DeactivateAgain, CountDown,
      GoToSleep, SetSleeping, WaitEvent, ClearSleeping, Awake
<1>6. QuitWorker(w) => Aside
  BY <1>0 DEF QuitWorker, WakeAll, SeeTerm, ExitWorker
<1> QED
  BY <1>1, <1>2, <1>4, <1>5, <1>6 DEF WorkerStep

(* A message taken out is dispatched before the thread goes on. *)
LEMMA ExclusivePending ==
  ASSUME TypeInv, NEW x \in Exclusives, ExclusiveStep(x), PendingAt
  PROVE  PendingAt'
<1>0. /\ pc \in [Threads -> WorkerLabel \cup ExclusiveLabel] /\ x \in Threads
      /\ pending \in [Exclusives -> Message \cup {NoMsg}]
  BY DEF TypeInv, TypeOK, Threads
<1>1. \A l : Goto(x, l) =>
        pc'[x] = l /\ \A y \in Exclusives \ {x} : pc'[y] = pc[y]
  BY <1>0 DEF Goto, Threads
<1> USE DEF notPc, restVars, exclusiveVars, At
<1>2. ExclusiveResume(x) => PendingAt'
  BY <1>0, <1>1
  DEF PendingAt, ExclusiveResume, LoopExclusive, ExclusiveYield, ExclusiveSend,
      ExclusivePost, ExclusiveQuit, ExitExclusive
<1>3. TakeOut(x) \/ Spin(x) \/ DispatchOut(x) => PendingAt'
  BY <1>0, <1>1 DEF PendingAt, TakeOut, Spin, DispatchOut
<1>4. Send(x) => PendingAt'
  BY <1>0 DEF PendingAt, Send
<1>5. SendEnd(x) \/ CountSleepers(x) \/ WakeSome(x) \/ WakeEnd(x)
        \/ ReleaseExclusive(x) => PendingAt'
  BY <1>0, <1>1
  DEF PendingAt, SendEnd, CountSleepers, WakeSome, WakeEnd, ReleaseExclusive
<1>6. ScheduleDispatch(x) => PendingAt'
  BY <1>0, <1>1
  DEF PendingAt, ScheduleDispatch, CollectDone, CollectEnd, DispatchJob,
      DispatchSignal, NoSignal, DispatchEnd, AssignJob, WakeAssigned,
      AssignEnd, DispatchVars
<1> QED
  BY <1>2, <1>3, <1>4, <1>5, <1>6 DEF ExclusiveStep, ExclusiveMessage

(***************************************************************************)
(* The theorems.                                                           *)
(***************************************************************************)
(* The program starts with root in the queue and nothing under way. *)
LEMMA AnswersInit == Init => LiveInv /\ AnswersInv
<1> SUFFICES ASSUME Init PROVE LiveInv /\ AnswersInv
  OBVIOUS
<1> USE PoolAssumption, SchedulerAssumption
<1>1. Ids(schedule) = {Root} /\ Ids(doneJob) = {}
  BY DEF Init, Ids
<1>2. Placed = {Root}
  BY <1>1 DEF Init, Placed, Held
<1>3. /\ \A s \in Services :
           /\ pool[s].out = NoMsg /\ pool[s].receipt = "none"
           /\ pool[s].bounce = NoMsg
           /\ pool[s].status =
                IF s = Root THEN "schedule"
                ELSE IF s \in Exclusives THEN "exclusive"
                ELSE IF s \in Preloaded THEN "idle" ELSE "absent"
      /\ fresh = Services \ ({Root} \cup Exclusives \cup Preloaded)
  BY DEF Init, Absent, EmptyService
<1>4. LiveInv
  BY <1>2, <1>3 DEF LiveInv, Live
<1>5. PoolAnswered(pool, fresh)
  BY <1>3 DEF PoolAnswered, Answered
<1>6. AnswersInv
  BY <1>2, <1>5 DEF Init, AnswersInv, PendingAt
<1> QED
  BY <1>4, <1>6

(* Every step keeps the invariants. *)
LEMMA AnswersNext ==
  ASSUME ControlInv, [Next]_vars
  PROVE  /\ LiveInv => LiveInv'
         /\ Killable \cap Exclusives = {} /\ AnswersInv => AnswersInv'
<1>0. TypeInv /\ OneScheduler /\ SendInv /\ Control /\ ControlType
  BY ControlTypeHolds DEF ControlInv, SchedulerInv
<1>1. ASSUME NEW w \in Workers, WorkerStep(w)
      PROVE  Keeps /\ (PendingAt => PendingAt')
  <2>1. Keeps
    BY <1>0, <1>1, WorkerKeeps
  <2>2. PendingAt => PendingAt'
    BY <1>0, <1>1, WorkerMoves DEF PendingAt
  <2> QED
    BY <2>1, <2>2
<1>2. ASSUME NEW x \in Exclusives, ExclusiveStep(x)
      PROVE  Keeps /\ (PendingAt => PendingAt')
  BY <1>0, <1>2, ExclusiveKeeps, ExclusivePending
<1>3. ASSUME UNCHANGED vars
      PROVE  Keeps /\ (PendingAt => PendingAt')
  BY <1>0, <1>3, SamePool
  DEF vars, notPc, restVars, poolVars, slotVars, frameVars, exclusiveVars,
      slots, PendingAt
<1>4. Keeps /\ (PendingAt => PendingAt')
  BY <1>1, <1>2, <1>3 DEF Next
<1> QED
  BY <1>4 DEF Keeps, AnswersInv

(* A service that was scheduled, or that runs, is in the queue, in a mailbox,
   with a worker or with the scheduling pass, whoever is killed meanwhile:
   nobody drops it. *)
THEOREM NeverLost == Spec => []NoServiceLost
<1>1. Init => LiveInv
  BY AnswersInit
<1>2. ControlInv /\ LiveInv /\ [Next]_vars => LiveInv'
  BY AnswersNext
<1>3. LiveInv => NoServiceLost
  BY PlacesHold DEF LiveInv, NoServiceLost, Placed, Live
<1> QED
  BY <1>1, <1>2, <1>3, ControlInvariant, PTL DEF Spec

(* What a service has sent is answered before it sends again, as long as root
   kills no service that has a thread of its own. *)
THEOREM AnswersInvariant ==
  Killable \cap Exclusives = {} => (Spec => []AnswersInv)
<1> SUFFICES ASSUME Killable \cap Exclusives = {} PROVE Spec => []AnswersInv
  OBVIOUS
<1>1. Init => AnswersInv
  BY AnswersInit
<1>2. ControlInv /\ AnswersInv /\ [Next]_vars => AnswersInv'
  BY AnswersNext
<1> QED
  BY <1>1, <1>2, ControlInvariant, PTL DEF Spec

(* The scheduler never overwrites a receipt: a service has no more than one
   message or answer under way. *)
THEOREM AnsweredOnce ==
  Killable \cap Exclusives = {} => (Spec => []OneAnswer)
<1>1. AnswersInv => OneAnswer
  BY DEF AnswersInv, PoolAnswered, Answered, OneAnswer
<1> QED
  BY <1>1, AnswersInvariant, PTL

-----------------------------------------------------------------------------
(***************************************************************************)
(* active_worker.                                                          *)
(***************************************************************************)
(* The workers that count, and where the others are *)
Away == {"start", "last", "inc", "sleep", "setSleeping", "wait", "unsleep",
         "awake"}
Awakes == {w \in Workers : pc[w] \notin Away}

(* There are finitely many of them. *)
LEMMA AwakesFinite == IsFiniteSet(Awakes) /\ Cardinality(Awakes) \in Nat
<1>1. IsFiniteSet(Workers)
  BY FS_Interval, SchedulerAssumption DEF Workers
<1>2. Awakes \in SUBSET Workers
  BY DEF Awakes
<1>3. IsFiniteSet(Awakes)
  BY <1>1, <1>2, FS_Subset
<1> QED
  BY <1>3, FS_CardinalityType

(* A thread goes from one place to another without being counted anew, *)
LEMMA CountSame ==
  ASSUME TypeInv, ActiveCounts, active' = active, NEW t \in Threads,
         \A w \in Workers \ {t} : pc'[w] = pc[w],
         t \in Workers => (pc'[t] \in Away <=> pc[t] \in Away)
  PROVE  ActiveCounts'
<1>1. Awakes' = Awakes
  BY DEF Awakes
<1> QED
  BY <1>1 DEF ActiveCounts, Awakes, Away

(* goes to sleep, *)
LEMMA CountLess ==
  ASSUME TypeInv, ActiveCounts, active' = active - 1, NEW w \in Workers,
         \A v \in Workers \ {w} : pc'[v] = pc[v],
         pc[w] \notin Away, pc'[w] \in Away
  PROVE  ActiveCounts'
<1>1. Awakes' = Awakes \ {w} /\ w \in Awakes
  BY DEF Awakes
<1>2. Cardinality(Awakes') = Cardinality(Awakes) - 1
  BY <1>1, AwakesFinite, FS_RemoveElement
<1> QED
  BY <1>2 DEF ActiveCounts, Awakes, Away

(* or is awake again. *)
LEMMA CountMore ==
  ASSUME TypeInv, ActiveCounts, active' = active + 1, NEW w \in Workers,
         \A v \in Workers \ {w} : pc'[v] = pc[v],
         pc[w] \in Away, pc'[w] \notin Away
  PROVE  ActiveCounts'
<1>1. Awakes' = Awakes \cup {w} /\ w \notin Awakes
  BY DEF Awakes
<1>2. Cardinality(Awakes') = Cardinality(Awakes) + 1
  BY <1>1, AwakesFinite, FS_AddElement
<1> QED
  BY <1>2 DEF ActiveCounts, Awakes, Away

(* What a step of a thread does to the count of the others *)
LEMMA GotoMoves ==
  ASSUME TypeInv, NEW t \in Threads, NEW l
  PROVE  Goto(t, l) => pc'[t] = l /\ \A w \in Workers \ {t} : pc'[w] = pc[w]
BY DEF TypeInv, TypeOK, Goto, Threads

(* The scheduling pass *)
LEMMA ScheduleDispatchCounts ==
  ASSUME TypeInv, ActiveCounts, NEW t \in Threads, ScheduleDispatch(t)
  PROVE  ActiveCounts'
<1>1. /\ active' = active
      /\ \A w \in Workers \ {t} : pc'[w] = pc[w]
      /\ pc[t] \notin Away /\ pc'[t] \notin Away
  BY GotoMoves
  DEF ScheduleDispatch, CollectDone, CollectEnd, DispatchJob, DispatchSignal,
      NoSignal, DispatchEnd, AssignJob, WakeAssigned, AssignEnd, DispatchVars,
      At, notPc, sleepVars, Away
<1> QED
  BY <1>1, CountSame

(* Every step of a worker keeps the count, *)
LEMMA WorkerCounts ==
  ASSUME TypeInv, ActiveCounts, NEW w \in Workers, WorkerStep(w)
  PROVE  ActiveCounts'
<1> DEFINE Aside == \A v \in Workers \ {w} : pc'[v] = pc[v]
           Same == /\ active' = active /\ Aside
                   /\ pc[w] \in Away <=> pc'[w] \in Away
<1>0. w \in Threads
  BY DEF Threads
<1>1. CASE StartWorker(w) \/ LookAgain(w) \/ Awake(w)
  <2>1. /\ active' = active + 1 /\ Aside
        /\ pc[w] \in Away /\ pc'[w] \notin Away
    BY <1>0, <1>1, GotoMoves DEF StartWorker, LookAgain, Awake, At, Away
  <2> QED
    BY <2>1, CountMore
<1>2. CASE Deactivate(w) \/ DeactivateAgain(w)
  <2>1. /\ active' = active - 1 /\ Aside
        /\ pc[w] \notin Away /\ pc'[w] \in Away
    BY <1>0, <1>2, GotoMoves
    DEF Deactivate, DeactivateAgain, CountDown, At, Away
  <2> QED
    BY <2>1, CountLess
<1> USE DEF At, notPc, restVars, sleepVars, Away
<1>3. CASE TakeAndComplete(w)
  <2>1. CASE StartWorker(w)
    BY <1>1, <2>1
  <2>2. CASE TakeJob(w) \/ FindNoJob(w) \/ CheckDead(w) \/ SetRunning(w)
    <3>1. Same
      BY <1>0, <2>2, GotoMoves DEF TakeJob, FindNoJob, CheckDead, SetRunning
    <3> QED
      BY <1>0, <3>1, CountSame
  <2>3. CASE Complete(w) \/ CompleteOwned(w) \/ CompleteSelf(w)
    <3>1. Same
      BY <1>0, <2>3, GotoMoves
      DEF Complete, CompleteOwned, CompleteSelf, CompleteTo
    <3> QED
      BY <1>0, <3>1, CountSame
  <2>4. CASE CompleteBlocked(w) \/ DispatchForSelf(w)
    <3>1. Same
      BY <1>0, <2>4, GotoMoves DEF CompleteBlocked, DispatchForSelf
    <3> QED
      BY <1>0, <3>1, CountSame
  <2>5. CASE CompleteSelfFails(w)
    <3>1. Same
      BY <2>5 DEF CompleteSelfFails
    <3> QED
      BY <1>0, <3>1, CountSame
  <2> QED
    BY <1>3, <2>1, <2>2, <2>3, <2>4, <2>5 DEF TakeAndComplete
<1>4. CASE ResumeService(w)
  <2>1. Same
    BY <1>0, <1>4, GotoMoves
    DEF ResumeService, Yield, Post, Quit, QuitRoot, RootNew, RootKill,
        RootInit, RootReap, Finish
  <2> QED
    BY <1>0, <2>1, CountSame
<1>5. CASE ScheduleDispatchWorker(w)
  <2>1. CASE ScheduleDispatch(w)
    BY <1>0, <2>1, ScheduleDispatchCounts
  <2>2. CASE Acquire(w) \/ AcquireFails(w) \/ Steal(w) \/ StealNothing(w)
             \/ Release(w)
    <3>1. Same
      BY <1>0, <2>2, GotoMoves
      DEF Acquire, AcquireFails, Steal, StealNothing, Release, AfterPass
    <3> QED
      BY <1>0, <3>1, CountSame
  <2> QED
    BY <1>5, <2>1, <2>2 DEF ScheduleDispatchWorker
<1>6. CASE NoJob(w)
  <2>1. CASE CheckLast(w) \/ GoToSleep(w) \/ SetSleeping(w) \/ WaitEvent(w)
             \/ ClearSleeping(w)
    <3>1. Same
      BY <1>0, <2>1, GotoMoves
      DEF CheckLast, GoToSleep, SetSleeping, WaitEvent, ClearSleeping
    <3> QED
      BY <1>0, <3>1, CountSame
  <2> QED
    BY <1>1, <1>2, <1>6, <2>1 DEF NoJob
<1>7. CASE QuitWorker(w)
  <2>1. Same
    BY <1>0, <1>7, GotoMoves DEF QuitWorker, WakeAll, SeeTerm, ExitWorker
  <2> QED
    BY <1>0, <2>1, CountSame
<1> QED
  BY <1>3, <1>4, <1>5, <1>6, <1>7 DEF WorkerStep

(* and no step of an exclusive thread touches it. *)
LEMMA ExclusiveCounts ==
  ASSUME TypeInv, ActiveCounts, NEW x \in Exclusives, ExclusiveStep(x)
  PROVE  ActiveCounts'
<1>0. x \in Threads /\ x \notin Workers
  BY SchedulerAssumption DEF Threads
<1>1. CASE ScheduleDispatch(x)
  BY <1>0, <1>1, ScheduleDispatchCounts
<1> DEFINE Same == /\ active' = active
                   /\ \A w \in Workers \ {x} : pc'[w] = pc[w]
<1> USE DEF notPc, restVars, sleepVars
<1>2. ExclusiveResume(x) => Same
  BY <1>0, GotoMoves
  DEF ExclusiveResume, LoopExclusive, ExclusiveYield, ExclusiveSend,
      ExclusivePost, ExclusiveQuit, ExitExclusive
<1>3. TakeOut(x) \/ Spin(x) \/ DispatchOut(x) \/ Send(x) \/ SendEnd(x)
        => Same
  BY <1>0, GotoMoves DEF TakeOut, Spin, DispatchOut, Send, SendEnd
<1>4. CountSleepers(x) \/ WakeSome(x) \/ WakeEnd(x) \/ ReleaseExclusive(x)
        => Same
  BY <1>0, GotoMoves DEF CountSleepers, WakeSome, WakeEnd, ReleaseExclusive
<1>5. Same => ActiveCounts'
  BY <1>0, CountSame
<1> QED
  BY <1>1, <1>2, <1>3, <1>4, <1>5 DEF ExclusiveStep, ExclusiveMessage

(* The number an exclusive thread subtracts from, to find how many workers
   sleep, is that of the workers that do not. *)
THEOREM WorkersCounted == Spec => []ActiveCounts
<1>1. Init => ActiveCounts
  <2> SUFFICES ASSUME Init PROVE ActiveCounts
    OBVIOUS
  <2>1. Awakes = {} /\ active = 0
    BY DEF Init, Awakes, Away, Threads
  <2>2. Cardinality({}) = 0
    BY FS_EmptySet
  <2> QED
    BY <2>1, <2>2 DEF ActiveCounts, Awakes, Away
<1>2. ControlInv /\ ActiveCounts /\ [Next]_vars => ActiveCounts'
  <2> SUFFICES ASSUME ControlInv, ActiveCounts, [Next]_vars
               PROVE  ActiveCounts'
    OBVIOUS
  <2>1. TypeInv
    BY DEF ControlInv, SchedulerInv
  <2>2. CASE UNCHANGED vars
    BY <2>2 DEF vars, notPc, sleepVars, ActiveCounts
  <2> QED
    BY <2>1, <2>2, WorkerCounts, ExclusiveCounts DEF Next
<1> QED
  BY <1>1, <1>2, ControlInvariant, PTL DEF Spec

(***************************************************************************)
(* The pass of a worker for itself.                                        *)
(***************************************************************************)
(* Once the pass of w is past the slot of w *)
PastOwn(w) ==
  \/ pc[w] = "completeSelf"
  \/ pc[w] \in {"dispatch", "assign", "wake"} /\ ret[w] = "self"
  \/ pc[w] = "collect" /\ ret[w] = "self" /\ index > w

(* the slot is empty: only w itself fills it. *)
OwnSlotFree == \A w \in Workers : PastOwn(w) => done[w] = NoService

(* What it takes, and what has failed so far *)
FreeInv == OwnSlotFree /\ PassFreesSlot

(* A step of t leaves the others alone, at least while they have the lock, *)
Beside(t) ==
  \A w \in Workers \ {t} :
    /\ pc'[w] = pc[w] /\ ret'[w] = ret[w]
    /\ owner = w => index' = index /\ done'[w] = done[w]

(* and finds its own slot empty. *)
LEMMA FreeStep ==
  ASSUME OneScheduler, FreeInv, NEW t \in Threads, Beside(t),
         t \in Workers /\ PastOwn(t)' => done'[t] = NoService,
         failed' # "self complete"
  PROVE  FreeInv'
<1>1. ASSUME NEW w \in Workers \ {t}, PastOwn(w)' PROVE done'[w] = NoService
  <2>1. pc[w] \in Scheduling
    BY <1>1 DEF Beside, PastOwn, Scheduling
  <2>2. owner = w
    BY <2>1 DEF OneScheduler, Threads
  <2>3. PastOwn(w)
    BY <1>1, <2>2 DEF Beside, PastOwn
  <2> QED
    BY <1>1, <2>2, <2>3 DEF Beside, FreeInv, OwnSlotFree
<1>2. OwnSlotFree'
  BY <1>1 DEF OwnSlotFree
<1> QED
  BY <1>2 DEF FreeInv, PassFreesSlot

(* A step that leaves everything alone but its thread *)
LEMMA FreeAside ==
  ASSUME OneScheduler, FreeInv, NEW t \in Threads,
         \A w \in Workers \ {t} :
           pc'[w] = pc[w] /\ ret'[w] = ret[w] /\ done'[w] = done[w],
         owner \in {t, NoService} \/ index' = index,
         t \in Workers /\ PastOwn(t)' => done'[t] = NoService,
         failed' # "self complete"
  PROVE  FreeInv'
<1>1. Beside(t)
  BY SchedulerAssumption DEF Beside, Threads
<1> QED
  BY <1>1, FreeStep

(* The failures that SetKernel knows of *)
LEMMA KernelFails ==
  ASSUME NEW k, SetKernel(k)
  PROVE  failed' # "self complete"
BY DEF SetKernel

(* The scheduling pass *)
LEMMA ScheduleDispatchFree ==
  ASSUME TypeInv, OneScheduler, FreeInv, NEW t \in Threads,
         ScheduleDispatch(t)
  PROVE  FreeInv'
<1>0. /\ pc \in [Threads -> WorkerLabel \cup ExclusiveLabel]
      /\ done \in [Workers -> Services \cup {NoService}]
      /\ index \in Nat \ {0}
  BY DEF TypeInv, TypeOK
<1>1. failed = "none" /\ pc[t] \in Scheduling /\ owner = t
  BY DEF ScheduleDispatch, CollectDone, CollectEnd, DispatchJob,
         DispatchSignal, NoSignal, DispatchEnd, AssignJob, WakeAssigned,
         AssignEnd, At, Scheduling, OneScheduler
<1>2. \A l : Goto(t, l) =>
        pc'[t] = l /\ \A w \in Workers \ {t} : pc'[w] = pc[w]
  BY GotoMoves
<1> DEFINE Others == \A w \in Workers \ {t} :
             pc'[w] = pc[w] /\ ret'[w] = ret[w] /\ done'[w] = done[w]
           Mine == t \in Workers /\ PastOwn(t)' => done'[t] = NoService
<1> USE DEF At, notPc, restVars, slotVars, frameVars
<1>3. CASE CollectDone(t)
  <2>1. /\ pc[t] = "collect" /\ pc' = pc /\ ret' = ret /\ index' = index + 1
        /\ done' = [done EXCEPT ![index] = NoService] /\ failed' = failed
    BY <1>3 DEF CollectDone
  <2>2. PastOwn(t)' /\ t \in Workers => done'[t] = NoService
    BY <1>0, <2>1 DEF PastOwn, FreeInv, OwnSlotFree, Workers
  <2>3. Beside(t)
    BY <1>0, <1>1, <2>1, SchedulerAssumption DEF Beside
  <2> QED
    BY <1>1, <2>1, <2>2, <2>3, FreeStep
<1>4. CASE CollectEnd(t)
  <2>1. /\ pc[t] = "collect" /\ ~(index <= NWorker)
        /\ pc'[t] = "dispatch" /\ Others
        /\ UNCHANGED <<ret, done, index, failed>>
    BY <1>2, <1>4 DEF CollectEnd, MoreWorkers
  <2>2. Mine
    BY <1>0, <2>1, SchedulerAssumption
    DEF PastOwn, FreeInv, OwnSlotFree, Workers
  <2> QED
    BY <1>1, <2>1, <2>2, FreeAside
<1>5. CASE DispatchJob(t) \/ DispatchSignal(t) \/ NoSignal(t)
  <2>1. /\ UNCHANGED <<pc, ret, done, index>>
        /\ failed' # "self complete"
    BY <1>5, KernelFails
    DEF DispatchJob, DispatchSignal, NoSignal, DispatchVars
  <2>2. Mine
    BY <2>1 DEF PastOwn, FreeInv, OwnSlotFree
  <2> QED
    BY <1>1, <2>1, <2>2, FreeAside
<1>6. CASE DispatchEnd(t) \/ AssignJob(t) \/ WakeAssigned(t)
  <2>1. /\ pc[t] \in {"dispatch", "assign", "wake"}
        /\ pc'[t] \in {"assign", "wake"} /\ Others
        /\ UNCHANGED <<ret, done, failed>>
    BY <1>2, <1>6 DEF DispatchEnd, AssignJob, WakeAssigned
  <2>2. Mine
    BY <2>1 DEF PastOwn, FreeInv, OwnSlotFree
  <2> QED
    BY <1>1, <2>1, <2>2, FreeAside
<1>7. CASE AssignEnd(t)
  <2>1. /\ pc[t] = "assign" /\ Others
        /\ pc'[t] = CASE ret[t] = "self" -> "completeSelf"
                      [] ret[t] = "exclusive" -> "active"
                      [] OTHER -> "steal"
        /\ UNCHANGED <<ret, done, index, failed>>
    BY <1>2, <1>7 DEF AssignEnd
  <2>2. Mine
    BY <2>1 DEF PastOwn, FreeInv, OwnSlotFree
  <2> QED
    BY <1>1, <2>1, <2>2, FreeAside
<1> QED
  BY <1>3, <1>4, <1>5, <1>6, <1>7 DEF ScheduleDispatch

(* Every step of a worker keeps it, *)
LEMMA WorkerFree ==
  ASSUME TypeInv, OneScheduler, Control, FreeInv, ~SpuriousCAS,
         NEW w \in Workers, WorkerStep(w)
  PROVE  FreeInv'
<1> DEFINE Others == \A v \in Workers \ {w} :
             pc'[v] = pc[v] /\ ret'[v] = ret[v] /\ done'[v] = done[v]
           Mine == PastOwn(w)' => done'[w] = NoService
<1>0. /\ w \in Threads /\ w \in Nat /\ w >= 1
      /\ done \in [Workers -> Services \cup {NoService}]
      /\ ret \in [Threads -> Call]
  BY DEF Threads, Workers, TypeInv, TypeOK
<1>1. \A l : Goto(w, l) =>
        pc'[w] = l /\ \A v \in Workers \ {w} : pc'[v] = pc[v]
  BY <1>0, GotoMoves
<1>2. /\ \A l : ret' = [ret EXCEPT ![w] = l] =>
           ret'[w] = l /\ \A v \in Workers \ {w} : ret'[v] = ret[v]
      /\ \A l : CompleteTo(w, l) =>
           /\ done[w] = NoService /\ Goto(w, l)
           /\ \A v \in Workers \ {w} : done'[v] = done[v]
  BY <1>0 DEF Threads, CompleteTo
<1> USE DEF At, notPc, restVars, slotVars, frameVars
<1>3. ASSUME Others, index' = index, failed' = "none",
             pc'[w] \notin {"completeSelf", "dispatch", "assign", "wake",
                            "collect"}
      PROVE  FreeInv'
  <2>1. Mine
    BY <1>3 DEF PastOwn
  <2> QED
    BY <1>0, <1>3, <2>1, FreeAside
<1>4. CASE TakeAndComplete(w)
  <2>1. CASE StartWorker(w) \/ TakeJob(w) \/ FindNoJob(w) \/ CheckDead(w)
             \/ SetRunning(w)
    BY <1>1, <1>2, <1>3, <2>1
    DEF StartWorker, TakeJob, FindNoJob, CheckDead, SetRunning
  <2>2. CASE Complete(w) \/ CompleteBlocked(w)
    BY <1>1, <1>2, <1>3, <2>2 DEF Complete, CompleteBlocked
  <2>3. CASE CompleteOwned(w) \/ DispatchForSelf(w) \/ CompleteSelf(w)
    <3>1. /\ Others /\ index' = 1 /\ failed' = "none"
          /\ pc'[w] = "collect" /\ pc[w] \in Scheduling
      BY <1>1, <1>2, <2>3
      DEF CompleteOwned, DispatchForSelf, CompleteSelf, EnterDispatch,
          Scheduling
    <3>2. Mine
      BY <1>0, <3>1 DEF PastOwn
    <3>3. owner = w
      BY <1>0, <3>1 DEF OneScheduler
    <3> QED
      BY <1>0, <3>1, <3>2, <3>3, FreeAside
  <2>4. CASE CompleteSelfFails(w)
    BY <2>4 DEF CompleteSelfFails, FreeInv, OwnSlotFree, PastOwn
  <2> QED
    BY <1>4, <2>1, <2>2, <2>3, <2>4 DEF TakeAndComplete
<1>5. CASE ResumeService(w)
  <2>1. Others /\ index' = index /\ failed' = "none"
    BY <1>1, <1>5
    DEF ResumeService, Yield, Post, Quit, QuitRoot, RootNew, RootKill,
        RootInit, RootReap, Finish
  <2>2. pc'[w] \in {"complete", "wakeAll"}
    BY <1>1, <1>5
    DEF ResumeService, Yield, Post, Quit, QuitRoot, RootNew, RootKill,
        RootInit, RootReap, Finish
  <2> QED
    BY <1>3, <2>1, <2>2
<1>6. CASE ScheduleDispatchWorker(w)
  <2>1. CASE ScheduleDispatch(w)
    BY <1>0, <2>1, ScheduleDispatchFree
  <2>2. CASE Acquire(w)
    <3>1. /\ Others /\ index' = 1 /\ failed' = "none" /\ owner = NoService
          /\ pc'[w] \in {"completeOwned", "collect"}
      BY <1>1, <1>2, <2>2 DEF Acquire, LockFree, EnterDispatch
    <3>2. Mine
      BY <1>0, <3>1 DEF PastOwn
    <3> QED
      BY <1>0, <3>1, <3>2, FreeAside
  <2>3. CASE AcquireFails(w) \/ Steal(w) \/ StealNothing(w)
    BY <1>1, <1>2, <1>3, <2>3 DEF AcquireFails, Steal, StealNothing
  <2>4. CASE Release(w)
    <3>1. /\ Others /\ failed' = "none" /\ pc[w] = "release"
          /\ pc'[w] \in {"dec", "decAgain", "loop"}
      BY <1>1, <1>2, <2>4 DEF Release, LeaveDispatch, AfterPass
    <3>2. Mine /\ owner = w
      BY <1>0, <3>1 DEF PastOwn, OneScheduler, Scheduling
    <3> QED
      BY <1>0, <3>1, <3>2, FreeAside
  <2> QED
    BY <1>6, <2>1, <2>2, <2>3, <2>4 DEF ScheduleDispatchWorker
<1>7. CASE NoJob(w)
  BY <1>1, <1>2, <1>3, <1>7
  DEF NoJob, Deactivate, CheckLast, LookAgain, DeactivateAgain, CountDown,
      GoToSleep, SetSleeping, WaitEvent, ClearSleeping, Awake
<1>8. CASE QuitWorker(w)
  BY <1>1, <1>3, <1>8 DEF QuitWorker, WakeAll, SeeTerm, ExitWorker
<1> QED
  BY <1>4, <1>5, <1>6, <1>7, <1>8 DEF WorkerStep

(* and so does every step of an exclusive thread. *)
LEMMA ExclusiveFree ==
  ASSUME TypeInv, OneScheduler, FreeInv, NEW x \in Exclusives,
         ExclusiveStep(x)
  PROVE  FreeInv'
<1>0. x \in Threads /\ x \notin Workers /\ ret \in [Threads -> Call]
  BY SchedulerAssumption DEF Threads, TypeInv, TypeOK
<1>1. \A l : Goto(x, l) => \A w \in Workers \ {x} : pc'[w] = pc[w]
  BY <1>0, GotoMoves
<1>2. \A l : ret' = [ret EXCEPT ![x] = l] =>
        \A w \in Workers \ {x} : ret'[w] = ret[w]
  BY <1>0 DEF Threads
<1> DEFINE Others == \A w \in Workers \ {x} :
             pc'[w] = pc[w] /\ ret'[w] = ret[w] /\ done'[w] = done[w]
<1> USE DEF At, notPc, restVars, slotVars, frameVars
<1>3. CASE ScheduleDispatch(x)
  BY <1>0, <1>3, ScheduleDispatchFree
<1>4. ASSUME Others, failed' # "self complete",
             index' = index \/ pc[x] \in Scheduling
      PROVE  FreeInv'
  <2>1. owner = x \/ index' = index
    BY <1>0, <1>4 DEF OneScheduler
  <2> QED
    BY <1>0, <1>4, <2>1, FreeAside
<1>5. CASE ExclusiveResume(x)
  BY <1>1, <1>4, <1>5
  DEF ExclusiveResume, LoopExclusive, ExclusiveYield, ExclusiveSend,
      ExclusivePost, ExclusiveQuit, ExitExclusive
<1>6. CASE TakeOut(x) \/ Spin(x)
  BY <1>1, <1>4, <1>6 DEF TakeOut, Spin
<1>7. CASE DispatchOut(x) \/ Send(x) \/ SendEnd(x)
  <2>1. pc[x] \in Scheduling /\ Others
    BY <1>1, <1>2, <1>7 DEF DispatchOut, Send, SendEnd, Scheduling
  <2>2. failed' # "self complete"
    BY <1>7, KernelFails DEF DispatchOut, Send, SendEnd
  <2> QED
    BY <1>4, <2>1, <2>2
<1>8. CASE CountSleepers(x) \/ WakeSome(x) \/ WakeEnd(x)
           \/ ReleaseExclusive(x)
  <2>1. pc[x] \in Scheduling /\ Others /\ failed' # "self complete"
    BY <1>1, <1>2, <1>8
    DEF CountSleepers, WakeSome, WakeEnd, ReleaseExclusive, LeaveDispatch,
        Scheduling
  <2> QED
    BY <1>4, <2>1
<1> QED
  BY <1>3, <1>5, <1>6, <1>7, <1>8 DEF ExclusiveStep, ExclusiveMessage

(* The assert after a worker's pass for itself does not fail, where a CAS
   fails only when it has found another value. *)
THEOREM SlotFreed == ~SpuriousCAS => (Spec => []PassFreesSlot)
<1> SUFFICES ASSUME ~SpuriousCAS PROVE Spec => []PassFreesSlot
  OBVIOUS
<1>1. Init => FreeInv
  BY DEF Init, FreeInv, OwnSlotFree, PastOwn, PassFreesSlot
<1>2. ControlInv /\ FreeInv /\ [Next]_vars => FreeInv'
  <2> SUFFICES ASSUME ControlInv, FreeInv, [Next]_vars PROVE FreeInv'
    OBVIOUS
  <2>1. TypeInv /\ OneScheduler /\ Control
    BY DEF ControlInv, SchedulerInv
  <2>2. CASE UNCHANGED vars
    BY <2>2
    DEF vars, notPc, restVars, slotVars, frameVars, FreeInv, OwnSlotFree,
        PastOwn, PassFreesSlot
  <2> QED
    BY <2>1, <2>2, WorkerFree, ExclusiveFree DEF Next
<1>3. FreeInv => PassFreesSlot
  BY DEF FreeInv
<1> QED
  BY <1>1, <1>2, <1>3, ControlInvariant, PTL DEF Spec

(***************************************************************************)
(* The order of the messages of an exclusive service.  Its messages are    *)
(* numbered, every other message has the number 0.                         *)
(***************************************************************************)
Unnumbered(m) == m = NoMsg \/ m.session = 0

(* A queue q that is in order itself, and has nothing that was sent after
   what is left in the sending queues S; n numbers were given out. *)
QueueInOrder(q, S, n) ==
  /\ \A i \in DOMAIN q : q[i].session <= n
  /\ \A i, j \in DOMAIN q : Before(q[i], q[j]) => i < j
  /\ \A x \in Exclusives : \A i \in DOMAIN S[x], j \in DOMAIN q :
       ~Before(S[x][i], q[j])

(* The queues of the pool P, whose outbound slots have other messages only *)
PoolInOrder(P, S, n) ==
  \A s \in Services : /\ Unnumbered(P[s].out) /\ Unnumbered(P[s].bounce)
                      /\ QueueInOrder(P[s].msg, S, n)

(* dispatch_exclusive_sending still has to look at Left(x) messages of x;
   those behind them went back. *)
Left(x) == IF pc[x] = "send" THEN index - 1 ELSE Len(sending[x])

(* A sending queue of which l are left, each part in order and what went back
   sent before what is left. *)
InTurn(q, l) ==
  \A i, j \in DOMAIN q : i < j =>
    IF i <= l /\ l < j THEN q[j].session < q[i].session
                       ELSE q[i].session < q[j].session

(* What is in the sending queue of x *)
Numbered(x) ==
  \A i \in DOMAIN sending[x] :
    sending[x][i].from = x /\ sending[x][i].session \in 1..posts
(* and why it went back *)
BackBlocked(x) ==
  \A i \in DOMAIN sending[x] :
    pc[x] = "send" /\ i > Left(x) => IsBlocked(sending[x][i].to)
InOrderAt(x) == Numbered(x) /\ InTurn(sending[x], Left(x)) /\ BackBlocked(x)
SendingInOrder == \A x \in Exclusives : InOrderAt(x)

(* The inductive invariant *)
OrderInv ==
  /\ PoolInOrder(pool, sending, posts)
  /\ SendingInOrder
  /\ \A x \in Exclusives : Unnumbered(pending[x])

(***************************************************************************)
(* Queues.                                                                 *)
(***************************************************************************)
(* An empty queue is in order; *)
LEMMA EmptyInOrder == \A S, n : QueueInOrder(<<>>, S, n)
BY DEF QueueInOrder

(* a queue stays in order when a message is popped from it, *)
LEMMA TailInOrder ==
  ASSUME NEW q \in Seq(Message), q # <<>>, NEW S, NEW n \in Nat,
         QueueInOrder(q, S, n)
  PROVE  QueueInOrder(Tail(q), S, n)
<1>1. \A i \in DOMAIN Tail(q) : i + 1 \in DOMAIN q /\ Tail(q)[i] = q[i + 1]
  OBVIOUS
<1>2. DOMAIN Tail(q) \subseteq Nat
  OBVIOUS
<1>3. ASSUME NEW i \in DOMAIN Tail(q), NEW j \in DOMAIN Tail(q),
             Before(Tail(q)[i], Tail(q)[j])
      PROVE  i < j
  <2>1. Before(q[i + 1], q[j + 1])
    BY <1>1, <1>3
  <2>2. i + 1 < j + 1
    BY <1>1, <2>1 DEF QueueInOrder
  <2> QED
    BY <1>2, <2>2
<1> QED
  BY <1>1, <1>3 DEF QueueInOrder

(* and when one is pushed that was sent before none of its messages and
   after none of those that are left. *)
LEMMA AppendInOrder ==
  ASSUME NEW q \in Seq(Message), NEW S, NEW n \in Nat, NEW m \in Message,
         QueueInOrder(q, S, n), m.session <= n,
         \A i \in DOMAIN q : ~Before(m, q[i]),
         \A x \in Exclusives : \A i \in DOMAIN S[x] : ~Before(S[x][i], m)
  PROVE  QueueInOrder(Append(q, m), S, n)
<1> DEFINE r == Append(q, m)
<1>1. /\ DOMAIN r = 1..(Len(q) + 1) /\ DOMAIN q = 1..Len(q)
      /\ Len(q) \in Nat /\ r[Len(q) + 1] = m
      /\ \A i \in DOMAIN q : r[i] = q[i]
  OBVIOUS
<1>2. \A i \in DOMAIN r : i \in DOMAIN q \/ i = Len(q) + 1
  BY <1>1
<1>3. ~Before(m, m)
  BY DEF Before, Message
<1> HIDE DEF r
<1>4. ASSUME NEW i \in DOMAIN r, NEW j \in DOMAIN r, Before(r[i], r[j])
      PROVE  i < j
  <2>1. CASE i \in DOMAIN q /\ j \in DOMAIN q
    BY <1>1, <1>4, <2>1 DEF QueueInOrder
  <2>2. CASE i \in DOMAIN q /\ j = Len(q) + 1
    BY <1>1, <2>2
  <2>3. CASE i = Len(q) + 1
    BY <1>1, <1>2, <1>3, <1>4, <2>3
  <2> QED
    BY <1>2, <2>1, <2>2, <2>3
<1>5. \A i \in DOMAIN r : r[i].session <= n
  BY <1>1, <1>2 DEF QueueInOrder
<1>6. \A x \in Exclusives : \A i \in DOMAIN S[x], j \in DOMAIN r :
        ~Before(S[x][i], r[j])
  BY <1>1, <1>2 DEF QueueInOrder
<1> QED
  BY <1>4, <1>5, <1>6 DEF QueueInOrder, r

(* A message without a number is before none and behind none. *)
LEMMA UnnumberedInOrder ==
  ASSUME NEW q \in Seq(Message), NEW S, NEW n \in Nat, NEW m \in Message,
         QueueInOrder(q, S, n), m.session = 0
  PROVE  QueueInOrder(Append(q, m), S, n)
<1>1. \A p : ~Before(p, m) /\ ~Before(m, p)
  BY DEF Before
<1> QED
  BY <1>1, AppendInOrder

(***************************************************************************)
(* The pool.                                                               *)
(***************************************************************************)
(* A well-typed pool that is in order now *)
OrderedPool(P) == PoolOK(P) /\ PoolInOrder(P, sending, posts)

(* A change of one record *)
LEMMA PutInOrder ==
  ASSUME NEW P, NEW Q, NEW s, OrderedPool(P), PoolOK(Q),
         \A t \in Services : t # s => Q[t] = P[t],
         s \in Services =>
           /\ Unnumbered(Q[s].out) /\ Unnumbered(Q[s].bounce)
           /\ QueueInOrder(Q[s].msg, sending, posts)
  PROVE  OrderedPool(Q)
BY DEF OrderedPool, PoolInOrder

(* service_status_set touches no message, and what the other operations do to
   one, one after the other: *)
LEMMA StatusOrdered ==
  ASSUME NEW P, OrderedPool(P), NEW s, NEW st \in Status
  PROVE  /\ OrderedPool([P EXCEPT ![s].status = st])
         /\ OrderedPool(ServiceStatusSet(P, s, st))
<1> DEFINE Q == [P EXCEPT ![s].status = st]
<1>1. PoolOK(Q)
  BY PutStatusOK DEF OrderedPool
<1>2. \A t \in Services :
        /\ t # s => Q[t] = P[t]
        /\ Q[t].out = P[t].out /\ Q[t].bounce = P[t].bounce
        /\ Q[t].msg = P[t].msg
  BY DEF OrderedPool, PoolOK, Service
<1>3. OrderedPool(Q)
  BY <1>1, <1>2 DEF OrderedPool, PoolInOrder
<1> QED
  BY <1>3 DEF ServiceStatusSet

(* service_push_message of a message the queue is still in order with, *)
LEMMA PushMessageOrdered ==
  ASSUME NEW P, OrderedPool(P), NEW s, NEW m \in Message, posts \in Nat,
         s \in Services /\ PushResult(P, s) = "done" =>
           QueueInOrder(Append(P[s].msg, m), sending, posts)
  PROVE  OrderedPool(ServicePushMessage(P, s, m))
<1> DEFINE Q == [P EXCEPT ![s].msg = Append(@, m)]
<1>1. CASE PushResult(P, s) = "done"
  <2>1. PoolOK(Q)
    BY <1>1, PushMessageOK DEF OrderedPool, ServicePushMessage
  <2>2. /\ \A t \in Services : t # s => Q[t] = P[t]
        /\ s \in Services =>
             /\ Q[s].out = P[s].out /\ Q[s].bounce = P[s].bounce
             /\ Q[s].msg = Append(P[s].msg, m)
    BY DEF OrderedPool, PoolOK, Service
  <2> HIDE DEF Q
  <2>3. OrderedPool(Q)
    BY <1>1, <2>1, <2>2, PutInOrder DEF OrderedPool, PoolInOrder
  <2> QED
    BY <1>1, <2>3 DEF ServicePushMessage, Q
<1>2. CASE PushResult(P, s) # "done"
  BY <1>2 DEF ServicePushMessage
<1> QED
  BY <1>1, <1>2

(* of one without a number; *)
LEMMA PushUnnumbered ==
  ASSUME NEW P, OrderedPool(P), NEW s, NEW m \in Message, posts \in Nat,
         m.session = 0
  PROVE  OrderedPool(ServicePushMessage(P, s, m))
<1>1. s \in Services =>
        P[s].msg \in Seq(Message) /\ QueueInOrder(P[s].msg, sending, posts)
  BY DEF OrderedPool, PoolInOrder, PoolOK, Service
<1>2. s \in Services => QueueInOrder(Append(P[s].msg, m), sending, posts)
  BY <1>1, UnnumberedInOrder
<1> QED
  BY <1>2, PushMessageOrdered

(* service_pop_message; *)
LEMMA PopMessageOrdered ==
  ASSUME NEW P, OrderedPool(P), NEW s, posts \in Nat,
         s \in Services => P[s].receipt # "response"
  PROVE  OrderedPool(ServicePopMessage(P, s))
<1> DEFINE B == [P EXCEPT ![s].bounce = NoMsg]
           T == [P EXCEPT ![s].msg = Tail(@)]
<1>0. PoolOK(ServicePopMessage(P, s))
  BY PopMessageOK DEF OrderedPool
<1>1. CASE P[s].bounce # NoMsg
  <2>1. ServicePopMessage(P, s) = B
    BY <1>1 DEF ServicePopMessage
  <2>2. /\ \A t \in Services : t # s => B[t] = P[t]
        /\ s \in Services =>
             /\ B[s].out = P[s].out /\ B[s].bounce = NoMsg
             /\ B[s].msg = P[s].msg
    BY DEF OrderedPool, PoolOK, Service
  <2> HIDE DEF B
  <2>3. OrderedPool(B)
    BY <1>0, <2>1, <2>2, PutInOrder
    DEF OrderedPool, PoolInOrder, Unnumbered
  <2> QED
    BY <2>1, <2>3
<1>2. CASE P[s].bounce = NoMsg /\ P[s].msg # <<>>
  <2>1. ServicePopMessage(P, s) = T
    BY <1>2 DEF ServicePopMessage
  <2>2. /\ \A t \in Services : t # s => T[t] = P[t]
        /\ s \in Services =>
             /\ T[s].out = P[s].out /\ T[s].bounce = P[s].bounce
             /\ T[s].msg = Tail(P[s].msg)
    BY DEF OrderedPool, PoolOK, Service
  <2>3. s \in Services =>
          P[s].msg \in Seq(Message) /\ QueueInOrder(P[s].msg, sending, posts)
    BY DEF OrderedPool, PoolInOrder, PoolOK, Service
  <2>4. s \in Services => QueueInOrder(Tail(P[s].msg), sending, posts)
    BY <1>2, <2>3, TailInOrder
  <2> HIDE DEF T
  <2>5. OrderedPool(T)
    BY <1>0, <2>1, <2>2, <2>4, PutInOrder DEF OrderedPool, PoolInOrder
  <2> QED
    BY <2>1, <2>5
<1>3. CASE P[s].bounce = NoMsg /\ P[s].msg = <<>>
  BY <1>3 DEF ServicePopMessage
<1> QED
  BY <1>1, <1>2, <1>3

(* the outbound slot is filled with another message, *)
LEMMA OutOrdered ==
  ASSUME NEW P, OrderedPool(P), NEW s, NEW m, Unnumbered(m),
         PoolOK([P EXCEPT ![s].out = m])
  PROVE  OrderedPool([P EXCEPT ![s].out = m])
<1> DEFINE Q == [P EXCEPT ![s].out = m]
<1>1. /\ \A t \in Services : t # s => Q[t] = P[t]
      /\ s \in Services => /\ Q[s].out = m /\ Q[s].bounce = P[s].bounce
                           /\ Q[s].msg = P[s].msg
  BY DEF OrderedPool, PoolOK, Service
<1> HIDE DEF Q
<1>2. OrderedPool(Q)
  BY <1>1, PutInOrder DEF OrderedPool, PoolInOrder, Q
<1> QED
  BY <1>2 DEF Q

(* emptied by service_message_out, *)
LEMMA MessageOutOrdered ==
  ASSUME NEW P, OrderedPool(P), NEW s
  PROVE  OrderedPool(ServiceMessageOut(P, s))
<1>1. PoolOK(ServiceMessageOut(P, s))
  BY MessageOutOK DEF OrderedPool
<1> QED
  BY <1>1, OutOrdered DEF ServiceMessageOut, Unnumbered

(* filled by service_send_message *)
LEMMA SendMessageOrdered ==
  ASSUME NEW P, OrderedPool(P), NEW s, NEW m \in Message, m.session = 0
  PROVE  OrderedPool(ServiceSendMessage(P, s, m))
<1>1. PoolOK(ServiceSendMessage(P, s, m))
  BY SendMessageOK DEF OrderedPool
<1> QED
  BY <1>1, OutOrdered DEF ServiceSendMessage, Unnumbered

(* and by service_send_signal; *)
LEMMA SendSignalOrdered ==
  ASSUME NEW P, OrderedPool(P), NEW s
  PROVE  OrderedPool(ServiceSendSignal(P, s))
<1>1. PoolOK(ServiceSendSignal(P, s))
  BY SendSignalOK DEF OrderedPool
<1>2. Unnumbered(Signal(s))
  BY DEF Unnumbered, Signal
<1> QED
  BY <1>1, <1>2, OutOrdered DEF ServiceSendSignal

(* a receipt with another message, *)
LEMMA SetReceiptOrdered ==
  ASSUME NEW P, OrderedPool(P), NEW s, NEW r \in Receipt,
         NEW m \in Message \cup {NoMsg}, Unnumbered(m),
         r = "response" => m \in Message /\ m.to \in Services
  PROVE  OrderedPool([P EXCEPT ![s].receipt = r, ![s].bounce = m])
<1> DEFINE Q == [P EXCEPT ![s].receipt = r, ![s].bounce = m]
<1>1. PoolOK(Q)
  BY SetReceiptOK DEF OrderedPool
<1>2. /\ \A t \in Services : t # s => Q[t] = P[t]
      /\ s \in Services => /\ Q[s].out = P[s].out /\ Q[s].bounce = m
                           /\ Q[s].msg = P[s].msg
  BY SMTT(30) DEF OrderedPool, PoolOK, Service
<1> HIDE DEF Q
<1>3. OrderedPool(Q)
  BY <1>1, <1>2, PutInOrder DEF OrderedPool, PoolInOrder
<1> QED
  BY <1>3 DEF Q

(* read by service_read_receipt *)
LEMMA ReadReceiptOrdered ==
  ASSUME NEW P, OrderedPool(P), NEW s
  PROVE  OrderedPool(ServiceReadReceipt(P, s))
BY SetReceiptOrdered DEF ServiceReadReceipt, Receipt, Unnumbered

(* and written by service_write_receipt; *)
LEMMA WriteReceiptOrdered ==
  ASSUME NEW P, OrderedPool(P), NEW s, NEW r \in Receipt,
         NEW m \in Message \cup {NoMsg}, Unnumbered(m),
         r = "response" => m \in Message /\ m.to \in Services
  PROVE  OrderedPool(ServiceWriteReceipt(P, s, r, m))
BY SetReceiptOrdered DEF ServiceWriteReceipt

(* a service that is made, initialised or closed; *)
LEMMA NewInitDeleteOrdered ==
  ASSUME NEW P, OrderedPool(P), NEW s
  PROVE  /\ OrderedPool(ServiceNew(P, s))
         /\ OrderedPool(ServiceInit(P, s))
         /\ OrderedPool(ServiceDelete(P, s))
<1>1. ASSUME NEW st \in Status
      PROVE  OrderedPool([P EXCEPT ![s] = EmptyService(st)])
  <2> DEFINE Q == [P EXCEPT ![s] = EmptyService(st)]
  <2>1. PoolOK(Q)
    BY EmptyServiceOK DEF PoolOK, OrderedPool
  <2>2. /\ \A t \in Services : t # s => Q[t] = P[t]
        /\ s \in Services => /\ Q[s].out = NoMsg /\ Q[s].bounce = NoMsg
                             /\ Q[s].msg = <<>>
    BY DEF OrderedPool, PoolOK, EmptyService
  <2> HIDE DEF Q
  <2>3. s \in Services =>
          /\ Unnumbered(Q[s].out) /\ Unnumbered(Q[s].bounce)
          /\ QueueInOrder(Q[s].msg, sending, posts)
    BY <2>2, EmptyInOrder DEF Unnumbered
  <2>4. OrderedPool(Q)
    BY <2>1, <2>2, <2>3, PutInOrder
  <2> QED
    BY <2>4 DEF Q
<1>2. OrderedPool(ServiceNew(P, s)) /\ OrderedPool(ServiceDelete(P, s))
  BY <1>1 DEF ServiceNew, ServiceDelete, Absent, Status
<1>3. OrderedPool(ServiceInit(P, s))
  BY StatusOrdered DEF ServiceInit, Status
<1> QED
  BY <1>2, <1>3

(* and service_hang. *)
LEMMA HangOrdered ==
  ASSUME NEW P, OrderedPool(P), NEW s
  PROVE  OrderedPool(ServiceHang(P, s))
<1>1. OrderedPool([P EXCEPT ![s].status = "dead"])
  BY StatusOrdered DEF Status
<1> QED
  BY <1>1, SendSignalOrdered DEF ServiceHang

(***************************************************************************)
(* The kernel, and what the scheduling pass does with it.                  *)
(***************************************************************************)
OrderedKernel(k) == KernelOK(k) /\ OrderedPool(k.pool)

(* A kernel whose pool is replaced by one in order *)
LEMMA KernelWithPool ==
  ASSUME NEW k, OrderedKernel(k), NEW P, OrderedPool(P)
  PROVE  OrderedKernel([k EXCEPT !.pool = P])
<1>1. KernelOK([k EXCEPT !.pool = P])
  BY KernelSetPool DEF OrderedKernel, OrderedPool
<1>2. [k EXCEPT !.pool = P].pool = P
  BY DEF OrderedKernel, KernelOK
<1> QED
  BY <1>1, <1>2 DEF OrderedKernel

(* schedule_back leaves the messages alone, *)
LEMMA BackOrdered ==
  ASSUME NEW k, OrderedKernel(k), NEW s \in Services
  PROVE  OrderedKernel(ScheduleBack(k, s))
<1>1. ScheduleBack(k, s).pool = k.pool
  BY DEF OrderedKernel, KernelOK, ScheduleBack
<1> QED
  BY <1>1, ScheduleBackOK DEF OrderedKernel

(* and so does a change of status, *)
LEMMA SetStatusOrdered ==
  ASSUME NEW k, OrderedKernel(k), NEW s, NEW st \in Status
  PROVE  OrderedKernel([k EXCEPT !.pool = ServiceStatusSet(@, s, st)])
BY KernelWithPool, StatusOrdered DEF OrderedKernel

(* schedule_back of an idle service, *)
LEMMA ScheduleIfIdleOrdered ==
  ASSUME NEW k, OrderedKernel(k), NEW s \in Services
  PROVE  OrderedKernel(ScheduleIfIdle(k, s))
BY SetStatusOrdered, BackOrdered DEF ScheduleIfIdle, Status

(* and the end of its turn. *)
LEMMA ParkOrdered ==
  ASSUME NEW k, OrderedKernel(k), NEW s \in Services
  PROVE  OrderedKernel(Park(k, s))
<1>1. {"schedule", "idle"} \subseteq Status
  BY DEF Status
<1> QED
  BY <1>1, SetStatusOrdered, BackOrdered DEF Park

(* service_push_message under the lock, *)
LEMMA PushOrdered ==
  ASSUME NEW k, OrderedKernel(k), NEW m \in Message, posts \in Nat,
         m.session = 0
  PROVE  OrderedKernel(Push(k, m))
BY KernelWithPool, PushUnnumbered DEF OrderedKernel, Push

(* service_write_receipt, *)
LEMMA AnswerOrdered ==
  ASSUME NEW k, OrderedKernel(k), NEW id, NEW r \in Receipt,
         NEW m \in Message \cup {NoMsg}, Unnumbered(m),
         r = "response" => m \in Message /\ m.to \in Services
  PROVE  OrderedKernel(Answer(k, id, r, m))
BY KernelWithPool, WriteReceiptOrdered DEF OrderedKernel, Answer

(* the three outcomes of HANG, *)
LEMMA HangServiceOrdered ==
  ASSUME NEW k, OrderedKernel(k), NEW id, NEW m \in Message,
         m.sid \in Services, m.session = 0
  PROVE  OrderedKernel(HangService(k, id, m))
<1>1. OrderedKernel([k EXCEPT !.pool = ServiceHang(@, m.sid)])
  BY KernelWithPool, HangOrdered DEF OrderedKernel
<1>2. OrderedKernel(ScheduleBack(k, m.sid))
  BY BackOrdered
<1>3. /\ {"error", "done"} \subseteq Receipt
      /\ Unnumbered(m) /\ Unnumbered(NoMsg)
  BY DEF Receipt, Unnumbered
<1> QED
  BY <1>1, <1>2, <1>3, AnswerOrdered DEF HangService

(* dispatch_schedule_message, *)
LEMMA DispatchScheduleMessageOrdered ==
  ASSUME NEW k, OrderedKernel(k), NEW id, NEW m \in Message, m.session = 0,
         NEW n \in Services \cup {NoService}
  PROVE  OrderedKernel(DispatchScheduleMessage(k, id, m, n))
<1> DEFINE kNew == [k EXCEPT !.pool = ServiceNew(@, n), !.fresh = @ \ {n}]
           kDel == [k EXCEPT !.pool = ServiceDelete(@, m.sid)]
           mNew == [m EXCEPT !.to = n]
<1>0. /\ {"error", "done", "response"} \subseteq Receipt
      /\ Unnumbered(m) /\ Unnumbered(NoMsg)
  BY DEF Receipt, Unnumbered
<1>1. OrderedKernel(Answer(k, id, "error", m))
  BY <1>0, AnswerOrdered
<1>2. ASSUME n # NoService
      PROVE  OrderedKernel(Answer(kNew, id, "response", mNew))
  <2>1. OrderedPool(ServiceNew(k.pool, n))
    BY NewInitDeleteOrdered DEF OrderedKernel
  <2>2. kNew.pool = ServiceNew(k.pool, n)
    BY DEF OrderedKernel, KernelOK
  <2>3. KernelOK(kNew)
    BY <2>1, <2>2 DEF OrderedKernel, OrderedPool, KernelOK, PoolOK
  <2>4. OrderedKernel(kNew)
    BY <2>1, <2>2, <2>3 DEF OrderedKernel
  <2>5. mNew \in Message /\ mNew.to \in Services /\ Unnumbered(mNew)
    BY <1>2 DEF Message, Unnumbered
  <2> HIDE DEF kNew, mNew
  <2> QED
    BY <1>0, <2>4, <2>5, AnswerOrdered
<1>3. OrderedKernel(Answer(kDel, id, "done", NoMsg))
  <2>1. OrderedKernel(kDel)
    BY KernelWithPool, NewInitDeleteOrdered DEF OrderedKernel
  <2> HIDE DEF kDel
  <2> QED
    BY <1>0, <2>1, AnswerOrdered
<1>4. m.type = "hang" => OrderedKernel(HangService(k, id, m))
  BY HangServiceOrdered DEF Message
<1> QED
  BY <1>1, <1>2, <1>3, <1>4 DEF DispatchScheduleMessage

(* dispatch_out_message *)
LEMMA DispatchOutMessageOrdered ==
  ASSUME NEW k, OrderedKernel(k), NEW id, NEW m \in Message, m.session = 0,
         NEW n \in Services \cup {NoService}, posts \in Nat
  PROVE  OrderedKernel(DispatchOutMessage(k, id, m, n))
<1>1. CASE m.to = System
  BY <1>1, DispatchScheduleMessageOrdered DEF DispatchOutMessage
<1>2. CASE m.to # System
  <2> DEFINE r == PushResult(k.pool, m.to)
             b == IF r = "done" THEN NoMsg ELSE m
  <2>1. m.to \in Services
    BY <1>2 DEF Message
  <2>2. r \in Receipt /\ r # "response"
    BY PushResultType
  <2>3. b \in Message \cup {NoMsg} /\ Unnumbered(b)
    BY DEF Unnumbered
  <2>4. OrderedKernel(Push(k, m))
    BY PushOrdered
  <2>5. OrderedKernel(Answer(Push(k, m), id, r, b))
    <3> HIDE DEF r, b
    <3> QED
      BY <2>2, <2>3, <2>4, AnswerOrdered
  <2>6. OrderedKernel(ScheduleIfIdle(Answer(Push(k, m), id, r, b), m.to))
    BY <2>1, <2>5, ScheduleIfIdleOrdered
  <2> QED
    BY <1>2, <2>6 DEF DispatchOutMessage
<1> QED
  BY <1>1, <1>2

(* and the death signal keep the order. *)
LEMMA SignalRootOrdered ==
  ASSUME NEW k, OrderedKernel(k), NEW id \in Services, NEW m \in Message,
         m.session = 0, posts \in Nat
  PROVE  OrderedKernel(SignalRoot(k, id, m))
<1>1. OrderedKernel(ScheduleIfIdle(Push(k, m), Root))
  BY PushOrdered, ScheduleIfIdleOrdered, PoolAssumption
<1>2. OrderedKernel(ScheduleBack(k, id))
  BY BackOrdered
<1>3. OrderedKernel([k EXCEPT !.pool = ServiceDelete(@, id)])
  BY KernelWithPool, NewInitDeleteOrdered DEF OrderedKernel
<1> QED
  BY <1>1, <1>2, <1>3 DEF SignalRoot

(***************************************************************************)
(* The steps.                                                              *)
(***************************************************************************)
(* The kernel is in order, also without an outbound message. *)
LEMMA KernelOrdered ==
  ASSUME TypeInv, OrderInv
  PROVE  /\ OrderedPool(pool) /\ OrderedKernel(Kernel)
         /\ \A s : OrderedKernel([Kernel EXCEPT !.pool =
                                    ServiceMessageOut(pool, s)])
<1>1. OrderedPool(pool)
  BY DEF TypeInv, OrderInv, OrderedPool
<1>2. OrderedKernel(Kernel)
  BY <1>1, KernelIsOK DEF OrderedKernel, Kernel
<1> QED
  BY <1>1, <1>2, KernelWithPool, MessageOutOrdered

(* Messages that are left, of those that were there *)
Among(R, S) ==
  \A x \in Exclusives : \A i \in DOMAIN R[x] :
    \E j \in DOMAIN S[x] : R[x][i] = S[x][j]
LEMMA FewerInOrder ==
  ASSUME NEW q \in Seq(Message), NEW S, NEW R, NEW n \in Nat, NEW l \in Nat,
         QueueInOrder(q, S, n), n <= l, Among(R, S)
  PROVE  QueueInOrder(q, R, l)
<1>1. \A i \in DOMAIN q : q[i].session \in Nat
  BY DEF Message
<1> QED
  BY <1>1 DEF QueueInOrder, Among

(* What a step must show of the pool *)
LEMMA PoolStep ==
  ASSUME posts \in Nat, posts' \in Nat, posts <= posts', OrderedPool(pool'),
         Among(sending', sending)
  PROVE  PoolInOrder(pool', sending', posts')
<1> SUFFICES ASSUME NEW s \in Services
             PROVE  /\ Unnumbered(pool'[s].out) /\ Unnumbered(pool'[s].bounce)
                    /\ QueueInOrder(pool'[s].msg, sending', posts')
  BY DEF PoolInOrder
<1>1. /\ Unnumbered(pool'[s].out) /\ Unnumbered(pool'[s].bounce)
      /\ QueueInOrder(pool'[s].msg, sending, posts)
      /\ pool'[s].msg \in Seq(Message)
  BY DEF OrderedPool, PoolInOrder, PoolOK, Service
<1> QED
  BY <1>1, FewerInOrder

(* A step of t leaves the sending queues of the others alone: while one of
   them is being sent, its thread has the lock. *)
LEMMA SendingStep ==
  ASSUME TypeInv, OneScheduler, SendingInOrder, NEW t \in Threads,
         posts' \in Nat, posts <= posts',
         \A x \in Exclusives \ {t} :
           pc'[x] = pc[x] /\ sending'[x] = sending[x],
         owner \in {t, NoService} \/ UNCHANGED <<index, blocked>>,
         t \in Exclusives => InOrderAt(t)'
  PROVE  SendingInOrder'
<1> SUFFICES ASSUME NEW x \in Exclusives \ {t} PROVE InOrderAt(x)'
  BY DEF SendingInOrder
<1>0. posts \in Nat
  BY DEF TypeInv, TypeOK
<1>1. pc[x] = "send" => UNCHANGED <<index, blocked>>
  BY SchedulerAssumption DEF OneScheduler, Scheduling, Threads
<1>2. InOrderAt(x)
  BY DEF SendingInOrder
<1>3. pc'[x] = pc[x] /\ sending'[x] = sending[x]
  OBVIOUS
<1>4. Left(x)' = Left(x)
  BY <1>1, <1>3 DEF Left
<1>5. Numbered(x)'
  BY <1>0, <1>2, <1>3 DEF InOrderAt, Numbered
<1>6. InTurn(sending[x], Left(x))'
  BY <1>2, <1>3, <1>4 DEF InOrderAt, InTurn
<1>7. BackBlocked(x)'
  BY <1>1, <1>2, <1>3, <1>4 DEF InOrderAt, BackBlocked, IsBlocked
<1> QED
  BY <1>5, <1>6, <1>7 DEF InOrderAt

(* A step of a thread that sends nothing from its sending queue *)
LEMMA OrderStep ==
  ASSUME TypeInv, OneScheduler, OrderInv, NEW t \in Threads,
         OrderedPool(pool'), posts' \in Nat, posts <= posts',
         sending' = sending,
         \A x \in Exclusives :
           pending'[x] = pending[x] \/ Unnumbered(pending'[x]),
         \A x \in Exclusives \ {t} : pc'[x] = pc[x],
         t \in Exclusives => pc[t] # "send" /\ pc'[t] # "send",
         owner \in {t, NoService} \/ UNCHANGED <<index, blocked>>
  PROVE  OrderInv'
<1>0. posts \in Nat
  BY DEF TypeInv, TypeOK
<1>1. PoolInOrder(pool', sending', posts')
  BY <1>0, PoolStep DEF Among
<1>2. ASSUME t \in Exclusives PROVE InOrderAt(t)'
  <2>1. InOrderAt(t) /\ pc[t] # "send" /\ pc'[t] # "send"
    BY <1>2 DEF OrderInv, SendingInOrder
  <2>2. Left(t)' = Left(t)
    BY <2>1 DEF Left
  <2>3. Numbered(t)'
    BY <1>0, <2>1 DEF InOrderAt, Numbered
  <2>4. InTurn(sending[t], Left(t))' /\ BackBlocked(t)'
    BY <2>1, <2>2 DEF InOrderAt, InTurn, BackBlocked
  <2> QED
    BY <2>3, <2>4 DEF InOrderAt
<1>3. SendingInOrder'
  BY <1>2, SendingStep DEF OrderInv
<1>4. \A x \in Exclusives : Unnumbered(pending'[x])
  BY DEF OrderInv, Unnumbered
<1> QED
  BY <1>1, <1>3, <1>4 DEF OrderInv, Unnumbered

(***************************************************************************)
(* dispatch_exclusive_sending.                                             *)
(***************************************************************************)
(* The first message is removed, *)
LEMMA TailInTurn ==
  ASSUME NEW q \in Seq(Mail), q # <<>>, NEW l \in Nat, InTurn(q, l + 1)
  PROVE  InTurn(Tail(q), l)
<1>1. \A i \in DOMAIN Tail(q) :
        i \in Nat /\ i + 1 \in DOMAIN q /\ Tail(q)[i] = q[i + 1]
  OBVIOUS
<1> SUFFICES ASSUME NEW i \in DOMAIN Tail(q), NEW j \in DOMAIN Tail(q), i < j
             PROVE  IF i <= l /\ l < j
                    THEN Tail(q)[j].session < Tail(q)[i].session
                    ELSE Tail(q)[i].session < Tail(q)[j].session
  BY DEF InTurn
<1>2. IF i + 1 <= l + 1 /\ l + 1 < j + 1
      THEN q[j + 1].session < q[i + 1].session
      ELSE q[i + 1].session < q[j + 1].session
  <2>1. i + 1 < j + 1 /\ i + 1 \in DOMAIN q /\ j + 1 \in DOMAIN q
    BY <1>1
  <2> QED
    BY <2>1 DEF InTurn
<1> QED
  BY <1>1, <1>2

(* Where the messages are when the first one went back *)
LEMMA Rotated ==
  ASSUME NEW q \in Seq(Mail), q # <<>>
  PROVE  LET r == Append(Tail(q), Head(q))
         IN  /\ DOMAIN r = 1..Len(q) /\ Len(r) = Len(q) /\ Len(q) \in Nat \ {0}
             /\ r[Len(q)] = q[1]
             /\ \A i \in 1..(Len(q) - 1) : r[i] = q[i + 1]
OBVIOUS

(* and what it does to the order of the sending queue. *)
LEMMA RotatedInTurn ==
  ASSUME NEW q \in Seq(Mail), q # <<>>, NEW l \in Nat, l < Len(q),
         InTurn(q, l + 1)
  PROVE  InTurn(Append(Tail(q), Head(q)), l)
<1> DEFINE r == Append(Tail(q), Head(q))
           n == Len(q)
<1>1. /\ DOMAIN r = 1..n /\ n \in Nat \ {0} /\ r[n] = q[1]
      /\ \A i \in 1..(n - 1) : r[i] = q[i + 1]
  BY Rotated
<1>2. DOMAIN q = 1..n
  OBVIOUS
<1> SUFFICES ASSUME NEW i \in 1..n, NEW j \in 1..n, i < j
             PROVE  IF i <= l /\ l < j THEN r[j].session < r[i].session
                                       ELSE r[i].session < r[j].session
  BY <1>1 DEF InTurn
<1> HIDE DEF r
<1>3. i \in 1..(n - 1) /\ r[i] = q[i + 1] /\ i + 1 \in DOMAIN q
  BY <1>1, <1>2
<1>4. CASE j < n
  <2>1. j \in 1..(n - 1) /\ r[j] = q[j + 1] /\ j + 1 \in DOMAIN q
    BY <1>1, <1>2, <1>4
  <2>2. IF i + 1 <= l + 1 /\ l + 1 < j + 1
        THEN q[j + 1].session < q[i + 1].session
        ELSE q[i + 1].session < q[j + 1].session
    BY <1>3, <2>1 DEF InTurn
  <2> QED
    BY <1>3, <2>1, <2>2
<1>5. CASE j = n
  <2>1. r[j] = q[1] /\ 1 \in DOMAIN q /\ l < j
    BY <1>1, <1>2, <1>5
  <2>2. IF 1 <= l + 1 /\ l + 1 < i + 1
        THEN q[i + 1].session < q[1].session
        ELSE q[1].session < q[i + 1].session
    BY <1>3, <2>1 DEF InTurn
  <2> QED
    BY <1>3, <2>1, <2>2
<1> QED
  BY <1>1, <1>4, <1>5

(* The message in hand was sent before everything that is left, but for what
   went back: that goes to receivers that are blocked. *)
LEMMA HeadInOrder ==
  ASSUME TypeInv, OrderInv, SendInv, NEW x \in Exclusives, pc[x] = "send",
         index > 1, sending[x] # <<>>, ~IsBlocked(Head(sending[x]).to),
         NEW y \in Exclusives, NEW i \in DOMAIN sending[y]
  PROVE  ~Before(sending[y][i], Head(sending[x]))
<1> DEFINE q == sending[x]
<1>0. /\ q \in Seq(Mail) /\ index \in Nat
      /\ InOrderAt(x) /\ InOrderAt(y) /\ Left(x) = index - 1
  BY DEF TypeInv, TypeOK, OrderInv, SendingInOrder, Left
<1>1. 1 \in DOMAIN q /\ Head(q) = q[1]
  BY <1>0
<1>2. q[1].from = x /\ sending[y][i].from = y
  BY <1>0, <1>1 DEF InOrderAt, Numbered
<1> HIDE DEF q
<1>3. CASE y # x
  BY <1>1, <1>2, <1>3 DEF Before, q
<1>4. CASE y = x
  <2>1. /\ i \in DOMAIN q /\ i \in Nat /\ i >= 1
        /\ q[i].session \in Nat /\ q[1].session \in Nat
    BY <1>0, <1>1, <1>4 DEF q, Mail, Message
  <2>2. CASE i = 1
    BY <1>1, <1>4, <2>1, <2>2 DEF Before, q
  <2>3. CASE i # 1 /\ i <= index - 1
    <3>1. q[1].session < q[i].session
      BY <1>0, <1>1, <2>1, <2>3 DEF InOrderAt, InTurn, q
    <3> QED
      BY <1>1, <1>4, <2>1, <3>1 DEF Before, q
  <2>4. CASE i > index - 1
    <3>1. IsBlocked(q[i].to)
      BY <1>0, <1>4, <2>4 DEF InOrderAt, BackBlocked, q
    <3>2. q[i].to # q[1].to
      BY <1>1, <3>1 DEF q
    <3> QED
      BY <1>1, <1>4, <3>2 DEF Before, q
  <2> QED
    BY <1>0, <2>1, <2>2, <2>3, <2>4
<1> QED
  BY <1>3, <1>4

(* One message of the sending queue: it goes to its receiver, or back. *)
LEMMA SendOrder ==
  ASSUME TypeInv, OneScheduler, SendInv, OrderInv, NEW x \in Exclusives,
         Send(x)
  PROVE  OrderInv'
<1> DEFINE q == sending[x]
           m == Head(q)
           l == index - 2
           k == ScheduleIfIdle(Push(Kernel, m), m.to)
           Back == sending' = [sending EXCEPT ![x] = Append(Tail(q), m)]
           Off == sending' = [sending EXCEPT ![x] = Tail(q)]
           Kept == UNCHANGED <<pool, blocked>>
           NowBlocked(d) == blocked'.n > SendingBlocked \/ d \in blocked'.id
<1>0. /\ sending \in [Exclusives -> Seq(Mail)] /\ index \in Nat
      /\ posts \in Nat /\ blocked \in [n : Nat, id : SUBSET Services]
      /\ x \in Threads
  BY DEF TypeInv, TypeOK, Threads
<1>1. /\ pc[x] = "send" /\ index > 1 /\ index' = index - 1
      /\ UNCHANGED <<posts, pending, pc>>
  BY DEF Send, At
<1>2. \/ IsBlocked(m.to) /\ Back /\ Kept
      \/ /\ ~IsBlocked(m.to) /\ PushResult(pool, m.to) = "done"
         /\ SetKernel(k) /\ Off /\ blocked' = blocked
      \/ ~IsBlocked(m.to) /\ Back /\ blocked' = MarkBlocked(m.to)
           /\ pool' = pool
      \/ Off /\ Kept
  BY DEF Send
<1>3. /\ q \in Seq(Mail) /\ q # <<>> /\ l \in Nat /\ l < Len(q)
      /\ Left(x) = l + 1
  BY <1>0, <1>1 DEF SendInv, Left
<1>4. /\ m \in Mail /\ m = q[1] /\ 1 \in DOMAIN q
      /\ m \in Message /\ m.to \in Services
  BY <1>3 DEF Mail
<1>5. InOrderAt(x)
  BY DEF OrderInv, SendingInOrder
<1> HIDE DEF q, m, l, k
<1>6. Left(x)' = l
  BY <1>0, <1>1 DEF Left, l
<1>7. OrderedPool(pool')
  <2>1. OrderedPool(pool) /\ OrderedKernel(Kernel)
    BY KernelOrdered
  <2>2. ASSUME ~IsBlocked(m.to), PushResult(pool, m.to) = "done", SetKernel(k)
        PROVE  OrderedPool(pool')
    <3>1. QueueInOrder(pool[m.to].msg, sending, posts)
          /\ pool[m.to].msg \in Seq(Message)
      BY <1>4, <2>1 DEF OrderedPool, PoolInOrder, PoolOK, Service
    <3>2. m.session <= posts
      BY <1>0, <1>4, <1>5 DEF InOrderAt, Numbered, q
    <3>3. \A i \in DOMAIN pool[m.to].msg : ~Before(m, pool[m.to].msg[i])
      BY <1>4, <3>1 DEF QueueInOrder, q
    <3>4. \A y \in Exclusives : \A i \in DOMAIN sending[y] :
            ~Before(sending[y][i], m)
      BY <1>1, <1>3, <2>2, HeadInOrder DEF m, q
    <3>5. QueueInOrder(Append(pool[m.to].msg, m), sending, posts)
      BY <1>0, <1>4, <3>1, <3>2, <3>3, <3>4, AppendInOrder
    <3>6. OrderedPool(ServicePushMessage(pool, m.to, m))
      BY <1>0, <1>4, <2>1, <3>5, PushMessageOrdered
    <3>7. OrderedKernel(Push(Kernel, m))
      BY <2>1, <3>6, KernelWithPool DEF Push, Kernel
    <3>8. OrderedKernel(k)
      BY <1>4, <3>7, ScheduleIfIdleOrdered DEF k
    <3> QED
      BY <2>2, <3>8 DEF OrderedKernel, SetKernel
  <2> QED
    BY <1>2, <2>1, <2>2
<1>8. Off \/ Back
  BY <1>2
<1>9. /\ \A y \in Exclusives \ {x} : sending'[y] = sending[y]
      /\ Off => sending'[x] = Tail(q)
      /\ Back => sending'[x] = Append(Tail(q), m)
  BY <1>0, <1>8
<1>10. /\ \A i \in DOMAIN Tail(q) :
            i \in 1..(Len(q) - 1) /\ Tail(q)[i] = q[i + 1]
       /\ DOMAIN q = 1..Len(q) /\ Len(q) \in Nat \ {0}
  BY <1>3
<1>11. LET r == Append(Tail(q), m)
       IN  /\ DOMAIN r = 1..Len(q) /\ r[Len(q)] = m
           /\ \A i \in 1..(Len(q) - 1) : r[i] = q[i + 1]
  BY <1>3, <1>4, Rotated DEF m
<1>12. \A i \in DOMAIN sending'[x] : \E j \in DOMAIN q : sending'[x][i] = q[j]
  <2>1. CASE Off
    <3>1. \A i \in 1..(Len(q) - 1) : i + 1 \in DOMAIN q
      BY <1>10
    <3> QED
      BY <1>9, <1>10, <2>1, <3>1
  <2>2. CASE Back
    <3>1. \A i \in 1..Len(q) : i \in 1..(Len(q) - 1) \/ i = Len(q)
      BY <1>10
    <3>2. \A i \in 1..(Len(q) - 1) : i + 1 \in DOMAIN q
      BY <1>10
    <3> QED
      BY <1>4, <1>9, <1>11, <2>2, <3>1, <3>2
  <2> QED
    BY <1>8, <2>1, <2>2
<1>13. Among(sending', sending)
  BY <1>9, <1>12 DEF Among, q
<1>14. PoolInOrder(pool', sending', posts')
  BY <1>0, <1>1, <1>7, <1>13, PoolStep
<1>15. Numbered(x)'
  BY <1>1, <1>5, <1>12 DEF InOrderAt, Numbered, q
<1>16. InTurn(sending[x], Left(x))'
  <2>1. InTurn(q, l + 1)
    BY <1>3, <1>5 DEF InOrderAt, q
  <2>2. InTurn(Tail(q), l) /\ InTurn(Append(Tail(q), m), l)
    BY <1>3, <2>1, TailInTurn, RotatedInTurn DEF m
  <2>3. InTurn(sending'[x], l)
    BY <1>8, <1>9, <2>2
  <2> QED
    BY <1>6, <2>3
<1>17. BackBlocked(x)'
  <2>1. \A d : IsBlocked(d) => NowBlocked(d)
    BY <1>0, <1>2, SchedulerAssumption DEF IsBlocked, MarkBlocked
  <2>2. \A i \in 2..Len(q) : i > l + 1 => IsBlocked(q[i].to)
    BY <1>1, <1>3, <1>5, <1>10 DEF InOrderAt, BackBlocked, q
  <2>3. Back => NowBlocked(m.to)
    <3>1. CASE IsBlocked(m.to)
      BY <2>1, <3>1
    <3>2. CASE ~IsBlocked(m.to) /\ blocked' = MarkBlocked(m.to)
      BY <1>0, <3>2, SchedulerAssumption DEF IsBlocked, MarkBlocked
    <3>3. CASE Off
      <4>1. ASSUME Back PROVE FALSE
        <5>1. Len(Tail(q)) = Len(q) - 1 /\ Len(Append(Tail(q), m)) = Len(q)
          BY <1>3, <1>4, Rotated DEF m
        <5>2. Tail(q) = Append(Tail(q), m)
          BY <1>9, <3>3, <4>1
        <5>3. Len(q) \in Nat
          BY <1>3
        <5> QED
          BY <5>1, <5>2, <5>3
      <4> QED
        BY <4>1
    <3> QED
      BY <1>2, <3>1, <3>2, <3>3
  <2>4. ASSUME NEW i \in DOMAIN sending'[x], i > l
        PROVE  NowBlocked(sending'[x][i].to)
    <3>1. ASSUME i \in 1..(Len(q) - 1), sending'[x][i] = q[i + 1]
          PROVE  NowBlocked(sending'[x][i].to)
      <4>1. i + 1 \in 2..Len(q) /\ i + 1 > l + 1
        BY <1>3, <1>10, <2>4, <3>1
      <4>2. IsBlocked(q[i + 1].to)
        BY <2>2, <4>1
      <4> QED
        BY <2>1, <3>1, <4>2
    <3>2. CASE Off
      BY <1>9, <1>10, <3>1, <3>2
    <3>3. CASE Back
      <4>0. DOMAIN sending'[x] = 1..Len(q)
        BY <1>9, <1>11, <3>3
      <4>1. i \in 1..(Len(q) - 1) \/ i = Len(q)
        BY <1>10, <4>0
      <4> QED
        BY <1>9, <1>11, <2>3, <3>1, <3>3, <4>1
    <3> QED
      BY <1>8, <3>2, <3>3
  <2> QED
    BY <1>6, <2>4 DEF BackBlocked, IsBlocked
<1>18. InOrderAt(x)'
  BY <1>15, <1>16, <1>17 DEF InOrderAt
<1>19. owner = x
  BY <1>0, <1>1 DEF OneScheduler, Scheduling
<1>20. SendingInOrder'
  BY <1>0, <1>1, <1>9, <1>18, <1>19, SendingStep DEF OrderInv
<1> QED
  BY <1>1, <1>14, <1>20 DEF OrderInv, Unnumbered

(***************************************************************************)
(* The other steps.                                                        *)
(***************************************************************************)
(* What they are about *)
LEMMA OrderTypes ==
  ASSUME TypeInv
  PROVE  /\ posts \in Nat
         /\ sending \in [Exclusives -> Seq(Mail)]
         /\ pending \in [Exclusives -> Message \cup {NoMsg}]
BY DEF TypeInv, TypeOK

(* A thread goes elsewhere, the exclusive threads stay where they are. *)
LEMMA GotoAside ==
  ASSUME TypeInv, NEW t \in Threads, NEW l
  PROVE  Goto(t, l) =>
           pc'[t] = l /\ \A x \in Exclusives \ {t} : pc'[x] = pc[x]
BY DEF TypeInv, TypeOK, Goto, Threads

(* What a VM reads when it is resumed, *)
LEMMA ConsumedOrdered ==
  ASSUME TypeInv, OrderInv, NEW s
  PROVE  OrderedPool(Consumed(s))
<1>1. OrderedPool(pool) /\ posts \in Nat
  BY KernelOrdered, OrderTypes
<1> QED
  BY <1>1, ReadReceiptOrdered, PopMessageOrdered DEF Consumed

(* and what it posts to a service *)
LEMMA RequestOrdered ==
  ASSUME NEW P, OrderedPool(P), NEW s \in Services,
         NEW d \in Services \cup {System}
  PROVE  OrderedPool(ServiceSendMessage(P, s, Request(s, d, 0)))
<1>1. Request(s, d, 0) \in Message /\ Request(s, d, 0).session = 0
  BY RequestType DEF Request
<1> QED
  BY <1>1, SendMessageOrdered

(* and to SYSTEM *)
LEMMA CommandOrdered ==
  ASSUME NEW P, OrderedPool(P), NEW c, NEW s,
         Command(c, s) \in Message
  PROVE  OrderedPool(ServiceSendMessage(P, Root, Command(c, s)))
<1>1. Command(c, s).session = 0
  BY DEF Command
<1> QED
  BY <1>1, SendMessageOrdered

(* A service that yields leaves the order as its VM left it. *)
LEMMA FinishOrdered ==
  ASSUME NEW P, OrderedPool(P), NEW w, Finish(w, P)
  PROVE  OrderedPool(pool')
BY StatusOrdered DEF Finish, Status

(* Running a service *)
LEMMA ResumeServiceOrdered ==
  ASSUME TypeInv, OrderInv, NEW w \in Workers, ResumeService(w)
  PROVE  OrderedPool(pool')
<1>0. /\ OrderedPool(pool) /\ posts \in Nat
      /\ \A s : OrderedPool(Consumed(s))
  BY KernelOrdered, ConsumedOrdered, OrderTypes
<1> USE PoolAssumption, SchedulerAssumption
<1>1. CASE Yield(w)
  BY <1>0, <1>1, FinishOrdered DEF Yield
<1>2. CASE Post(w)
  <2>1. PICK d \in Addressees :
          Finish(w, ServiceSendMessage(Consumed(running[w]), running[w],
                                       Request(running[w], d, 0)))
    BY <1>2 DEF Post
  <2>2. running[w] \in Services /\ d \in Services \cup {System}
    BY <1>2 DEF Post
  <2>3. OrderedPool(ServiceSendMessage(Consumed(running[w]), running[w],
                                       Request(running[w], d, 0)))
    BY <1>0, <2>2, RequestOrdered
  <2> QED
    BY <2>1, <2>3, FinishOrdered
<1>3. CASE Quit(w)
  <2>1. OrderedPool(Death(Consumed(running[w]), running[w]))
    BY <1>0, StatusOrdered, SendSignalOrdered DEF Death, Status
  <2> QED
    BY <1>0, <1>3, <2>1 DEF Quit
<1>4. CASE QuitRoot(w)
  BY <1>0, <1>4, StatusOrdered DEF QuitRoot, Status
<1>5. CASE RootNew(w)
  <2>1. OrderedPool(ServiceSendMessage(Consumed(Root), Root,
                                       Command("new", NoService)))
    BY <1>0, CommandType, CommandOrdered
  <2> QED
    BY <1>5, <2>1, FinishOrdered DEF RootNew
<1>6. CASE RootKill(w)
  <2>1. PICK s \in Killable :
          Finish(w, ServiceSendMessage(Consumed(Root), Root,
                                       Command("hang", s)))
    BY <1>6 DEF RootKill
  <2>2. OrderedPool(ServiceSendMessage(Consumed(Root), Root,
                                       Command("hang", s)))
    BY <1>0, CommandType, CommandOrdered
  <2> QED
    BY <2>1, <2>2, FinishOrdered
<1>7. CASE RootInit(w)
  <2> DEFINE s == pool[Root].bounce.to
             P == ServiceReadReceipt(pool, Root)
             Q1 == ServiceSendMessage(ServiceInit(P, s), Root,
                                      Request(Root, s, 0))
             Q2 == ServiceSendMessage(ServiceDelete(P, s), Root,
                                      Command("hang", s))
  <2>1. s \in Services
    BY <1>7 DEF RootInit, MustInit, TypeInv, PoolOK
  <2>2. OrderedPool(P)
    BY <1>0, ReadReceiptOrdered
  <2> HIDE DEF s, P
  <2>3. OrderedPool(ServiceInit(P, s)) /\ OrderedPool(ServiceDelete(P, s))
    BY <2>2, NewInitDeleteOrdered
  <2>4. OrderedPool(Q1)
    BY <2>1, <2>3, RequestOrdered
  <2>5. OrderedPool(Q2)
    BY <2>1, <2>3, CommandType, CommandOrdered
  <2>6. Finish(w, Q1) \/ Finish(w, Q2)
    BY <1>7 DEF RootInit, s, P
  <2> HIDE DEF Q1, Q2
  <2> QED
    BY <2>4, <2>5, <2>6, FinishOrdered
<1>8. CASE RootReap(w)
  <2> DEFINE s == NextMessage(pool, Root).from
             P == ServicePopMessage(pool, Root)
             Q == ServiceSendMessage(ServiceDelete(P, s), Root,
                                     Command("del", s))
  <2>1. s \in Services
    BY <1>8, NextMessageOK DEF RootReap, MustReap, Message, TypeInv
  <2>2. OrderedPool(P)
    BY <1>0, <1>8, PopMessageOrdered DEF RootReap, MustReap
  <2>3. OrderedPool(Q)
    <3>1. OrderedPool(ServiceDelete(P, s))
      BY <2>2, NewInitDeleteOrdered
    <3> HIDE DEF P, s
    <3> QED
      BY <2>1, <3>1, CommandType, CommandOrdered
  <2>4. Finish(w, P) \/ Finish(w, Q)
    BY <1>8 DEF RootReap
  <2> HIDE DEF P, Q
  <2> QED
    BY <2>2, <2>3, <2>4, FinishOrdered
<1> QED
  BY <1>1, <1>2, <1>3, <1>4, <1>5, <1>6, <1>7, <1>8 DEF ResumeService

(* The scheduling pass *)
LEMMA ScheduleDispatchOrder ==
  ASSUME TypeInv, OneScheduler, OrderInv, NEW t \in Threads,
         ScheduleDispatch(t)
  PROVE  OrderInv'
<1>0. /\ OrderedPool(pool) /\ posts \in Nat
      /\ \A s : OrderedKernel([Kernel EXCEPT !.pool =
                                 ServiceMessageOut(pool, s)])
  BY KernelOrdered, OrderTypes
<1>1. pc[t] \in Scheduling \ {"send"} /\ owner = t
  BY DEF ScheduleDispatch, CollectDone, CollectEnd, DispatchJob,
         DispatchSignal, NoSignal, DispatchEnd, AssignJob, WakeAssigned,
         AssignEnd, At, Scheduling, OneScheduler
<1>2. ASSUME NEW l
      PROVE  Goto(t, l) =>
               pc'[t] = l /\ \A x \in Exclusives \ {t} : pc'[x] = pc[x]
  BY GotoAside
<1>3. ASSUME NEW k, OrderedKernel(k), SetKernel(k) PROVE OrderedPool(pool')
  BY <1>3 DEF OrderedKernel, SetKernel
<1> DEFINE Rest == /\ UNCHANGED <<posts, sending, pending>>
                   /\ \A x \in Exclusives \ {t} : pc'[x] = pc[x]
                   /\ t \in Exclusives => pc'[t] # "send"
<1>4. Rest /\ OrderedPool(pool') => OrderInv'
  BY <1>0, <1>1, OrderStep
<1> USE DEF At, notPc, restVars, slotVars, frameVars, poolVars, exclusiveVars
<1>5. CASE CollectDone(t) \/ CollectEnd(t) \/ NoSignal(t) \/ DispatchEnd(t)
  <2>1. Rest /\ pool' = pool
    BY <1>1, <1>2, <1>5 DEF CollectDone, CollectEnd, NoSignal, DispatchEnd
  <2> QED
    BY <1>0, <1>4, <2>1
<1>6. CASE AssignJob(t) \/ WakeAssigned(t) \/ AssignEnd(t)
  <2>1. Rest /\ pool' = pool
    BY <1>1, <1>2, <1>6 DEF AssignJob, WakeAssigned, AssignEnd
  <2> QED
    BY <1>0, <1>4, <2>1
<1>7. CASE DispatchJob(t)
  <2> DEFINE id == Head(doneJob)
             m  == pool[id].out
             k  == [Kernel EXCEPT !.pool = ServiceMessageOut(pool, id)]
  <2>1. id \in Services
    BY <1>7 DEF DispatchJob, TypeInv, TypeOK
  <2>2. m = NoMsg \/ (m \in Message /\ m.session = 0)
    BY <1>0, <2>1
    DEF OrderedPool, PoolOK, Service, PoolInOrder, Unnumbered
  <2>3. OrderedKernel(k)
    BY <1>0
  <2>4. PICK n \in NewIds(m) :
          SetKernel(Park(IF m = NoMsg THEN k
                         ELSE DispatchOutMessage(k, id, m, n), id))
    BY <1>7 DEF DispatchJob
  <2>5. n \in Services \cup {NoService}
    BY DEF NewIds, TypeInv, TypeOK
  <2> HIDE DEF id, m, k
  <2>6. OrderedKernel(IF m = NoMsg THEN k ELSE DispatchOutMessage(k, id, m, n))
    BY <1>0, <2>2, <2>3, <2>5, DispatchOutMessageOrdered
  <2>7. OrderedPool(pool')
    BY <1>3, <2>1, <2>4, <2>6, ParkOrdered
  <2>8. Rest
    BY <1>1, <1>7 DEF DispatchJob, DispatchVars
  <2> QED
    BY <1>4, <2>7, <2>8
<1>8. CASE DispatchSignal(t)
  <2> DEFINE id == Head(doneJob)
             k  == [Kernel EXCEPT !.pool = ServiceMessageOut(pool, id)]
  <2>1. id \in Services
    BY <1>8 DEF DispatchSignal, TypeInv, TypeOK
  <2>2. pool[id].out \in Message /\ pool[id].out.session = 0
    BY <1>0, <1>8, <2>1
    DEF DispatchSignal, IsSignal, OrderedPool, PoolOK, Service, PoolInOrder,
        Unnumbered
  <2>3. OrderedKernel(SignalRoot(k, id, pool[id].out))
    BY <1>0, <2>1, <2>2, SignalRootOrdered
  <2>4. OrderedPool(pool')
    BY <1>3, <1>8, <2>3 DEF DispatchSignal
  <2>5. Rest
    BY <1>1, <1>8 DEF DispatchSignal, DispatchVars
  <2> QED
    BY <1>4, <2>4, <2>5
<1> QED
  BY <1>5, <1>6, <1>7, <1>8 DEF ScheduleDispatch

(* Every step of a worker keeps the order, *)
LEMMA WorkerOrder ==
  ASSUME TypeInv, OneScheduler, OrderInv, NEW w \in Workers, WorkerStep(w)
  PROVE  OrderInv'
<1>0. /\ w \in Threads /\ w \notin Exclusives
      /\ OrderedPool(pool) /\ posts \in Nat
  BY SchedulerAssumption, KernelOrdered, OrderTypes DEF Threads
<1>1. ASSUME NEW l
      PROVE  Goto(w, l) => \A x \in Exclusives : pc'[x] = pc[x]
  BY <1>0, GotoAside
<1> DEFINE Rest == /\ UNCHANGED <<sending, pending>>
                   /\ posts' \in Nat /\ posts <= posts'
                   /\ \A x \in Exclusives : pc'[x] = pc[x]
           Own == owner \in {w, NoService} \/ UNCHANGED <<index, blocked>>
<1>2. Rest /\ Own /\ OrderedPool(pool') => OrderInv'
  BY <1>0, OrderStep
<1> USE DEF At, notPc, restVars, slotVars, frameVars, poolVars, exclusiveVars
<1>3. CASE TakeAndComplete(w)
  <2>1. CASE StartWorker(w) \/ TakeJob(w) \/ FindNoJob(w) \/ CheckDead(w)
             \/ Complete(w) \/ CompleteBlocked(w)
    <3>1. Rest /\ Own /\ pool' = pool
      BY <1>0, <1>1, <2>1
      DEF StartWorker, TakeJob, FindNoJob, CheckDead, Complete, CompleteTo,
          CompleteBlocked
    <3> QED
      BY <1>0, <1>2, <3>1
  <2>2. CASE CompleteOwned(w) \/ DispatchForSelf(w) \/ CompleteSelf(w)
             \/ CompleteSelfFails(w)
    <3>0. \A l : CompleteTo(w, l) => Goto(w, l)
      BY DEF CompleteTo
    <3>1. /\ UNCHANGED <<pool, posts, sending, pending>>
          /\ pc[w] \in Scheduling
          /\ pc' = pc \/ \E l : Goto(w, l)
      BY <2>2, <3>0
      DEF CompleteOwned, DispatchForSelf, CompleteSelf, CompleteSelfFails,
          Scheduling
    <3>2. owner = w
      BY <1>0, <3>1 DEF OneScheduler
    <3>3. Rest
      BY <1>0, <1>1, <3>1
    <3> QED
      BY <1>0, <1>2, <3>1, <3>2, <3>3
  <2>3. CASE SetRunning(w)
    <3>1. Rest /\ Own
      BY <1>0, <1>1, <2>3 DEF SetRunning
    <3>2. OrderedPool(pool')
      BY <1>0, <2>3, StatusOrdered DEF SetRunning, Status
    <3> QED
      BY <1>2, <3>1, <3>2
  <2> QED
    BY <1>3, <2>1, <2>2, <2>3 DEF TakeAndComplete
<1>4. CASE ResumeService(w)
  <2>1. Rest /\ Own
    BY <1>0, <1>1, <1>4
    DEF ResumeService, Yield, Post, Quit, QuitRoot, RootNew, RootKill,
        RootInit, RootReap, Finish
  <2> QED
    BY <1>2, <1>4, <2>1, ResumeServiceOrdered
<1>5. CASE ScheduleDispatchWorker(w)
  <2>1. CASE ScheduleDispatch(w)
    BY <1>0, <2>1, ScheduleDispatchOrder
  <2>2. CASE Acquire(w) \/ AcquireFails(w)
    <3>1. Rest /\ Own /\ pool' = pool
      BY <1>0, <1>1, <2>2 DEF Acquire, AcquireFails, LockFree
    <3> QED
      BY <1>0, <1>2, <3>1
  <2>3. CASE Steal(w) \/ StealNothing(w) \/ Release(w)
    <3>1. Rest /\ pc[w] \in Scheduling /\ pool' = pool
      BY <1>0, <1>1, <2>3 DEF Steal, StealNothing, Release, Scheduling
    <3>2. owner = w
      BY <1>0, <3>1 DEF OneScheduler
    <3> QED
      BY <1>0, <1>2, <3>1, <3>2
  <2> QED
    BY <1>5, <2>1, <2>2, <2>3 DEF ScheduleDispatchWorker
<1>6. CASE NoJob(w)
  <2>1. Rest /\ Own /\ pool' = pool
    BY <1>0, <1>1, <1>6
    DEF NoJob, Deactivate, CheckLast, LookAgain, DeactivateAgain, CountDown,
        GoToSleep, SetSleeping, WaitEvent, ClearSleeping, Awake
  <2> QED
    BY <1>0, <1>2, <2>1
<1>7. CASE QuitWorker(w)
  <2>1. Rest /\ Own /\ pool' = pool
    BY <1>0, <1>1, <1>7 DEF QuitWorker, WakeAll, SeeTerm, ExitWorker
  <2> QED
    BY <1>0, <1>2, <2>1
<1> QED
  BY <1>3, <1>4, <1>5, <1>6, <1>7 DEF WorkerStep

(* a message that enters a sending queue has the highest number so far, *)
LEMMA ExclusiveSendOrder ==
  ASSUME TypeInv, OneScheduler, OrderInv, NEW x \in Exclusives,
         ExclusiveSend(x)
  PROVE  OrderInv'
<1>0. /\ x \in Threads /\ posts \in Nat
      /\ sending \in [Exclusives -> Seq(Mail)]
  BY OrderTypes DEF Threads
<1>1. /\ pc[x] = "resume" /\ posts' = posts + 1
      /\ UNCHANGED <<pool, pending, pc, index, blocked>>
  BY DEF ExclusiveSend, At, frameVars
<1>2. PICK d \in Addressees \ {System} :
        sending' = [sending EXCEPT ![x] =
                      Append(sending[x], Request(x, d, posts'))]
  BY DEF ExclusiveSend
<1> DEFINE q == sending[x]
           m == Request(x, d, posts')
<1>3. /\ q \in Seq(Mail) /\ m.from = x /\ m.session = posts + 1
      /\ sending'[x] = Append(q, m)
      /\ \A y \in Exclusives \ {x} : sending'[y] = sending[y]
  BY <1>0, <1>1, <1>2 DEF Request
<1> HIDE DEF m
<1>4. /\ Len(q) \in Nat /\ DOMAIN q = 1..Len(q)
      /\ DOMAIN Append(q, m) = 1..(Len(q) + 1)
      /\ Len(Append(q, m)) = Len(q) + 1
      /\ Append(q, m)[Len(q) + 1] = m
      /\ \A i \in 1..Len(q) : Append(q, m)[i] = q[i]
  BY <1>3
<1> DEFINE r == sending'[x]
<1>5. /\ DOMAIN r = 1..(Len(q) + 1) /\ r[Len(q) + 1] = m
      /\ \A i \in DOMAIN r : i = Len(q) + 1 \/ (i \in DOMAIN q /\ r[i] = q[i])
  BY <1>3, <1>4
<1> HIDE DEF q, r
<1>6. /\ InOrderAt(x) /\ Left(x) = Len(q) /\ Left(x)' = Len(q) + 1
      /\ pc'[x] # "send"
  BY <1>1, <1>3, <1>4 DEF OrderInv, SendingInOrder, Left, q
<1>7. \A i \in DOMAIN q : q[i].from = x /\ q[i].session \in 1..posts
  BY <1>6 DEF InOrderAt, Numbered, q
<1>8. Numbered(x)'
  <2>1. \A i \in DOMAIN r : r[i].from = x /\ r[i].session \in 1..(posts + 1)
    BY <1>0, <1>3, <1>5, <1>7
  <2> QED
    BY <1>1, <2>1 DEF Numbered, r
<1>9. InTurn(sending[x], Left(x))'
  <2>1. ASSUME NEW i \in DOMAIN r, NEW j \in DOMAIN r, i < j
        PROVE  r[i].session < r[j].session
    <3>1. i \in DOMAIN q /\ r[i] = q[i] /\ i <= Len(q)
      BY <1>4, <1>5, <2>1
    <3>2. CASE j \in DOMAIN q /\ r[j] = q[j]
      BY <1>4, <1>6, <2>1, <3>1, <3>2 DEF InOrderAt, InTurn, q
    <3>3. CASE j = Len(q) + 1
      BY <1>0, <1>3, <1>5, <1>7, <3>1, <3>3
    <3> QED
      BY <1>5, <3>2, <3>3
  <2>2. \A j \in DOMAIN r : ~(Len(q) + 1 < j)
    BY <1>4, <1>5
  <2>3. InTurn(r, Len(q) + 1)
    BY <2>1, <2>2 DEF InTurn
  <2> QED
    BY <1>6, <2>3 DEF r
<1>10. InOrderAt(x)'
  BY <1>6, <1>8, <1>9 DEF InOrderAt, BackBlocked
<1>11. SendingInOrder'
  <2>1. posts' \in Nat /\ posts <= posts'
    BY <1>0, <1>1
  <2>2. \A y \in Exclusives \ {x} :
          pc'[y] = pc[y] /\ sending'[y] = sending[y]
    BY <1>1, <1>3
  <2>3. UNCHANGED <<index, blocked>> /\ SendingInOrder
    BY <1>1 DEF OrderInv
  <2> QED
    BY <1>0, <1>10, <2>1, <2>2, <2>3, SendingStep
<1>12. PoolInOrder(pool', sending', posts')
  <2> SUFFICES ASSUME NEW s \in Services
               PROVE  QueueInOrder(pool[s].msg, sending', posts + 1)
    BY <1>1 DEF OrderInv, PoolInOrder, Unnumbered
  <2>1. /\ QueueInOrder(pool[s].msg, sending, posts)
        /\ pool[s].msg \in Seq(Message)
    BY DEF OrderInv, PoolInOrder, TypeInv, PoolOK, Service
  <2>2. \A j \in DOMAIN pool[s].msg :
          pool[s].msg[j].session \in Nat /\ pool[s].msg[j].session <= posts
    BY <2>1 DEF QueueInOrder, Message
  <2>3. \A j \in DOMAIN pool[s].msg : ~Before(m, pool[s].msg[j])
    BY <1>0, <1>3, <2>2 DEF Before
  <2>4. ASSUME NEW y \in Exclusives, NEW i \in DOMAIN sending'[y],
               NEW j \in DOMAIN pool[s].msg
        PROVE  ~Before(sending'[y][i], pool[s].msg[j])
    <3>1. CASE y = x /\ i = Len(q) + 1
      BY <1>5, <2>3, <3>1 DEF r
    <3>2. CASE y = x /\ i \in DOMAIN q /\ sending'[y][i] = q[i]
      BY <2>1, <3>2 DEF QueueInOrder, q
    <3>3. CASE y # x
      BY <1>3, <2>1, <3>3 DEF QueueInOrder
    <3> QED
      BY <1>5, <3>1, <3>2, <3>3 DEF r
  <2> QED
    BY <1>0, <2>1, <2>2, <2>4 DEF QueueInOrder
<1> QED
  BY <1>1, <1>11, <1>12 DEF OrderInv, Unnumbered

(* and the sending queue is sent as it is when the lock was got. *)
LEMMA ExclusiveMessageOrder ==
  ASSUME TypeInv, OneScheduler, OrderInv, NEW x \in Exclusives,
         TakeOut(x) \/ DispatchOut(x) \/ SendEnd(x)
  PROVE  OrderInv'
<1>0. /\ x \in Threads /\ OrderedPool(pool) /\ OrderedKernel(Kernel)
      /\ pending \in [Exclusives -> Message \cup {NoMsg}]
      /\ sending \in [Exclusives -> Seq(Mail)]
      /\ \A y \in Exclusives : Unnumbered(pending[y])
      /\ InOrderAt(x) /\ posts \in Nat
  BY KernelOrdered, OrderTypes DEF Threads, OrderInv, SendingInOrder
<1>1. ASSUME NEW l
      PROVE  Goto(x, l) =>
               pc'[x] = l /\ \A y \in Exclusives \ {x} : pc'[y] = pc[y]
  BY <1>0, GotoAside
<1> USE DEF At, frameVars, poolVars, exclusiveVars
<1>2. CASE TakeOut(x)
  <2>1. /\ pc[x] = "message" /\ pc'[x] # "send"
        /\ \A y \in Exclusives \ {x} : pc'[y] = pc[y]
        /\ UNCHANGED <<posts, sending, index, blocked>>
        /\ pending' = [pending EXCEPT ![x] = pool[x].out]
        /\ pool' = ServiceMessageOut(pool, x)
    BY <1>1, <1>2 DEF TakeOut
  <2>2. OrderedPool(pool')
    BY <1>0, <2>1, MessageOutOrdered
  <2>3. Unnumbered(pool[x].out)
    BY <1>0, SchedulerAssumption DEF OrderedPool, PoolInOrder
  <2>4. \A y \in Exclusives : Unnumbered(pending'[y])
    BY <1>0, <2>1, <2>3
  <2> QED
    BY <1>0, <2>1, <2>2, <2>4, OrderStep
<1>3. CASE DispatchOut(x)
  <2> DEFINE k == IF pending[x] = NoMsg THEN Kernel
                  ELSE DispatchOutMessage(Kernel, x, pending[x], NoService)
  <2>1. /\ pc[x] = "out" /\ pc'[x] = "send"
        /\ \A y \in Exclusives \ {x} : pc'[y] = pc[y]
        /\ UNCHANGED <<posts, sending>>
        /\ pending' = [pending EXCEPT ![x] = NoMsg]
        /\ index' = Len(sending[x]) + 1 /\ SetKernel(k)
    BY <1>1, <1>3 DEF DispatchOut
  <2>2. OrderedKernel(k)
    BY <1>0, DispatchOutMessageOrdered DEF Unnumbered
  <2> HIDE DEF k
  <2>3. OrderedPool(pool')
    BY <2>1, <2>2 DEF OrderedKernel, SetKernel
  <2>4. /\ Len(sending[x]) \in Nat
        /\ DOMAIN sending[x] = 1..Len(sending[x])
    BY <1>0
  <2>5. Left(x)' = Len(sending[x]) /\ Left(x) = Len(sending[x])
    BY <2>1, <2>4 DEF Left
  <2>6. Numbered(x)' /\ InTurn(sending[x], Left(x))'
    BY <1>0, <2>1, <2>5 DEF InOrderAt, Numbered, InTurn
  <2>7. \A i \in DOMAIN sending[x] : ~(i > Len(sending[x]))
    BY <2>4
  <2>8. BackBlocked(x)'
    BY <2>1, <2>5, <2>7 DEF BackBlocked
  <2>9. InOrderAt(x)' /\ owner = x
    BY <1>0, <2>1, <2>6, <2>8 DEF InOrderAt, OneScheduler, Scheduling
  <2>10. SendingInOrder'
    BY <1>0, <2>1, <2>9, SendingStep DEF OrderInv
  <2>11. PoolInOrder(pool', sending', posts')
    BY <1>0, <2>1, <2>3, PoolStep DEF Among
  <2>12. \A y \in Exclusives : Unnumbered(pending'[y])
    BY <1>0, <2>1 DEF Unnumbered
  <2> QED
    BY <2>10, <2>11, <2>12 DEF OrderInv, Unnumbered
<1>4. CASE SendEnd(x)
  <2>1. /\ pc[x] = "send" /\ index = 1 /\ pc'[x] = "collect"
        /\ \A y \in Exclusives \ {x} : pc'[y] = pc[y]
        /\ UNCHANGED <<pool, posts, sending, pending>>
    BY <1>1, <1>4 DEF SendEnd
  <2>2. /\ Len(sending[x]) \in Nat
        /\ DOMAIN sending[x] = 1..Len(sending[x])
    BY <1>0
  <2>3. Left(x) = 0 /\ Left(x)' = Len(sending[x])
    BY <2>1, <2>2 DEF Left
  <2>4. \A i, j \in DOMAIN sending[x] : i < j =>
          sending[x][i].session < sending[x][j].session
    BY <1>0, <2>2, <2>3 DEF InOrderAt, InTurn
  <2>5. \A j \in DOMAIN sending[x] : ~(Len(sending[x]) < j)
    BY <2>2
  <2>6. InTurn(sending[x], Left(x))'
    BY <2>1, <2>3, <2>4, <2>5 DEF InTurn
  <2>7. Numbered(x)' /\ BackBlocked(x)'
    BY <1>0, <2>1 DEF InOrderAt, Numbered, BackBlocked
  <2>8. InOrderAt(x)' /\ owner = x
    BY <1>0, <2>1, <2>6, <2>7 DEF InOrderAt, OneScheduler, Scheduling
  <2>9. SendingInOrder'
    BY <1>0, <2>1, <2>8, SendingStep DEF OrderInv
  <2>10. PoolInOrder(pool', sending', posts')
    BY <1>0, <2>1, PoolStep DEF Among
  <2> QED
    BY <1>0, <2>1, <2>9, <2>10 DEF OrderInv, Unnumbered
<1> QED
  BY <1>2, <1>3, <1>4

(* Every step of an exclusive thread keeps the order. *)
LEMMA ExclusiveOrder ==
  ASSUME TypeInv, OneScheduler, SendInv, OrderInv, NEW x \in Exclusives,
         ExclusiveStep(x)
  PROVE  OrderInv'
<1>0. /\ x \in Threads /\ x \in Services /\ OrderedPool(pool)
      /\ posts \in Nat
  BY SchedulerAssumption, KernelOrdered, OrderTypes DEF Threads
<1>1. ASSUME NEW l
      PROVE  Goto(x, l) =>
               pc'[x] = l /\ \A y \in Exclusives \ {x} : pc'[y] = pc[y]
  BY <1>0, GotoAside
<1> DEFINE Rest == /\ UNCHANGED <<sending, pending>>
                   /\ posts' \in Nat /\ posts <= posts'
                   /\ \A y \in Exclusives \ {x} : pc'[y] = pc[y]
                   /\ pc[x] # "send" /\ pc'[x] # "send"
           Own == owner \in {x, NoService} \/ UNCHANGED <<index, blocked>>
<1>2. Rest /\ Own /\ OrderedPool(pool') => OrderInv'
  BY <1>0, OrderStep
<1> USE DEF At, notPc, restVars, slotVars, frameVars, poolVars, exclusiveVars
<1>3. CASE LoopExclusive(x) \/ ExclusiveQuit(x) \/ ExitExclusive(x)
           \/ Spin(x)
  <2>1. Rest /\ Own /\ pool' = pool
    BY <1>0, <1>1, <1>3
    DEF LoopExclusive, ExclusiveQuit, ExitExclusive, Spin
  <2> QED
    BY <1>0, <1>2, <2>1
<1>4. CASE ExclusiveYield(x) \/ ExclusivePost(x)
  <2>1. Rest /\ Own
    BY <1>0, <1>1, <1>4 DEF ExclusiveYield, ExclusivePost
  <2>2. OrderedPool(Consumed(x))
    BY ConsumedOrdered
  <2>3. CASE ExclusiveYield(x)
    BY <1>2, <2>1, <2>2, <2>3 DEF ExclusiveYield
  <2>4. CASE ExclusivePost(x)
    <3>1. PICK d \in Addressees :
            pool' = ServiceSendMessage(Consumed(x), x, Request(x, d, 0))
      BY <2>4 DEF ExclusivePost
    <3>2. d \in Services \cup {System}
      BY SchedulerAssumption
    <3>3. OrderedPool(pool')
      BY <1>0, <2>2, <3>1, <3>2, RequestOrdered
    <3> QED
      BY <1>2, <2>1, <3>3
  <2> QED
    BY <1>4, <2>3, <2>4
<1>5. CASE ScheduleDispatch(x)
  BY <1>0, <1>5, ScheduleDispatchOrder
<1>6. CASE CountSleepers(x) \/ WakeSome(x) \/ WakeEnd(x)
           \/ ReleaseExclusive(x)
  <2>1. Rest /\ pc[x] \in Scheduling /\ pool' = pool
    BY <1>0, <1>1, <1>6
    DEF CountSleepers, WakeSome, WakeEnd, ReleaseExclusive, Scheduling
  <2>2. owner = x
    BY <1>0, <2>1 DEF OneScheduler
  <2> QED
    BY <1>0, <1>2, <2>1, <2>2
<1> QED
  BY <1>3, <1>4, <1>5, <1>6, ExclusiveSendOrder, ExclusiveMessageOrder,
     SendOrder
  DEF ExclusiveStep, ExclusiveResume, ExclusiveMessage

(* There are no messages at the start but the one that boots root. *)
LEMMA OrderInit == Init => OrderInv
<1> SUFFICES ASSUME Init PROVE OrderInv
  OBVIOUS
<1>1. \A x \in Exclusives : sending[x] = <<>> /\ pending[x] = NoMsg
  BY DEF Init
<1>2. SendingInOrder
  BY <1>1 DEF SendingInOrder, InOrderAt, Numbered, InTurn, BackBlocked
<1>3. QueueInOrder(<<Boot>>, sending, 0) /\ QueueInOrder(<<>>, sending, 0)
  <2>1. <<Boot>>[1] = Boot /\ DOMAIN <<Boot>> = {1} /\ Boot.session = 0
    BY DEF Boot
  <2> QED
    BY <1>1, <2>1, EmptyInOrder DEF QueueInOrder, Before
<1>4. \A s \in Services :
        /\ pool[s].out = NoMsg /\ pool[s].bounce = NoMsg
        /\ pool[s].msg \in {<<>>, <<Boot>>}
  BY DEF Init, EmptyService, Absent
<1>5. PoolInOrder(pool, sending, posts)
  BY <1>3, <1>4 DEF Init, PoolInOrder, Unnumbered
<1> QED
  BY <1>1, <1>2, <1>5 DEF OrderInv, Unnumbered

(* The messages an exclusive service sends to one receiver arrive in the
   order they were sent in, although those a full queue refuses go back to
   the end of the sending queue. *)
THEOREM SentInOrder == Spec => []InOrder
<1>1. Init => OrderInv
  BY OrderInit
<1>2. ControlInv /\ OrderInv /\ [Next]_vars => OrderInv'
  <2> SUFFICES ASSUME ControlInv, OrderInv, [Next]_vars PROVE OrderInv'
    OBVIOUS
  <2>1. TypeInv /\ OneScheduler /\ SendInv
    BY DEF ControlInv, SchedulerInv
  <2>2. CASE UNCHANGED vars
    <3>1. UNCHANGED <<pool, posts, sending, pending, pc, index, blocked>>
      BY <2>2
      DEF vars, notPc, restVars, poolVars, frameVars, exclusiveVars
    <3> QED
      BY <3>1
      DEF OrderInv, PoolInOrder, QueueInOrder, SendingInOrder, InOrderAt,
          Numbered, InTurn, BackBlocked, Left, IsBlocked, Unnumbered
  <2> QED
    BY <2>1, <2>2, WorkerOrder, ExclusiveOrder DEF Next
<1>3. OrderInv => InOrder
  <2> SUFFICES ASSUME OrderInv, NEW x \in Exclusives, NEW d \in Services
               PROVE  /\ \A i, j \in DOMAIN pool[d].msg :
                           /\ pool[d].msg[i].from = x
                           /\ Before(pool[d].msg[i], pool[d].msg[j])
                           => i < j
                      /\ \A i \in DOMAIN sending[x],
                            j \in DOMAIN pool[d].msg :
                           ~Before(sending[x][i], pool[d].msg[j])
    BY DEF InOrder
  <2> QED
    BY DEF OrderInv, PoolInOrder, QueueInOrder
<1> QED
  BY <1>1, <1>2, <1>3, ControlInvariant, PTL DEF Spec

-----------------------------------------------------------------------------
(***************************************************************************)
(* The death of a service, when root kills nobody and its queue has room.  *)
(***************************************************************************)
Deadly(m) == m # NoMsg /\ m.type = "signal"

(* The signal of a service is in its outbound slot or has come to root, and
   nobody's signal is anywhere without its death.  root itself sends none and
   keeps its slot. *)
PoolSignals(P) ==
  /\ P[Root].status # "absent"
  /\ \A s \in Services :
       /\ Deadly(P[s].out) =>
            P[s].out = Signal(s) /\ P[s].status = "dead" /\ s # Root
       /\ ~Deadly(P[s].bounce)
       /\ P[s].status = "dead" /\ s # Root =>
            P[s].out = Signal(s) \/ Signal(s) \in Ids(P[Root].msg)
  /\ \A m \in Ids(P[Root].msg) : Deadly(m) =>
       m.from # Root /\ P[m.from].status \in {"dead", "absent"}

(* Nobody but X dies or sends a signal between P and R. *)
Calm(P, R, X) ==
  \A s \in Services \ X :
    /\ R[s].status = "dead" => P[s].status = "dead"
    /\ Deadly(R[s].out) => Deadly(P[s].out)

(* No signal is sent, taken or read, and nobody dies or comes back. *)
Alike(P, R) ==
  /\ \A s \in Services :
       /\ \/ R[s].status = P[s].status
          \/ /\ P[s].status \notin {"dead", "absent"} /\ R[s].status # "dead"
             /\ s = Root => R[s].status # "absent"
       /\ R[s].out = P[s].out \/ (~Deadly(R[s].out) /\ ~Deadly(P[s].out))
       /\ Deadly(R[s].bounce) => Deadly(P[s].bounce)
  /\ \A m : Deadly(m) => (m \in Ids(R[Root].msg) <=> m \in Ids(P[Root].msg))

(* A death signal names who died. *)
LEMMA SignalIs ==
  ASSUME NEW s \in Services
  PROVE  Signal(s) \in Message /\ Deadly(Signal(s)) /\ Signal(s).from = s
<1>1. Signal(s) \in Message /\ Signal(s).type = "signal" /\ Signal(s).from = s
  BY PoolAssumption DEF Signal, Message
<1> QED
  BY <1>1, MessageAssumption DEF Deadly

(* Pools that are alike keep the invariant of deaths, *)
LEMMA AlikeSignals ==
  ASSUME NEW P, PoolOK(P), NEW R, Alike(P, R), PoolSignals(P)
  PROVE  PoolSignals(R) /\ Calm(P, R, {})
<1>0. Root \in Services
  BY PoolAssumption
<1>1. R[Root].status # "absent"
  BY <1>0 DEF Alike, PoolSignals
<1>2. ASSUME NEW s \in Services
      PROVE  /\ Deadly(R[s].out) =>
                  R[s].out = Signal(s) /\ R[s].status = "dead" /\ s # Root
             /\ ~Deadly(R[s].bounce)
             /\ R[s].status = "dead" /\ s # Root =>
                  R[s].out = Signal(s) \/ Signal(s) \in Ids(R[Root].msg)
  BY SignalIs DEF Alike, PoolSignals
<1>3. ASSUME NEW m \in Ids(R[Root].msg), Deadly(m)
      PROVE  m.from # Root /\ R[m.from].status \in {"dead", "absent"}
  <2>1. m \in Ids(P[Root].msg)
    BY <1>3 DEF Alike
  <2>2. P[Root].msg \in Seq(Message)
    BY <1>0 DEF PoolOK, Service
  <2>3. m.from \in Services
    BY <2>1, <2>2, IdsIn DEF Message
  <2> QED
    BY <1>3, <2>1, <2>3 DEF Alike, PoolSignals
<1> QED
  BY <1>1, <1>2, <1>3 DEF PoolSignals, Calm, Alike

(* and two such changes are one. *)
LEMMA AlikeTwice ==
  ASSUME NEW P, NEW R, NEW S
  PROVE  /\ Alike(P, P)
         /\ Alike(P, R) /\ Alike(R, S) => Alike(P, S)
BY DEF Alike

(* service_read_receipt, *)
LEMMA ReadReceiptAlike ==
  ASSUME NEW P, PoolOK(P), NEW s \in Services
  PROVE  Alike(P, ServiceReadReceipt(P, s))
<1> DEFINE R == ServiceReadReceipt(P, s)
<1>1. \A t \in Services :
        /\ R[t].status = P[t].status /\ R[t].out = P[t].out
        /\ R[t].msg = P[t].msg
        /\ R[t].bounce = IF t = s THEN NoMsg ELSE P[t].bounce
  BY DEF PoolOK, Service, ServiceReadReceipt
<1> HIDE DEF R
<1>2. Alike(P, R)
  BY <1>1, PoolAssumption DEF Alike, Deadly
<1> QED
  BY <1>2 DEF R

(* service_pop_message, when root takes no signal, *)
LEMMA PopMessageAlike ==
  ASSUME NEW P, PoolOK(P), NEW s \in Services,
         s = Root => ~Deadly(NextMessage(P, s))
  PROVE  Alike(P, ServicePopMessage(P, s))
<1> DEFINE R == ServicePopMessage(P, s)
<1>1. /\ \A t \in Services :
           /\ R[t].status = P[t].status /\ R[t].out = P[t].out
           /\ R[t].bounce \in {NoMsg, P[t].bounce}
           /\ t # s => R[t].msg = P[t].msg
      /\ \/ R[s].msg = P[s].msg
         \/ /\ P[s].bounce = NoMsg /\ P[s].msg # <<>>
            /\ R[s].msg = Tail(P[s].msg)
      /\ P[s].msg \in Seq(Message)
  BY DEF PoolOK, Service, ServicePopMessage
<1> HIDE DEF R
<1>2. s = Root /\ R[s].msg # P[s].msg => ~Deadly(Head(P[s].msg))
  BY <1>1 DEF NextMessage
<1>3. R[s].msg # P[s].msg =>
        Ids(P[s].msg) = Ids(R[s].msg) \cup {Head(P[s].msg)}
  BY <1>1, IdsHead
<1>4. \A m : Deadly(m) => (m \in Ids(R[Root].msg) <=> m \in Ids(P[Root].msg))
  BY <1>1, <1>2, <1>3, PoolAssumption
<1>5. Alike(P, R)
  BY <1>1, <1>4 DEF Alike, Deadly
<1> QED
  BY <1>5 DEF R

(* service_send_message and service_message_out, of what is no signal, *)
LEMMA SendMessageAlike ==
  ASSUME NEW P, PoolOK(P), NEW s \in Services, NEW m, ~Deadly(m)
  PROVE  Alike(P, ServiceSendMessage(P, s, m))
<1> DEFINE R == ServiceSendMessage(P, s, m)
<1>1. \A t \in Services :
        /\ R[t].status = P[t].status /\ R[t].msg = P[t].msg
        /\ R[t].bounce = P[t].bounce
        /\ R[t].out = P[t].out \/ (P[t].out = NoMsg /\ R[t].out = m)
  BY DEF PoolOK, Service, ServiceSendMessage
<1> HIDE DEF R
<1>2. Alike(P, R)
  BY <1>1, PoolAssumption DEF Alike, Deadly
<1> QED
  BY <1>2 DEF R

LEMMA MessageOutAlike ==
  ASSUME NEW P, PoolOK(P), NEW s \in Services, ~Deadly(P[s].out)
  PROVE  Alike(P, ServiceMessageOut(P, s))
<1> DEFINE R == ServiceMessageOut(P, s)
<1>1. \A t \in Services :
        /\ R[t].status = P[t].status /\ R[t].msg = P[t].msg
        /\ R[t].bounce = P[t].bounce
        /\ R[t].out = IF t = s THEN NoMsg ELSE P[t].out
  BY DEF PoolOK, Service, ServiceMessageOut
<1> HIDE DEF R
<1>2. Alike(P, R)
  BY <1>1, PoolAssumption DEF Alike, Deadly
<1> QED
  BY <1>2 DEF R

(* service_write_receipt and service_push_message, of what is no signal, *)
LEMMA WriteReceiptAlike ==
  ASSUME NEW P, PoolOK(P), NEW s \in Services, NEW r, NEW m, ~Deadly(m)
  PROVE  Alike(P, ServiceWriteReceipt(P, s, r, m))
<1> DEFINE R == ServiceWriteReceipt(P, s, r, m)
<1>1. \A t \in Services :
        /\ R[t].status = P[t].status /\ R[t].msg = P[t].msg
        /\ R[t].out = P[t].out
        /\ R[t].bounce \in {P[t].bounce, m}
  BY DEF PoolOK, Service, ServiceWriteReceipt
<1> HIDE DEF R
<1>2. Alike(P, R)
  BY <1>1, PoolAssumption DEF Alike
<1> QED
  BY <1>2 DEF R

LEMMA PushMessageAlike ==
  ASSUME NEW P, PoolOK(P), NEW s, NEW m \in Message, ~Deadly(m)
  PROVE  Alike(P, ServicePushMessage(P, s, m))
<1> DEFINE R == ServicePushMessage(P, s, m)
<1>1. \A t \in Services :
        /\ R[t].status = P[t].status /\ R[t].out = P[t].out
        /\ R[t].bounce = P[t].bounce
        /\ R[t].msg \in {P[t].msg, Append(P[t].msg, m)}
        /\ P[t].msg \in Seq(Message)
  BY DEF PoolOK, Service, ServicePushMessage
<1> HIDE DEF R
<1>2. Ids(R[Root].msg) \in {Ids(P[Root].msg), Ids(P[Root].msg) \cup {m}}
  <2>1. Ids(Append(P[Root].msg, m)) = Ids(P[Root].msg) \cup {m}
    BY <1>1, IdsAppend, PoolAssumption
  <2> QED
    BY <1>1, <2>1, PoolAssumption
<1>3. Alike(P, R)
  BY <1>1, <1>2, PoolAssumption DEF Alike
<1> QED
  BY <1>3 DEF R

(* service_status_set, of a service that lives on, and service_init, *)
LEMMA StatusAlike ==
  ASSUME NEW P, PoolOK(P), NEW s \in Services, P[s].status # "dead",
         NEW st, st \notin {"dead", "absent"}
  PROVE  /\ Alike(P, ServiceStatusSet(P, s, st))
         /\ P[s].status # "absent" => Alike(P, [P EXCEPT ![s].status = st])
<1> DEFINE R == [P EXCEPT ![s].status = st]
<1>1. \A t \in Services :
        /\ R[t].out = P[t].out /\ R[t].msg = P[t].msg
        /\ R[t].bounce = P[t].bounce
        /\ R[t].status = IF t = s THEN st ELSE P[t].status
  BY DEF PoolOK, Service
<1>2. P[s].status # "absent" => Alike(P, R)
  <2> HIDE DEF R
  <2> QED
    BY <1>1, PoolAssumption DEF Alike
<1> QED
  BY <1>2, AlikeTwice DEF ServiceStatusSet, Exists

(* and service_delete, of one that is not dead. *)
LEMMA DeleteAlike ==
  ASSUME NEW P, PoolOK(P), PoolSignals(P), NEW s \in Services \ {Root},
         P[s].status # "dead"
  PROVE  Alike(P, ServiceDelete(P, s))
<1> DEFINE R == ServiceDelete(P, s)
<1>1. \A t \in Services :
        /\ t # s => R[t] = P[t]
        /\ t = s => /\ R[t].status = "absent" /\ R[t].out = NoMsg
                    /\ R[t].bounce = NoMsg
  BY DEF PoolOK, ServiceDelete, Absent, EmptyService
<1>2. ~Deadly(P[s].out)
  BY DEF PoolSignals
<1> HIDE DEF R
<1>3. Alike(P, R)
  BY <1>1, <1>2, PoolAssumption DEF Alike, Deadly
<1> QED
  BY <1>3 DEF R

(***************************************************************************)
(* The kernel.                                                             *)
(***************************************************************************)
(* The invariant of deaths from k to l *)
KernelSignals(k, l) ==
  PoolSignals(k.pool) => PoolSignals(l.pool) /\ Calm(k.pool, l.pool, {})

(* One change after the other, or one that does nothing of the kind *)
LEMMA KernelSignalsTwice ==
  ASSUME NEW k, NEW l, NEW o
  PROVE  /\ KernelSignals(k, l) /\ KernelSignals(l, o) => KernelSignals(k, o)
         /\ KernelOK(k) /\ Alike(k.pool, l.pool) => KernelSignals(k, l)
<1>1. KernelOK(k) /\ Alike(k.pool, l.pool) => KernelSignals(k, l)
  BY AlikeSignals DEF KernelOK, KernelSignals
<1>2. KernelSignals(k, l) /\ KernelSignals(l, o) => KernelSignals(k, o)
  BY DEF KernelSignals, Calm
<1> QED
  BY <1>1, <1>2

(* schedule_back, service_write_receipt, service_push_message, *)
LEMMA KernelAlike ==
  ASSUME NEW k, KernelOK(k)
  PROVE  /\ \A s : Alike(k.pool, ScheduleBack(k, s).pool)
         /\ \A id \in Services : \A r, m : ~Deadly(m) =>
              Alike(k.pool, Answer(k, id, r, m).pool)
         /\ \A m \in Message : ~Deadly(m) => Alike(k.pool, Push(k, m).pool)
<1>1. /\ \A s : ScheduleBack(k, s).pool = k.pool
      /\ \A id, r, m :
           Answer(k, id, r, m).pool = ServiceWriteReceipt(k.pool, id, r, m)
      /\ \A m : Push(k, m).pool = ServicePushMessage(k.pool, m.to, m)
      /\ PoolOK(k.pool)
  BY DEF ScheduleBack, Answer, Push, KernelOK
<1>2. \A s : Alike(k.pool, ScheduleBack(k, s).pool)
  BY <1>1, AlikeTwice
<1>3. \A id \in Services : \A r, m : ~Deadly(m) =>
        Alike(k.pool, Answer(k, id, r, m).pool)
  BY <1>1, WriteReceiptAlike
<1>4. \A m \in Message : ~Deadly(m) => Alike(k.pool, Push(k, m).pool)
  BY <1>1, PushMessageAlike
<1> QED
  BY <1>2, <1>3, <1>4

(* schedule_if_idle, *)
LEMMA ScheduleIfIdleAlike ==
  ASSUME NEW k, KernelOK(k), NEW s \in Services
  PROVE  Alike(k.pool, ScheduleIfIdle(k, s).pool)
<1>1. CASE ServiceStatusGet(k.pool, s) = "idle"
  <2>1. ScheduleIfIdle(k, s).pool = ServiceStatusSet(k.pool, s, "schedule")
    BY <1>1 DEF ScheduleIfIdle, ScheduleBack, KernelOK
  <2>2. k.pool[s].status # "dead"
    BY <1>1 DEF ServiceStatusGet
  <2>3. "schedule" \notin {"dead", "absent"} /\ PoolOK(k.pool)
    BY DEF KernelOK
  <2> QED
    BY <2>1, <2>2, <2>3, StatusAlike
<1>2. CASE ServiceStatusGet(k.pool, s) # "idle"
  BY <1>2, AlikeTwice DEF ScheduleIfIdle
<1> QED
  BY <1>1, <1>2

(* what becomes of a service that is done and lives, *)
LEMMA ParkAlike ==
  ASSUME NEW k, KernelOK(k), NEW id \in Services, k.pool[id].status # "dead"
  PROVE  Alike(k.pool, Park(k, id).pool)
<1>1. \/ Park(k, id).pool = ServiceStatusSet(k.pool, id, "schedule")
      \/ Park(k, id).pool = ServiceStatusSet(k.pool, id, "idle")
  BY DEF Park, ScheduleBack, KernelOK
<1>2. /\ "schedule" \notin {"dead", "absent"} /\ "idle" \notin {"dead", "absent"}
      /\ PoolOK(k.pool)
  BY DEF KernelOK
<1> QED
  BY <1>1, <1>2, StatusAlike

(* DEL and HANG of a service that root closed, NEW, *)
LEMMA DispatchScheduleMessageSignals ==
  ASSUME NEW k, KernelOK(k), NEW id \in Services, NEW m \in Message,
         ~Deadly(m), MessageKept(k.pool, k.fresh, m),
         NEW Q, PoolPlaced(k.pool, k.fresh, Q),
         NEW n \in k.fresh \cup {NoService}
  PROVE  KernelSignals(k, DispatchScheduleMessage(k, id, m, n))
<1> SUFFICES ASSUME PoolSignals(k.pool)
             PROVE  KernelSignals(k, DispatchScheduleMessage(k, id, m, n))
  BY DEF KernelSignals
<1>0. PoolOK(k.pool) /\ ~Deadly(NoMsg) /\ k.fresh \in SUBSET Services
  BY DEF KernelOK, Deadly
<1>1. KernelSignals(k, Answer(k, id, "error", m))
  BY KernelAlike, KernelSignalsTwice
<1>2. ASSUME n # NoService
      PROVE  KernelSignals(k, Answer([k EXCEPT !.pool = ServiceNew(@, n),
                                               !.fresh = @ \ {n}],
                                     id, "response", [m EXCEPT !.to = n]))
  <2> DEFINE P == ServiceNew(k.pool, n)
             kNew == [k EXCEPT !.pool = ServiceNew(@, n), !.fresh = @ \ {n}]
             mNew == [m EXCEPT !.to = n]
             l == Answer(kNew, id, "response", mNew)
  <2>1. n \in Services /\ n \in k.fresh
    BY <1>0, <1>2
  <2>2. kNew.pool = P /\ KernelOK(kNew)
    <3>1. kNew.pool = P /\ PoolOK(P)
      BY <1>0, NewInitDeleteOK DEF KernelOK
    <3> QED
      BY <3>1 DEF KernelOK, PoolOK
  <2>3. ~Deadly(mNew)
    <3>1. mNew.type = m.type /\ (m # NoMsg)
      BY MessageAssumption DEF Message
    <3> QED
      BY <3>1 DEF Deadly
  <2>4. \A t \in Services :
          /\ t # n => P[t] = k.pool[t]
          /\ t = n => /\ P[t].status = "uninitialized" /\ P[t].out = NoMsg
                      /\ P[t].bounce = NoMsg
    BY <1>0 DEF ServiceNew, EmptyService, PoolOK
  <2>5. /\ n # Root /\ k.pool[n].status = "absent"
        /\ \A o \in Ids(k.pool[Root].msg) : o.from # n /\ o.from \in Services
    <3>1. Root \notin k.fresh
      BY DEF PoolPlaced, Settled
    <3>2. \A o \in Ids(k.pool[Root].msg) : o.from # n
      BY <2>1, PoolAssumption DEF PoolPlaced, Sent
    <3>3. Ids(k.pool[Root].msg) \subseteq Message
      BY <1>0, IdsIn, PoolAssumption DEF PoolOK, Service
    <3> QED
      BY <2>1, <3>1, <3>2, <3>3 DEF PoolPlaced, Message
  <2> HIDE DEF P, kNew, mNew
  <2>6. PoolSignals(P)
    BY <1>0, <2>1, <2>4, <2>5, PoolAssumption DEF PoolSignals
  <2>7. Calm(k.pool, P, {})
    BY <1>0, <2>4 DEF Calm
  <2>8. KernelSignals(k, kNew)
    BY <2>2, <2>6, <2>7 DEF KernelSignals
  <2>9. KernelSignals(kNew, l)
    BY <2>2, <2>3, KernelAlike, KernelSignalsTwice
  <2> HIDE DEF l
  <2>10. KernelSignals(k, l)
    BY <2>8, <2>9, KernelSignalsTwice
  <2> QED
    BY <2>10 DEF l, kNew, mNew
<1>3. ASSUME m.type \in {"del", "hang"}
      PROVE  /\ m.sid \in Services \ {Root}
             /\ k.pool[m.sid].status = "absent"
  BY <1>3 DEF MessageKept, Gone, PoolSignals
<1>4. ASSUME m.type = "del"
      PROVE  KernelSignals(k, Answer([k EXCEPT !.pool =
                                        ServiceDelete(@, m.sid)],
                                     id, "done", NoMsg))
  <2> DEFINE P == ServiceDelete(k.pool, m.sid)
             kDel == [k EXCEPT !.pool = P]
             l == Answer(kDel, id, "done", NoMsg)
  <2>1. Alike(k.pool, P)
    BY <1>0, <1>3, <1>4, DeleteAlike
  <2>2. KernelOK(kDel) /\ kDel.pool = P
    BY <1>0, NewInitDeleteOK, KernelSetPool DEF KernelOK
  <2> HIDE DEF P, kDel
  <2>3. Alike(kDel.pool, l.pool)
    BY <1>0, <2>2, KernelAlike
  <2> HIDE DEF l
  <2>4. KernelSignals(k, l)
    BY <2>1, <2>2, <2>3, AlikeTwice, KernelSignalsTwice
  <2> QED
    BY <2>4 DEF l, kDel, P
<1>5. ASSUME m.type = "hang"
      PROVE  KernelSignals(k, HangService(k, id, m))
  <2>1. /\ ServiceStatusGet(k.pool, m.sid) = "dead"
        /\ ~HangRefused(k.pool, m.sid)
        /\ ServiceHang(k.pool, m.sid) = k.pool
    BY <1>3, <1>5 DEF ServiceStatusGet, Exists, HangRefused, ServiceHang
  <2>2. [k EXCEPT !.pool = ServiceHang(@, m.sid)] = k
    BY <2>1 DEF KernelOK
  <2>3. HangService(k, id, m) = Answer(k, id, "done", NoMsg)
    BY <2>1, <2>2 DEF HangService
  <2> QED
    BY <1>0, <2>3, KernelAlike, KernelSignalsTwice
<1> QED
  BY <1>1, <1>2, <1>4, <1>5 DEF DispatchScheduleMessage

(* and dispatch_out_message. *)
LEMMA DispatchOutMessageSignals ==
  ASSUME NEW k, KernelOK(k), NEW id \in Services, NEW m \in Message,
         ~Deadly(m), MessageKept(k.pool, k.fresh, m),
         NEW Q, PoolPlaced(k.pool, k.fresh, Q),
         NEW n \in k.fresh \cup {NoService}
  PROVE  KernelSignals(k, DispatchOutMessage(k, id, m, n))
<1>1. CASE m.to = System
  BY <1>1, DispatchScheduleMessageSignals DEF DispatchOutMessage
<1>2. CASE m.to # System
  <2> DEFINE r == PushResult(k.pool, m.to)
             b == IF r = "done" THEN NoMsg ELSE m
             k1 == Push(k, m)
             k2 == Answer(k1, id, r, b)
             k3 == ScheduleIfIdle(k2, m.to)
  <2>1. m.to \in Services /\ ~Deadly(b) /\ b \in Message \cup {NoMsg}
    BY <1>2 DEF Message, Deadly
  <2>2. r \in Receipt \ {"response"}
    BY PushResultType
  <2>3. DispatchOutMessage(k, id, m, n) = k3
    BY <1>2 DEF DispatchOutMessage
  <2>4. KernelOK(k1) /\ Alike(k.pool, k1.pool)
    BY PushOK, KernelAlike
  <2> HIDE DEF r, b, k1
  <2>5. KernelOK(k2) /\ Alike(k1.pool, k2.pool)
    BY <2>1, <2>2, <2>4, AnswerOK, KernelAlike
  <2> HIDE DEF k2
  <2>6. Alike(k2.pool, k3.pool)
    BY <2>1, <2>5, ScheduleIfIdleAlike
  <2> HIDE DEF k3
  <2>7. Alike(k.pool, k3.pool)
    BY <2>4, <2>5, <2>6, AlikeTwice
  <2> QED
    BY <2>3, <2>7, KernelSignalsTwice
<1> QED
  BY <1>1, <1>2

(* The signal of a service that died comes to root, if there is room, or the
   service is deleted, if root has ended. *)
LEMMA SignalRootSignals ==
  ASSUME NEW k, KernelOK(k), PoolSignals(k.pool),
         NEW id \in Services \ {Root}, k.pool[id].status = "dead",
         PushResult(k.pool, Root) # "block"
  PROVE  LET j == [k EXCEPT !.pool = ServiceMessageOut(@, id)]
             l == SignalRoot(j, id, Signal(id))
         IN  PoolSignals(l.pool) /\ Calm(k.pool, l.pool, {})
<1> DEFINE P == ServiceMessageOut(k.pool, id)
           j == [k EXCEPT !.pool = ServiceMessageOut(@, id)]
           m == Signal(id)
<1>0. Root \in Services /\ PoolOK(k.pool) /\ PoolOK(P)
  BY PoolAssumption, MessageOutOK DEF KernelOK
<1>1. KernelOK(j) /\ j.pool = P
  <2>1. j = [k EXCEPT !.pool = P]
    BY DEF KernelOK
  <2> HIDE DEF P
  <2> QED
    BY <1>0, <2>1, KernelSetPool DEF KernelOK
<1>2. \A t \in Services :
        /\ P[t].status = k.pool[t].status /\ P[t].msg = k.pool[t].msg
        /\ P[t].bounce = k.pool[t].bounce
        /\ P[t].out = IF t = id THEN NoMsg ELSE k.pool[t].out
  BY <1>0 DEF PoolOK, Service, ServiceMessageOut
<1>3. m \in Message /\ Deadly(m) /\ m.from = id /\ m.to = Root
  BY SignalIs DEF Signal
<1>4. /\ k.pool[Root].status # "absent"
      /\ k.pool[Root].msg \in Seq(Message)
  BY <1>0 DEF PoolSignals, PoolOK, Service
<1> HIDE DEF P, j, m
<1>5. CASE k.pool[Root].status # "dead"
  <2> DEFINE R == ServicePushMessage(P, Root, m)
             l == ScheduleIfIdle(Push(j, m), Root)
  <2>1. PushResult(P, Root) = "done"
    <3>1. ServiceStatusGet(P, Root) # "dead"
      BY <1>0, <1>2, <1>4, <1>5 DEF ServiceStatusGet, Exists
    <3>2. ~(Len(P[Root].msg) >= QueueLen)
      BY <1>0, <1>2, <1>4, <1>5 DEF PushResult, ServiceStatusGet, Exists
    <3> QED
      BY <3>1, <3>2 DEF PushResult
  <2>2. SignalRoot(j, id, m) = l
    BY <1>1, <2>1 DEF SignalRoot
  <2>3. \A t \in Services :
          /\ R[t].status = P[t].status /\ R[t].out = P[t].out
          /\ R[t].bounce = P[t].bounce
    BY <1>0, <1>1 DEF PoolOK, Service, ServicePushMessage
  <2>4. R[Root].msg = Append(k.pool[Root].msg, m)
    BY <1>0, <1>2, <2>1 DEF PoolOK, Service, ServicePushMessage
  <2>5. Ids(R[Root].msg) = Ids(k.pool[Root].msg) \cup {m}
    BY <1>3, <1>4, <2>4, IdsAppend
  <2>6. Push(j, m).pool = R /\ KernelOK(Push(j, m))
    BY <1>1, <1>3, PushOK DEF Push, KernelOK
  <2> HIDE DEF R
  <2>7. PoolSignals(R)
    <3>1. ~Deadly(NoMsg)
      BY DEF Deadly
    <3>2. ASSUME NEW t \in Services
          PROVE  /\ Deadly(R[t].out) =>
                      R[t].out = Signal(t) /\ R[t].status = "dead" /\ t # Root
                 /\ ~Deadly(R[t].bounce)
                 /\ R[t].status = "dead" /\ t # Root =>
                      R[t].out = Signal(t) \/ Signal(t) \in Ids(R[Root].msg)
      BY <1>2, <2>3, <2>5, <3>1 DEF PoolSignals, m
    <3>3. ASSUME NEW o \in Ids(R[Root].msg), Deadly(o)
          PROVE  o.from # Root /\ R[o.from].status \in {"dead", "absent"}
      <4>1. Ids(k.pool[Root].msg) \subseteq Message
        BY <1>4, IdsIn
      <4>2. o.from \in Services
        BY <1>3, <2>5, <4>1 DEF Message
      <4> QED
        BY <1>2, <1>3, <2>3, <2>5, <3>3, <4>2 DEF PoolSignals
    <3> QED
      BY <1>0, <1>2, <1>4, <2>3, <3>2, <3>3 DEF PoolSignals
  <2>8. Calm(k.pool, R, {})
    BY <1>2, <2>3 DEF Calm, Deadly
  <2>9. Alike(R, l.pool)
    <3> DEFINE o == Push(j, m)
    <3>1. KernelOK(o) /\ o.pool = R
      BY <2>6
    <3> HIDE DEF o
    <3>2. Alike(o.pool, ScheduleIfIdle(o, Root).pool)
      BY <1>0, <3>1, ScheduleIfIdleAlike
    <3> QED
      BY <3>1, <3>2 DEF o
  <2>10. PoolOK(R)
    BY <2>6 DEF KernelOK
  <2> HIDE DEF l
  <2>11. PoolSignals(l.pool) /\ Calm(R, l.pool, {})
    BY <2>7, <2>9, <2>10, AlikeSignals
  <2>12. Calm(k.pool, l.pool, {})
    BY <2>8, <2>11 DEF Calm
  <2> QED
    BY <2>2, <2>11, <2>12 DEF j, m
<1>6. CASE k.pool[Root].status = "dead"
  <2> DEFINE R == ServiceDelete(P, id)
  <2>1. PushResult(P, Root) = "error"
    BY <1>0, <1>2, <1>6 DEF PushResult, ServiceStatusGet, Exists
  <2>2. SignalRoot(j, id, m).pool = R
    BY <1>1, <2>1 DEF SignalRoot, KernelOK
  <2>3. \A t \in Services :
          /\ t # id => R[t] = P[t]
          /\ t = id => /\ R[t].status = "absent" /\ R[t].out = NoMsg
                       /\ R[t].bounce = NoMsg
    BY <1>0 DEF PoolOK, ServiceDelete, Absent, EmptyService
  <2> HIDE DEF R
  <2>4. PoolSignals(R)
    <3>1. ~Deadly(NoMsg)
      BY DEF Deadly
    <3>2. Ids(k.pool[Root].msg) \subseteq Message
      BY <1>4, IdsIn
    <3>3. \A o \in Ids(k.pool[Root].msg) : o.from \in Services
      BY <3>2 DEF Message
    <3> QED
      BY <1>0, <1>2, <2>3, <3>1, <3>3 DEF PoolSignals
  <2>5. Calm(k.pool, R, {})
    BY <1>2, <2>3 DEF Calm, Deadly
  <2> QED
    BY <2>2, <2>4, <2>5 DEF j, m
<1> QED
  BY <1>5, <1>6

(***************************************************************************)
(* The invariant, and what a step has to do to keep it.                    *)
(***************************************************************************)
(* A service whose signal is in its outbound slot is on its way to the
   scheduler, *)
Escorted == \A s \in Services : Deadly(pool[s].out) => s \in Placed

(* exclusive services send no signals, *)
NoDeadlyMail ==
  \A x \in Exclusives :
    ~Deadly(pending[x]) /\ \A m \in Ids(sending[x]) : ~Deadly(m)

(* and the service a worker is to run lives until it ends by itself. *)
RunsAlive ==
  \A w \in Workers :
    pc[w] \in {"set", "resume"} => pool[running[w]].status # "dead"

DeathInv == PoolSignals(pool) /\ Escorted /\ NoDeadlyMail /\ RunsAlive

(* root's queue has room for a signal that the pass is about to give it. *)
SignalHasRoom ==
  \A t \in Threads :
    /\ pc[t] = "dispatch" /\ doneJob # <<>>
    /\ pool[Head(doneJob)].status = "dead"
    => PushResult(pool, Root) # "block"

(* Workers that go on running what they ran *)
RunOn(X) ==
  \A w \in Workers : pc'[w] \in {"set", "resume"} =>
    /\ pc[w] \in {"set", "resume"} /\ running'[w] = running[w]
    /\ running[w] \in Services \ X

LEMMA DeathStep ==
  ASSUME DeathInv, Keeps, NEW X, PoolSignals(pool'), Calm(pool, pool', X),
         \A s \in Services \cap X : Deadly(pool'[s].out) => s \in Placed',
         NoDeadlyMail', RunsAlive' \/ RunOn(X)
  PROVE  DeathInv'
<1>1. Escorted'
  BY DEF DeathInv, PoolSignals, Escorted, Calm, Keeps, Deadly
<1>2. RunOn(X) => RunsAlive'
  BY DEF RunOn, RunsAlive, Calm, DeathInv
<1> QED
  BY <1>1, <1>2 DEF DeathInv

(* (a step that does nothing of the kind) *)
LEMMA DeathStill ==
  ASSUME DeathInv, Keeps, UNCHANGED pool, NoDeadlyMail',
         RunsAlive' \/ RunOn({})
  PROVE  DeathInv'
<1>1. PoolSignals(pool') /\ Calm(pool, pool', {})
  BY DEF DeathInv, Calm
<1> QED
  BY <1>1, DeathStep
(* A thread moves nobody else, and a worker comes to run a service by the
   steps of worker_run alone. *)
LEMMA WorkerRuns ==
  ASSUME ControlType, NEW w \in Workers, WorkerStep(w)
  PROVE  /\ \A v \in Workers \ {w} : pc'[v] = pc[v] /\ running'[v] = running[v]
         /\ pc'[w] \in {"set", "resume"} => CheckDead(w) \/ SetRunning(w)
<1> DEFINE Still == \A v \in Workers \ {w} :
                      pc'[v] = pc[v] /\ running'[v] = running[v]
           Off == pc'[w] \notin {"set", "resume"}
<1>0. /\ pc \in [Threads -> WorkerLabel \cup ExclusiveLabel] /\ w \in Threads
      /\ running \in [Workers -> Services \cup {NoService}]
      /\ \A l : Goto(w, l) =>
           pc'[w] = l /\ \A v \in Workers \ {w} : pc'[v] = pc[v]
  BY DEF ControlType, Goto
<1> USE DEF notPc, restVars, slotVars, At
<1>1. TakeAndComplete(w) => Still /\ (Off \/ CheckDead(w) \/ SetRunning(w))
  <2>1. StartWorker(w) \/ TakeJob(w) \/ FindNoJob(w) => Still /\ Off
    BY <1>0 DEF StartWorker, TakeJob, FindNoJob
  <2>2. CheckDead(w) \/ SetRunning(w) => Still
    BY <1>0 DEF CheckDead, SetRunning
  <2>3. Complete(w) \/ CompleteBlocked(w) => Still /\ Off
    BY <1>0 DEF Complete, CompleteBlocked, CompleteTo
  <2>4. CompleteOwned(w) \/ DispatchForSelf(w) => Still /\ Off
    BY <1>0 DEF CompleteOwned, DispatchForSelf, CompleteTo
  <2>5. CompleteSelf(w) => Still /\ Off
    BY <1>0 DEF CompleteSelf, CompleteTo
  <2>6. CompleteSelfFails(w) => Still /\ Off
    BY <1>0 DEF CompleteSelfFails
  <2> HIDE DEF Still, Off
  <2> QED
    BY <2>1, <2>2, <2>3, <2>4, <2>5, <2>6 DEF TakeAndComplete
<1>2. ResumeService(w) => Still /\ Off
  BY <1>0
  DEF ResumeService, Yield, Post, Quit, QuitRoot, RootNew, RootKill, RootInit,
      RootReap, Finish
<1>3. ScheduleDispatch(w) => Still /\ Off
  BY <1>0
  DEF ScheduleDispatch, CollectDone, CollectEnd, DispatchJob, DispatchSignal,
      NoSignal, DispatchEnd, AssignJob, WakeAssigned, AssignEnd, DispatchVars
<1>4. ScheduleDispatchWorker(w) => Still /\ Off
  BY <1>0, <1>3
  DEF ScheduleDispatchWorker, Acquire, AcquireFails, Steal, StealNothing,
      Release, AfterPass
<1>5. NoJob(w) => Still /\ Off
  BY <1>0
  DEF NoJob, Deactivate, CheckLast, LookAgain, DeactivateAgain, CountDown,
      GoToSleep, SetSleeping, WaitEvent, ClearSleeping, Awake
<1>6. QuitWorker(w) => Still /\ Off
  BY <1>0 DEF QuitWorker, WakeAll, SeeTerm, ExitWorker
<1> QED
  BY <1>1, <1>2, <1>4, <1>5, <1>6 DEF WorkerStep

(* So the workers run on what they ran, but for the one that takes a job; *)
LEMMA WorkerRunsOn ==
  ASSUME TypeInv, Control, SlotsApart, NEW w \in Workers, WorkerStep(w)
  PROVE  /\ CheckDead(w) \/ RunOn({})
         /\ ResumeService(w) => RunOn({running[w]})
<1>0. ControlType
  BY ControlTypeHolds
<1>1. /\ \A v \in Workers \ {w} : pc'[v] = pc[v] /\ running'[v] = running[v]
      /\ pc'[w] \in {"set", "resume"} => CheckDead(w) \/ SetRunning(w)
  BY <1>0, WorkerRuns
<1>2. \A v \in Workers : pc[v] \in {"set", "resume"} => running[v] \in Services
  BY RunningPlaced
<1>3. SetRunning(w) => pc[w] = "set" /\ running'[w] = running[w]
  BY DEF SetRunning, At, slotVars
<1>4. CheckDead(w) \/ RunOn({})
  BY <1>1, <1>2, <1>3 DEF RunOn
<1>5. ResumeService(w) => RunOn({running[w]})
  <2> SUFFICES ASSUME ResumeService(w) PROVE RunOn({running[w]})
    OBVIOUS
  <2>1. pc[w] = "resume"
    BY DEF ResumeService, Yield, Post, Quit, QuitRoot, RootNew, RootKill,
           RootInit, RootReap, At
  <2>2. ~CheckDead(w) /\ ~SetRunning(w) /\ running[w] # NoService
    BY <1>2, <2>1, PoolAssumption DEF CheckDead, SetRunning, At
  <2>3. \A v \in Workers \ {w} : running[v] # running[w]
    BY <2>2 DEF SlotsApart
  <2> QED
    BY <1>1, <1>2, <2>2, <2>3 DEF RunOn
<1> QED
  BY <1>4, <1>5

(* exclusive threads run no service of a worker. *)
LEMMA ExclusiveRunsOn ==
  ASSUME TypeInv, Control, NEW x \in Exclusives, ExclusiveStep(x)
  PROVE  RunOn({})
<1> DEFINE Still == \A v \in Workers : pc'[v] = pc[v] /\ running'[v] = running[v]
<1>0. /\ \A l : Goto(x, l) => \A v \in Workers : pc'[v] = pc[v]
  BY ControlTypeHolds DEF ControlType, Goto
<1> USE DEF notPc, restVars, slotVars
<1>1. ExclusiveResume(x) => Still
  BY <1>0
  DEF ExclusiveResume, LoopExclusive, ExclusiveYield, ExclusiveSend,
      ExclusivePost, ExclusiveQuit, ExitExclusive
<1>2. ScheduleDispatch(x) => Still
  BY <1>0
  DEF ScheduleDispatch, CollectDone, CollectEnd, DispatchJob, DispatchSignal,
      NoSignal, DispatchEnd, AssignJob, WakeAssigned, AssignEnd, DispatchVars
<1>3. ExclusiveMessage(x) => Still
  BY <1>0, <1>2
  DEF ExclusiveMessage, TakeOut, Spin, DispatchOut, Send, SendEnd,
      CountSleepers, WakeSome, WakeEnd, ReleaseExclusive
<1>4. Still
  BY <1>1, <1>3 DEF ExclusiveStep
<1> QED
  BY <1>4, RunningPlaced DEF RunOn
(***************************************************************************)
(* What a VM does when it is resumed.                                      *)
(***************************************************************************)
(* A pool that could take the place of the pool: nobody died. *)
Unhurt(P) == PoolOK(P) /\ PoolSignals(P) /\ Calm(pool, P, {})

(* One change more, *)
LEMMA UnhurtAlike ==
  ASSUME NEW P, Unhurt(P), NEW R, PoolOK(R), Alike(P, R)
  PROVE  Unhurt(R)
<1>1. PoolSignals(R) /\ Calm(P, R, {})
  BY AlikeSignals DEF Unhurt
<1> QED
  BY <1>1 DEF Unhurt, Calm

(* a message that is sent, *)
LEMMA UnhurtSend ==
  ASSUME NEW P, Unhurt(P), NEW s \in Services, NEW m \in Message, ~Deadly(m)
  PROVE  Unhurt(ServiceSendMessage(P, s, m))
<1>1. PoolOK(P)
  BY DEF Unhurt
<1> QED
  BY <1>1, SendMessageOK, SendMessageAlike, UnhurtAlike

(* and the end of a turn. *)
LEMMA UnhurtFinish ==
  ASSUME NEW w \in Workers, running[w] \in Services,
         pool[running[w]].status # "dead", NEW P, Unhurt(P), Finish(w, P)
  PROVE  Unhurt(pool')
<1> DEFINE s == running[w]
           R == ServiceStatusSet(P, s, "done")
<1>1. s \in Services /\ pool' = R
  BY DEF Finish
<1>2. P[s].status # "dead" /\ PoolOK(P)
  BY DEF Unhurt, Calm
<1>3. "done" \notin {"dead", "absent"} /\ "done" \in Status
  BY DEF Status
<1> HIDE DEF s
<1>4. PoolOK(R) /\ Alike(P, R)
  BY <1>1, <1>2, <1>3, StatusSetOK, StatusAlike
<1> HIDE DEF R
<1>5. Unhurt(R)
  BY <1>4, UnhurtAlike
<1> QED
  BY <1>1, <1>5

(* What a VM reads, unless it is a signal that root reads, *)
LEMMA ConsumedUnhurt ==
  ASSUME TypeInv, PoolSignals(pool), NEW s \in Services, ~MustReap(s)
  PROVE  Unhurt(Consumed(s))
<1>1. Unhurt(pool) /\ PoolOK(pool)
  BY DEF Unhurt, Calm, TypeInv
<1>2. Alike(pool, ServiceReadReceipt(pool, s))
  BY <1>1, ReadReceiptAlike
<1>3. pool[s].receipt = "none" => Alike(pool, ServicePopMessage(pool, s))
  BY <1>1, PopMessageAlike DEF MustReap, Deadly
<1>4. Alike(pool, Consumed(s)) /\ PoolOK(Consumed(s))
  BY <1>2, <1>3, ConsumedOK DEF Consumed
<1> QED
  BY <1>1, <1>4, UnhurtAlike

(* What services ask of each other and of SYSTEM is no signal. *)
LEMMA NoSignalAsked ==
  /\ \A s, d, n : ~Deadly(Request(s, d, n))
  /\ \A s : ~Deadly(Command("new", s)) /\ ~Deadly(Command("del", s))
            /\ ~Deadly(Command("hang", s))
BY DEF Request, Command, Deadly

(* A service that ends by itself sends its signal, *)
LEMMA DeathSignals ==
  ASSUME NEW P, Unhurt(P), NEW s \in Services \ {Root},
         P[s].status # "absent"
  PROVE  LET R == Death(P, s) IN PoolSignals(R) /\ Calm(pool, R, {s})
<1> DEFINE R == Death(P, s)
<1>1. PoolOK(P) /\ PoolSignals(P) /\ Calm(pool, P, {}) /\ Root \in Services
  BY PoolAssumption DEF Unhurt
<1>2. \A t \in Services :
        /\ R[t].bounce = P[t].bounce /\ R[t].msg = P[t].msg
        /\ R[t].status = IF t = s THEN "dead" ELSE P[t].status
        /\ R[t].out = IF t = s THEN Signal(s) ELSE P[t].out
  BY <1>1
  DEF Death, ServiceSendSignal, ServiceStatusSet, Exists, PoolOK, Service
<1>3. \A m \in Ids(P[Root].msg) : m.from \in Services
  BY <1>1, IdsIn DEF PoolOK, Service, Message
<1> HIDE DEF R
<1>4. PoolSignals(R)
  BY <1>1, <1>2, <1>3 DEF PoolSignals
<1>5. Calm(pool, R, {s})
  BY <1>1, <1>2 DEF Calm
<1> QED
  BY <1>4, <1>5 DEF R

(* root none. *)
LEMMA RootDies ==
  ASSUME NEW P, Unhurt(P)
  PROVE  LET R == ServiceStatusSet(P, Root, "dead")
         IN  PoolSignals(R) /\ Calm(pool, R, {Root})
<1> DEFINE R == ServiceStatusSet(P, Root, "dead")
<1>1. PoolOK(P) /\ PoolSignals(P) /\ Calm(pool, P, {}) /\ Root \in Services
  BY PoolAssumption DEF Unhurt
<1>2. \A t \in Services :
        /\ R[t].bounce = P[t].bounce /\ R[t].msg = P[t].msg
        /\ R[t].out = P[t].out
        /\ R[t].status = IF t = Root THEN "dead" ELSE P[t].status
  BY <1>1 DEF PoolSignals, ServiceStatusSet, Exists, PoolOK, Service
<1>3. \A m \in Ids(P[Root].msg) : m.from \in Services
  BY <1>1, IdsIn DEF PoolOK, Service, Message
<1> HIDE DEF R
<1>4. PoolSignals(R)
  BY <1>1, <1>2, <1>3 DEF PoolSignals
<1>5. Calm(pool, R, {Root})
  BY <1>1, <1>2 DEF Calm
<1> QED
  BY <1>4, <1>5 DEF R

(* root reads a signal and closes the service that is dead. *)
LEMMA ReapUnhurt ==
  ASSUME TypeInv, PoolSignals(pool), MustReap(Root)
  PROVE  LET n == NextMessage(pool, Root).from
             P == ServicePopMessage(pool, Root)
         IN  /\ n \in Services /\ ServiceStatusGet(P, n) = "dead"
             /\ Unhurt(ServiceDelete(P, n))
<1> DEFINE h == NextMessage(pool, Root)
           n == h.from
           P == ServicePopMessage(pool, Root)
           D == ServiceDelete(P, n)
<1>0. PoolOK(pool) /\ Root \in Services
  BY PoolAssumption DEF TypeInv
<1>1. Deadly(h) /\ pool[Root].receipt = "none"
  BY DEF MustReap, Deadly
<1>2. /\ pool[Root].bounce = NoMsg /\ pool[Root].msg # <<>>
      /\ h = Head(pool[Root].msg)
  BY <1>0, <1>1 DEF PoolSignals, NextMessage, Deadly
<1>3. pool[Root].msg \in Seq(Message)
  BY <1>0 DEF PoolOK, Service
<1>4. /\ Tail(pool[Root].msg) \in Seq(Message)
      /\ Ids(pool[Root].msg) = Ids(Tail(pool[Root].msg)) \cup {h}
      /\ h \in Message
  BY <1>2, <1>3, IdsHead
<1>5. n \in Services /\ n # Root /\ pool[n].status \in {"dead", "absent"}
  BY <1>1, <1>4 DEF PoolSignals, Message
<1>6. PoolOK(P)
  BY <1>0, <1>1, PopMessageOK
<1>7. \A t \in Services :
        /\ P[t].status = pool[t].status /\ P[t].out = pool[t].out
        /\ P[t].bounce = pool[t].bounce
        /\ P[t].msg = IF t = Root THEN Tail(pool[Root].msg) ELSE pool[t].msg
  BY <1>0, <1>2 DEF ServicePopMessage, PoolOK, Service
<1>8. \A m \in Ids(Tail(pool[Root].msg)) : m.from \in Services
  BY <1>4, IdsIn DEF Message
<1> HIDE DEF P, n, h
<1>9. ServiceStatusGet(P, n) = "dead"
  BY <1>5, <1>7 DEF ServiceStatusGet, Exists
<1>10. PoolOK(D)
  BY <1>6, NewInitDeleteOK
<1>11. \A t \in Services :
         /\ t # n => /\ D[t].status = pool[t].status
                     /\ D[t].out = pool[t].out /\ D[t].bounce = pool[t].bounce
         /\ t = n => /\ D[t].status = "absent" /\ D[t].out = NoMsg
                     /\ D[t].bounce = NoMsg
  BY <1>6, <1>7 DEF ServiceDelete, Absent, EmptyService, PoolOK
<1>12. D[Root].msg = Tail(pool[Root].msg)
  BY <1>0, <1>5, <1>6, <1>7 DEF ServiceDelete, PoolOK
<1> HIDE DEF D
<1>13. ~Deadly(NoMsg) /\ \A t \in Services : Signal(t) = h => t = n
  BY SignalIs DEF Deadly, n
<1>14. \A t \in Services :
         /\ Deadly(D[t].out) =>
              D[t].out = Signal(t) /\ D[t].status = "dead" /\ t # Root
         /\ ~Deadly(D[t].bounce)
         /\ D[t].status = "dead" /\ t # Root =>
              D[t].out = Signal(t) \/ Signal(t) \in Ids(D[Root].msg)
  BY <1>4, <1>11, <1>12, <1>13 DEF PoolSignals
<1>15. \A m \in Ids(D[Root].msg) : Deadly(m) =>
         m.from # Root /\ D[m.from].status \in {"dead", "absent"}
  BY <1>4, <1>8, <1>11, <1>12 DEF PoolSignals
<1>16. PoolSignals(D)
  BY <1>0, <1>5, <1>11, <1>14, <1>15 DEF PoolSignals
<1>17. Calm(pool, D, {})
  BY <1>11, <1>13 DEF Calm
<1> QED
  BY <1>5, <1>9, <1>10, <1>16, <1>17 DEF Unhurt, D, P, n, h
(* Whatever a VM does, nobody dies but the service that runs. *)
LEMMA ResumeServiceSignals ==
  ASSUME TypeInv, PlaceInv, Control, Killable = {}, DeathInv,
         NEW w \in Workers, ResumeService(w)
  PROVE  PoolSignals(pool') /\ Calm(pool, pool', {running[w]})
<1> DEFINE s == running[w]
           C == Consumed(s)
           Kept == PoolSignals(pool') /\ Calm(pool, pool', {s})
<1>1. pc[w] = "resume"
  BY DEF ResumeService, Yield, Post, Quit, QuitRoot, RootNew, RootKill,
         RootInit, RootReap, At
<1>2. s \in Services /\ pool[s].status # "dead" /\ Root \in Services
  BY <1>1, RunningPlaced, PoolAssumption DEF DeathInv, RunsAlive
<1>3. PoolSignals(pool) /\ PoolOK(pool) /\ Unhurt(pool)
  BY DEF DeathInv, TypeInv, Unhurt, Calm
<1>4. ~MustReap(s) => Unhurt(C)
  BY <1>2, <1>3, ConsumedUnhurt
<1>5. ASSUME NEW P, Unhurt(P), Finish(w, P) PROVE Kept
  <2>1. Unhurt(pool')
    BY <1>2, <1>5, UnhurtFinish
  <2> QED
    BY <2>1 DEF Unhurt, Calm
<1>6. ASSUME NEW m \in Message, ~Deadly(m), Free(s),
             Finish(w, ServiceSendMessage(C, s, m))
      PROVE  Kept
  <2>1. Unhurt(C)
    BY <1>4, <1>6 DEF Free
  <2>2. Unhurt(ServiceSendMessage(C, s, m))
    <3> HIDE DEF C, s
    <3> QED
      BY <1>2, <1>6, <2>1, UnhurtSend
  <2> QED
    BY <1>5, <1>6, <2>2
<1>7. CASE Yield(w)
  BY <1>4, <1>5, <1>7 DEF Yield, Free
<1>8. CASE Post(w)
  <2>1. PICK d \in Addressees :
          Free(s) /\ Finish(w, ServiceSendMessage(C, s, Request(s, d, 0)))
    BY <1>8 DEF Post
  <2>2. Request(s, d, 0) \in Message /\ ~Deadly(Request(s, d, 0))
    BY <1>2, SchedulerAssumption, RequestType, NoSignalAsked
  <2> QED
    BY <1>6, <2>1, <2>2
<1>9. CASE Quit(w)
  <2>1. /\ s # Root
        /\ pool' = IF Exists(pool, s) THEN Death(C, s) ELSE pool
        /\ Exists(pool, s) => Free(s)
    BY <1>9 DEF Quit
  <2>2. CASE ~Exists(pool, s)
    BY <1>3, <2>1, <2>2 DEF Calm
  <2>3. CASE Exists(pool, s)
    <3>1. Unhurt(C)
      BY <1>4, <2>1, <2>3 DEF Free
    <3>2. C[s].status # "absent"
      BY <1>2, <2>3, ConsumedHarmless DEF Exists
    <3>3. pool' = Death(C, s)
      BY <2>1, <2>3
    <3>4. LET R == Death(C, s) IN PoolSignals(R) /\ Calm(pool, R, {s})
      <4> HIDE DEF C, s
      <4> QED
        BY <1>2, <2>1, <3>1, <3>2, DeathSignals
    <3> HIDE DEF C
    <3> QED
      BY <3>3, <3>4
  <2> QED
    BY <2>2, <2>3
<1>10. CASE QuitRoot(w)
  <2>1. s = Root /\ Free(s) /\ pool' = ServiceStatusSet(C, Root, "dead")
    BY <1>10 DEF QuitRoot
  <2>2. Unhurt(C)
    BY <1>4, <2>1 DEF Free
  <2> HIDE DEF C
  <2>3. LET R == ServiceStatusSet(C, Root, "dead")
        IN  PoolSignals(R) /\ Calm(pool, R, {Root})
    BY <2>2, RootDies
  <2> QED
    BY <2>1, <2>3
<1>11. CASE RootNew(w)
  <2>1. Free(s) /\ Finish(w, ServiceSendMessage(C, s, Command("new", NoService)))
    BY <1>11 DEF RootNew
  <2> QED
    BY <1>6, <2>1, CommandType, NoSignalAsked
<1>12. CASE RootKill(w)
  BY <1>12 DEF RootKill
<1>13. CASE RootInit(w)
  <2> DEFINE n == pool[Root].bounce.to
             P == ServiceReadReceipt(pool, Root)
             P1 == ServiceInit(P, n)
             P2 == ServiceDelete(P, n)
             m1 == Request(Root, n, 0)
             m2 == Command("hang", n)
  <2>1. /\ pool[Root].receipt = "response"
        /\ \/ Finish(w, ServiceSendMessage(P1, Root, m1))
           \/ Finish(w, ServiceSendMessage(P2, Root, m2))
    BY <1>13 DEF RootInit, MustInit
  <2>2. n \in Services /\ n # Root /\ pool[n].status = "uninitialized"
    BY <1>2, <2>1, PoolAsGood DEF AsGood, PoolPlaced, PoolOK, Settled
  <2>3. PoolOK(P) /\ Alike(pool, P)
    BY <1>2, <1>3, ReadReceiptOK, ReadReceiptAlike
  <2>4. P[n].status = "uninitialized"
    BY <1>2, <1>3, <2>2 DEF ServiceReadReceipt, PoolOK, Service
  <2>5. m1 \in Message /\ m2 \in Message /\ ~Deadly(m1) /\ ~Deadly(m2)
    BY <1>2, <2>2, RequestType, CommandType, NoSignalAsked
  <2> HIDE DEF P, n
  <2>6. Unhurt(P)
    BY <1>3, <2>3, UnhurtAlike
  <2>7. PoolOK(P1) /\ PoolOK(P2)
    BY <2>3, NewInitDeleteOK
  <2>8. /\ P[n].status # "dead" /\ P[n].status # "absent"
        /\ "idle" \notin {"dead", "absent"}
    BY <2>4
  <2>9. Alike(P, P1)
    BY <2>2, <2>3, <2>8, StatusAlike DEF ServiceInit
  <2>10. Alike(P, P2)
    BY <2>2, <2>3, <2>6, <2>8, DeleteAlike DEF Unhurt
  <2> HIDE DEF P1, P2, m1, m2
  <2>11. /\ Unhurt(ServiceSendMessage(P1, Root, m1))
         /\ Unhurt(ServiceSendMessage(P2, Root, m2))
    BY <1>2, <2>5, <2>6, <2>7, <2>9, <2>10, UnhurtAlike, UnhurtSend
  <2> QED
    BY <1>5, <2>1, <2>11
<1>14. CASE RootReap(w)
  <2> DEFINE n == NextMessage(pool, Root).from
             P == ServicePopMessage(pool, Root)
             D == ServiceDelete(P, n)
             m == Command("del", n)
  <2>1. /\ MustReap(Root)
        /\ Finish(w, IF ServiceStatusGet(P, n) # "dead" THEN P
                     ELSE ServiceSendMessage(D, Root, m))
    BY <1>14 DEF RootReap
  <2>2. n \in Services /\ ServiceStatusGet(P, n) = "dead" /\ Unhurt(D)
    BY <1>3, <2>1, ReapUnhurt
  <2>3. Finish(w, ServiceSendMessage(D, Root, m))
    BY <2>1, <2>2
  <2>4. m \in Message /\ ~Deadly(m)
    BY <2>2, CommandType, NoSignalAsked
  <2> HIDE DEF D, m
  <2>5. Unhurt(ServiceSendMessage(D, Root, m))
    BY <1>2, <2>2, <2>4, UnhurtSend
  <2> QED
    BY <1>5, <2>3, <2>5
<1> QED
  BY <1>7, <1>8, <1>9, <1>10, <1>11, <1>12, <1>13, <1>14 DEF ResumeService

(* The service that runs is on its way, dead or not. *)
LEMMA ResumeServiceDeath ==
  ASSUME TypeInv, PlaceInv, Control, Killable = {}, DeathInv,
         NEW w \in Workers, ResumeService(w)
  PROVE  DeathInv'
<1>0. SlotsApart /\ WorkerStep(w)
  BY DEF PlaceInv, WorkerStep
<1>1. PoolSignals(pool') /\ Calm(pool, pool', {running[w]})
  BY ResumeServiceSignals
<1>2. pc[w] = "resume" /\ UNCHANGED <<schedule, slots, mail>>
  BY DEF ResumeService, Yield, Post, Quit, QuitRoot, RootNew, RootKill,
         RootInit, RootReap, At, Finish, slotVars, frameVars, exclusiveVars,
         slots, mail
<1>3. running[w] \in Placed
  BY <1>2, RunningPlaced
<1>4. Placed' = Placed
  BY <1>2 DEF Placed, Held, slots
<1>5. NoDeadlyMail'
  BY <1>2 DEF DeathInv, NoDeadlyMail, mail
<1>6. RunOn({running[w]})
  BY <1>0, WorkerRunsOn
<1>7. Keeps
  BY ResumeServiceKeeps
<1> DEFINE X == {running[w]}
<1>8. \A t \in Services \cap X : t \in Placed'
  BY <1>3, <1>4
<1> HIDE DEF X
<1>9. PICK Y : Y = X
  OBVIOUS
<1>10. Calm(pool, pool', Y) /\ RunOn(Y)
       /\ \A t \in Services \cap Y : t \in Placed'
  BY <1>1, <1>6, <1>8, <1>9 DEF X
<1> QED
  BY <1>1, <1>5, <1>7, <1>10, DeathStep
(***************************************************************************)
(* The scheduling pass and the exclusive threads.                          *)
(***************************************************************************)
LEMMA DispatchJobSignals ==
  ASSUME TypeInv, PlaceInv, DeathInv, NEW t \in Threads, DispatchJob(t)
  PROVE  PoolSignals(pool') /\ Calm(pool, pool', {})
<1> DEFINE id == Head(doneJob)
           m == pool[id].out
           k == [Kernel EXCEPT !.pool = ServiceMessageOut(pool, id)]
<1>0. PlaceType /\ PoolOK(pool) /\ PoolSignals(pool)
  BY PlaceTypeHolds DEF TypeInv, DeathInv
<1>1. PICK n \in NewIds(m) :
        SetKernel(Park(IF m = NoMsg THEN k
                       ELSE DispatchOutMessage(k, id, m, n), id))
  BY DEF DispatchJob
<1>2. /\ doneJob # <<>> /\ doneJob' = Tail(doneJob)
      /\ UNCHANGED <<ready, running, done, job>>
      /\ pool[id].status # "dead"
  BY DEF DispatchJob, DispatchVars, slotVars, ServiceStatusGet
<1>3. id \in Services
  BY <1>0, <1>2, HeadGone
<1>4. /\ KernelOK(k) /\ KernelPlaced(k, Held, {}) /\ k.fresh = fresh
      /\ k.pool[id].status = pool[id].status
      /\ m # NoMsg => m \in Message /\ MessageKept(k.pool, k.fresh, m)
  BY <1>3, MessageTaken
<1>5. n \in k.fresh \cup {NoService}
  BY <1>4 DEF NewIds
<1>6. ~Deadly(m)
  BY <1>0, <1>2, <1>3 DEF PoolSignals
<1>7. Alike(pool, k.pool)
  <2> DEFINE P == ServiceMessageOut(pool, id)
  <2>1. Alike(pool, P)
    BY <1>0, <1>3, <1>6, MessageOutAlike
  <2> HIDE DEF P
  <2>2. k.pool = P
    BY DEF Kernel, P
  <2> QED
    BY <2>1, <2>2
<1>8. PoolSignals(k.pool) /\ Calm(pool, k.pool, {})
  BY <1>0, <1>7, AlikeSignals
<1> HIDE DEF k, m, id
<1> DEFINE o == IF m = NoMsg THEN k ELSE DispatchOutMessage(k, id, m, n)
<1>9. KernelOK(o) /\ KernelSignals(k, o)
  <2>1. CASE m = NoMsg
    BY <1>4, <2>1 DEF KernelSignals, Calm
  <2>2. CASE m # NoMsg
    <3>1. KernelOK(DispatchOutMessage(k, id, m, n))
      BY <1>0, <1>3, <1>4, <1>5, <2>2, DispatchOutMessageOK DEF PlaceType
    <3>2. PoolPlaced(k.pool, k.fresh, Ids(k.schedule) \cup Held)
      BY <1>4 DEF KernelPlaced
    <3>3. KernelSignals(k, DispatchOutMessage(k, id, m, n))
      BY <1>3, <1>4, <1>5, <1>6, <2>2, <3>2, DispatchOutMessageSignals
    <3> QED
      BY <2>2, <3>1, <3>3
  <2> QED
    BY <2>1, <2>2
<1>10. SetKernel(Park(o, id))
  BY <1>1
<1> HIDE DEF o
<1>11. PoolSignals(o.pool) /\ Calm(k.pool, o.pool, {})
  BY <1>8, <1>9 DEF KernelSignals
<1>12. o.pool[id].status # "dead" /\ PoolOK(o.pool)
  BY <1>2, <1>3, <1>4, <1>9, <1>11 DEF Calm, KernelOK
<1> DEFINE l == Park(o, id)
<1>13. Alike(o.pool, l.pool) /\ pool' = l.pool
  BY <1>3, <1>9, <1>10, <1>12, ParkAlike DEF SetKernel
<1> HIDE DEF l
<1>14. PoolSignals(l.pool) /\ Calm(o.pool, l.pool, {})
  BY <1>11, <1>12, <1>13, AlikeSignals
<1>15. Calm(pool, l.pool, {})
  BY <1>8, <1>11, <1>14 DEF Calm
<1> QED
  BY <1>13, <1>14, <1>15

(* (the death signal of one that died) *)
LEMMA DispatchSignalSignals ==
  ASSUME TypeInv, DeathInv, SignalHasRoom, NEW t \in Threads, DispatchSignal(t)
  PROVE  PoolSignals(pool') /\ Calm(pool, pool', {})
<1> DEFINE id == Head(doneJob)
           j == [Kernel EXCEPT !.pool = ServiceMessageOut(pool, id)]
<1>0. PlaceType /\ KernelOK(Kernel) /\ Kernel.pool = pool
  BY PlaceTypeHolds, KernelIsOK DEF Kernel
<1>1. /\ doneJob # <<>> /\ doneJob' = Tail(doneJob)
      /\ UNCHANGED <<ready, running, done, job>>
      /\ pool' = SignalRoot(j, id, pool[id].out).pool
      /\ IsSignal(pool[id].out)
  BY DEF DispatchSignal, DispatchVars, slotVars, SetKernel
<1>2. id \in Services
  BY <1>0, <1>1, HeadGone
<1>3. id # Root /\ pool[id].status = "dead" /\ pool[id].out = Signal(id)
  BY <1>1, <1>2 DEF DeathInv, PoolSignals, Deadly, IsSignal
<1>4. PushResult(pool, Root) # "block"
  BY <1>1, <1>3 DEF DispatchSignal, At, SignalHasRoom
<1> HIDE DEF id
<1>5. LET i == [Kernel EXCEPT !.pool = ServiceMessageOut(@, id)]
          l == SignalRoot(i, id, Signal(id))
      IN  PoolSignals(l.pool) /\ Calm(Kernel.pool, l.pool, {})
  BY <1>0, <1>2, <1>3, <1>4, SignalRootSignals DEF DeathInv
<1>6. [Kernel EXCEPT !.pool = ServiceMessageOut(@, id)] = j
  BY <1>0 DEF Kernel
<1> HIDE DEF j
<1> DEFINE P == SignalRoot(j, id, Signal(id)).pool
<1>7. PoolSignals(P) /\ Calm(pool, P, {}) /\ pool' = P
  BY <1>0, <1>1, <1>3, <1>5, <1>6
<1> QED
  BY <1>7

(* The pass *)
LEMMA ScheduleDispatchDeath ==
  ASSUME TypeInv, PlaceInv, DeathInv, SignalHasRoom, NEW t \in Threads,
         ScheduleDispatch(t), RunOn({})
  PROVE  DeathInv'
<1>0. Keeps
  BY ScheduleDispatchKeeps
<1>1. UNCHANGED exclusiveVars
  BY DEF ScheduleDispatch, CollectDone, CollectEnd, DispatchJob,
         DispatchSignal, NoSignal, DispatchEnd, AssignJob, WakeAssigned,
         AssignEnd, DispatchVars, notPc, restVars
<1>2. NoDeadlyMail'
  BY <1>1 DEF DeathInv, NoDeadlyMail, exclusiveVars
<1>3. CASE DispatchJob(t) \/ DispatchSignal(t)
  <2>1. PoolSignals(pool') /\ Calm(pool, pool', {})
    BY <1>3, DispatchJobSignals, DispatchSignalSignals
  <2> QED
    BY <1>0, <1>2, <2>1, DeathStep
<1>4. CASE ~DispatchJob(t) /\ ~DispatchSignal(t)
  <2>1. UNCHANGED pool
    BY <1>4
    DEF ScheduleDispatch, CollectDone, CollectEnd, NoSignal, DispatchEnd,
        AssignJob, WakeAssigned, AssignEnd, notPc, restVars, poolVars
  <2> QED
    BY <1>0, <1>2, <2>1, DeathStill
<1> QED
  BY <1>3, <1>4

(* Every step of a worker keeps the invariant, *)
LEMMA WorkerDeath ==
  ASSUME TypeInv, OneScheduler, Control, PlaceInv, Killable = {}, DeathInv,
         SignalHasRoom, NEW w \in Workers, WorkerStep(w)
  PROVE  DeathInv'
<1> USE DEF notPc, restVars, poolVars
<1>0. Keeps /\ ControlType /\ w \in Threads /\ SlotsApart
  BY WorkerKeeps, ControlTypeHolds DEF Threads, PlaceInv
<1>1. NoDeadlyMail \/ ~DeathInv
  BY DEF DeathInv
<1>2. CASE ResumeService(w)
  BY <1>2, ResumeServiceDeath
<1>3. CASE CheckDead(w)
  <2>1. UNCHANGED <<pool, running, pending, sending>>
    BY <1>3 DEF CheckDead, slotVars, exclusiveVars
  <2>2. /\ \A v \in Workers \ {w} : pc'[v] = pc[v]
        /\ pc'[w] = "set" => ServiceStatusGet(pool, running[w]) # "dead"
        /\ pc'[w] \in {"set", "complete"}
    BY <1>0, <1>3 DEF CheckDead, Goto, ControlType
  <2>3. RunsAlive'
    BY <2>1, <2>2 DEF DeathInv, RunsAlive, ServiceStatusGet
  <2>4. NoDeadlyMail'
    BY <1>1, <2>1 DEF NoDeadlyMail
  <2> QED
    BY <1>0, <2>1, <2>3, <2>4, DeathStill
<1>4. CASE SetRunning(w)
  <2> DEFINE s == running[w]
             R == ServiceStatusSet(pool, s, "running")
  <2>1. /\ pool' = R /\ UNCHANGED <<pending, sending>> /\ pc[w] = "set"
    BY <1>4 DEF SetRunning, exclusiveVars, At
  <2>2. s \in Services /\ pool[s].status # "dead"
    BY <2>1, RunningPlaced DEF DeathInv, RunsAlive
  <2> HIDE DEF s
  <2>3. /\ PoolOK(pool) /\ PoolSignals(pool)
        /\ "running" \notin {"dead", "absent"}
    BY DEF TypeInv, DeathInv
  <2>4. Alike(pool, R)
    BY <2>2, <2>3, StatusAlike
  <2>5. PoolSignals(R) /\ Calm(pool, R, {})
    BY <2>3, <2>4, AlikeSignals
  <2> HIDE DEF R
  <2>6. NoDeadlyMail'
    BY <1>1, <2>1 DEF NoDeadlyMail
  <2>7. RunOn({})
    BY <1>0, <1>4, WorkerRunsOn DEF CheckDead, SetRunning, At
  <2> QED
    BY <1>0, <2>1, <2>5, <2>6, <2>7, DeathStep
<1>5. CASE ScheduleDispatch(w)
  <2>1. RunOn({})
    BY <1>0, <1>5, WorkerRunsOn
    DEF CheckDead, ScheduleDispatch, CollectDone, CollectEnd, DispatchJob,
        DispatchSignal, NoSignal, DispatchEnd, AssignJob, WakeAssigned,
        AssignEnd, At
  <2> QED
    BY <1>0, <1>5, <2>1, ScheduleDispatchDeath
<1>6. CASE /\ ~ResumeService(w) /\ ~CheckDead(w) /\ ~SetRunning(w)
           /\ ~ScheduleDispatch(w)
  <2>1. TakeAndComplete(w) => UNCHANGED <<pool, exclusiveVars>>
    BY <1>6
    DEF TakeAndComplete, StartWorker, TakeJob, FindNoJob, Complete,
        CompleteBlocked, CompleteOwned, DispatchForSelf, CompleteSelf,
        CompleteSelfFails, exclusiveVars
  <2>2. ScheduleDispatchWorker(w) => UNCHANGED <<pool, exclusiveVars>>
    BY <1>6
    DEF ScheduleDispatchWorker, Acquire, AcquireFails, Steal, StealNothing,
        Release, exclusiveVars
  <2>3. NoJob(w) \/ QuitWorker(w) => UNCHANGED <<pool, exclusiveVars>>
    BY DEF NoJob, Deactivate, CheckLast, LookAgain, DeactivateAgain,
           CountDown, GoToSleep, SetSleeping, WaitEvent, ClearSleeping, Awake,
           QuitWorker, WakeAll, SeeTerm, ExitWorker, exclusiveVars
  <2>4. UNCHANGED <<pool, exclusiveVars>>
    BY <1>6, <2>1, <2>2, <2>3 DEF WorkerStep
  <2>5. NoDeadlyMail'
    BY <1>1, <2>4 DEF NoDeadlyMail, exclusiveVars
  <2>6. RunOn({})
    BY <1>0, <1>6, WorkerRunsOn
  <2> QED
    BY <1>0, <2>4, <2>5, <2>6, DeathStill
<1> QED
  BY <1>2, <1>3, <1>4, <1>5, <1>6
(* An exclusive service reads and posts; the messages it hands over are no
   signals. *)
LEMMA ExclusiveResumeDeath ==
  ASSUME TypeInv, PlaceInv, DeathInv, NEW x \in Exclusives,
         ExclusiveResume(x), RunOn({})
  PROVE  DeathInv'
<1>0. Keeps
  BY ExclusiveResumeKeeps
<1>1. /\ x \in Services /\ x # Root /\ NoDeadlyMail /\ PoolSignals(pool)
      /\ sending \in [Exclusives -> Seq(Mail)]
  BY SchedulerAssumption DEF DeathInv, TypeInv, TypeOK
<1>2. CASE ExclusiveSend(x)
  <2>0. posts \in Nat
    BY SchedulerAssumption DEF TypeInv, TypeOK
  <2>1. UNCHANGED <<pool, pending>> /\ posts' \in Nat
    BY <1>2, <2>0 DEF ExclusiveSend
  <2>2. PICK m, q : /\ m \in Mail /\ ~Deadly(m)
                    /\ q = Append(sending[x], m)
                    /\ sending' = [sending EXCEPT ![x] = q]
    <3>1. PICK d \in Addressees \ {System} :
            sending' = [sending EXCEPT ![x] = Append(@, Request(x, d, posts'))]
      BY <1>2, Zenon DEF ExclusiveSend
    <3>2. d \in Services
      BY SchedulerAssumption
    <3>3. PICK n \in Nat : n = posts'
      BY <2>1
    <3>4. Request(x, d, n) \in Mail /\ ~Deadly(Request(x, d, n))
      <4>1. Request(x, d, n) \in Message
        BY <1>1, <3>2, RequestType
      <4> QED
        BY <3>2, <4>1, NoSignalAsked DEF Mail, Request
    <3> QED
      BY <3>1, <3>3, <3>4
  <2>3. sending[x] \in Seq(Mail)
    BY <1>1
  <2>4. Ids(q) = Ids(sending[x]) \cup {m}
    BY <2>2, <2>3, IdsAppend
  <2>5. NoDeadlyMail'
    BY <1>1, <2>1, <2>2, <2>4 DEF NoDeadlyMail
  <2> QED
    BY <1>0, <2>1, <2>5, DeathStill
<1>3. ASSUME Unhurt(pool'), UNCHANGED exclusiveVars
      PROVE  DeathInv'
  <2>1. NoDeadlyMail'
    BY <1>1, <1>3 DEF NoDeadlyMail, exclusiveVars
  <2>2. PoolSignals(pool') /\ Calm(pool, pool', {})
    BY <1>3 DEF Unhurt
  <2> QED
    BY <1>0, <2>1, <2>2, DeathStep
<1>4. Unhurt(Consumed(x))
  BY <1>1, ConsumedUnhurt DEF MustReap
<1>5. CASE ExclusiveYield(x)
  <2>1. pool' = Consumed(x) /\ UNCHANGED exclusiveVars
    BY <1>5 DEF ExclusiveYield
  <2> QED
    BY <1>3, <1>4, <2>1
<1>6. CASE ExclusivePost(x)
  <2>1. PICK d \in Addressees :
          pool' = ServiceSendMessage(Consumed(x), x, Request(x, d, 0))
    BY <1>6 DEF ExclusivePost
  <2>2. Request(x, d, 0) \in Message /\ ~Deadly(Request(x, d, 0))
    BY <1>1, SchedulerAssumption, RequestType, NoSignalAsked
  <2> DEFINE C == Consumed(x)
             m == Request(x, d, 0)
  <2>3. Unhurt(C) /\ m \in Message /\ ~Deadly(m)
        /\ pool' = ServiceSendMessage(C, x, m)
    BY <1>4, <2>1, <2>2
  <2> HIDE DEF C, m
  <2>4. Unhurt(ServiceSendMessage(C, x, m))
    BY <1>1, <2>3, UnhurtSend
  <2> DEFINE R == ServiceSendMessage(C, x, m)
  <2>5. Unhurt(R) /\ pool' = R
    BY <2>3, <2>4
  <2> HIDE DEF R
  <2> QED
    BY <1>3, <1>6, <2>5 DEF ExclusivePost
<1>7. CASE LoopExclusive(x) \/ ExclusiveQuit(x) \/ ExitExclusive(x)
  <2>1. UNCHANGED <<pool, exclusiveVars>>
    BY <1>7
    DEF LoopExclusive, ExclusiveQuit, ExitExclusive, notPc, restVars, poolVars
  <2>2. NoDeadlyMail'
    BY <1>1, <2>1 DEF NoDeadlyMail, exclusiveVars
  <2> QED
    BY <1>0, <2>1, <2>2, DeathStill
<1> QED
  BY <1>2, <1>5, <1>6, <1>7 DEF ExclusiveResume

(* exclusive_message *)
LEMMA ExclusiveMessageDeath ==
  ASSUME TypeInv, SendInv, PlaceInv, DeathInv, SignalHasRoom, Keeps,
         NEW x \in Exclusives, ExclusiveMessage(x), RunOn({})
  PROVE  DeathInv'
<1> USE DEF notPc, restVars, poolVars
<1>1. /\ x \in Services /\ x \in Threads
      /\ NoDeadlyMail /\ PoolSignals(pool) /\ PoolOK(pool) /\ PlaceType
  BY PlaceTypeHolds, SchedulerAssumption DEF DeathInv, TypeInv, Threads
<1>2. /\ KernelOK(Kernel) /\ Kernel.pool = pool /\ Kernel.fresh = fresh
      /\ PoolPlaced(pool, fresh, Ids(schedule) \cup Held)
  BY KernelNow DEF PlaceInv, KernelPlaced, Kernel
<1>3. CASE TakeOut(x)
  <2> DEFINE R == ServiceMessageOut(pool, x)
  <2>1. /\ pool' = R /\ UNCHANGED sending
        /\ pending' = [pending EXCEPT ![x] = pool[x].out]
    BY <1>3 DEF TakeOut
  <2>2. ~Deadly(pool[x].out)
    BY <1>1, <1>2 DEF PoolSignals, PoolPlaced
  <2>3. Alike(pool, R)
    BY <1>1, <2>2, MessageOutAlike
  <2>4. PoolSignals(R) /\ Calm(pool, R, {})
    BY <1>1, <2>3, AlikeSignals
  <2> HIDE DEF R
  <2>5. NoDeadlyMail'
    BY <1>1, <2>1, <2>2 DEF NoDeadlyMail, PlaceType
  <2> QED
    BY <2>1, <2>4, <2>5, DeathStep
<1>4. CASE DispatchOut(x)
  <2> DEFINE m == pending[x]
             l == DispatchOutMessage(Kernel, x, m, NoService)
  <2>1. /\ UNCHANGED sending
        /\ pending' = [pending EXCEPT ![x] = NoMsg]
        /\ pool' = IF m = NoMsg THEN pool ELSE l.pool
    BY <1>2, <1>4 DEF DispatchOut, SetKernel
  <2>2. /\ ~Deadly(m)
        /\ m # NoMsg => m \in Message /\ MessageKept(pool, fresh, m)
    BY <1>1 DEF NoDeadlyMail, PlaceType, PlaceInv, MailKept
  <2>3. NoDeadlyMail'
    BY <1>1, <2>1 DEF NoDeadlyMail, PlaceType, Deadly
  <2> HIDE DEF m
  <2>4. m # NoMsg => PoolSignals(l.pool) /\ Calm(pool, l.pool, {})
    <3> SUFFICES ASSUME m # NoMsg
                 PROVE  PoolSignals(l.pool) /\ Calm(pool, l.pool, {})
      OBVIOUS
    <3>1. KernelSignals(Kernel, l)
      BY <1>1, <1>2, <2>2, DispatchOutMessageSignals
    <3> HIDE DEF l
    <3> QED
      BY <1>1, <1>2, <3>1 DEF KernelSignals
  <2> HIDE DEF l
  <2>5. PoolSignals(pool') /\ Calm(pool, pool', {})
    <3>1. CASE m = NoMsg
      BY <1>1, <2>1, <3>1 DEF Calm
    <3>2. CASE m # NoMsg
      BY <2>1, <2>4, <3>2
    <3> QED
      BY <3>1, <3>2
  <2> QED
    BY <2>3, <2>5, DeathStep
<1>5. CASE Send(x)
  <2> DEFINE q == sending[x]
             m == Head(q)
             k == Push(Kernel, m)
             l == ScheduleIfIdle(k, m.to)
  <2>1. /\ pc[x] = "send" /\ index > 1 /\ index \in Nat
        /\ UNCHANGED pending
        /\ \/ sending' = [sending EXCEPT ![x] = Append(Tail(q), m)]
           \/ sending' = [sending EXCEPT ![x] = Tail(q)]
        /\ pool' = l.pool \/ UNCHANGED pool
    BY <1>5 DEF Send, At, SetKernel, TypeInv, TypeOK
  <2>2. q \in Seq(Mail) /\ \A o \in Ids(q) : ~Deadly(o)
    BY <1>1 DEF PlaceType, NoDeadlyMail
  <2>3. index - 1 <= Len(q) /\ Len(q) \in Nat
    BY <2>1, <2>2 DEF SendInv
  <2> HIDE DEF q
  <2>4. /\ Tail(q) \in Seq(Mail) /\ m \in Mail
        /\ Ids(q) = Ids(Tail(q)) \cup {m}
    <3>1. q # <<>>
      BY <2>1, <2>2, <2>3
    <3> QED
      BY <2>2, <3>1, IdsHead
  <2> DEFINE r == Tail(q)
  <2>5. r \in Seq(Mail)
    BY <2>4
  <2> HIDE DEF r, m
  <2>6. Ids(Append(r, m)) = Ids(r) \cup {m}
    BY <2>4, <2>5, IdsAppend
  <2>7. \A y \in Exclusives : y # x => sending'[y] = sending[y]
    BY <1>1, <2>1 DEF PlaceType
  <2>8. Ids(sending'[x]) \subseteq Ids(q)
    BY <1>1, <2>1, <2>4, <2>6 DEF PlaceType, r
  <2>9. NoDeadlyMail'
    BY <1>1, <2>1, <2>2, <2>7, <2>8 DEF NoDeadlyMail
  <2>10. m \in Message /\ m.to \in Services /\ ~Deadly(m)
    BY <2>2, <2>4 DEF Mail
  <2>11. KernelOK(k) /\ Alike(pool, k.pool)
    BY <1>2, <2>10, PushOK, KernelAlike
  <2> HIDE DEF k
  <2>12. Alike(k.pool, l.pool)
    BY <2>10, <2>11, ScheduleIfIdleAlike
  <2> HIDE DEF l
  <2>13. Alike(pool, l.pool)
    BY <2>11, <2>12, AlikeTwice
  <2>14. PoolSignals(l.pool) /\ Calm(pool, l.pool, {})
    BY <1>1, <2>13, AlikeSignals
  <2>15. CASE pool' = l.pool
    BY <2>9, <2>14, <2>15, DeathStep
  <2>16. CASE UNCHANGED pool
    BY <2>9, <2>16, DeathStill
  <2> QED
    BY <2>1, <2>15, <2>16
<1>6. CASE ScheduleDispatch(x)
  BY <1>1, <1>6, ScheduleDispatchDeath
<1>7. CASE Spin(x) \/ SendEnd(x) \/ CountSleepers(x) \/ WakeSome(x)
           \/ WakeEnd(x) \/ ReleaseExclusive(x)
  <2>1. UNCHANGED <<pool, exclusiveVars>>
    BY <1>7
    DEF Spin, SendEnd, CountSleepers, WakeSome, WakeEnd, ReleaseExclusive
  <2>2. NoDeadlyMail'
    BY <1>1, <2>1 DEF NoDeadlyMail, exclusiveVars
  <2> QED
    BY <2>1, <2>2, DeathStill
<1> QED
  BY <1>3, <1>4, <1>5, <1>6, <1>7 DEF ExclusiveMessage

(* The program starts with nobody dead. *)
LEMMA DeathInit == Init => DeathInv
<1> SUFFICES ASSUME Init PROVE DeathInv
  OBVIOUS
<1> USE PoolAssumption, SchedulerAssumption
<1>1. /\ \A s \in Services :
           /\ pool[s].out = NoMsg /\ pool[s].bounce = NoMsg
           /\ pool[s].status =
                IF s = Root THEN "schedule"
                ELSE IF s \in Exclusives THEN "exclusive"
                ELSE IF s \in Preloaded THEN "idle" ELSE "absent"
      /\ pool[Root].msg = <<Boot>>
  BY DEF Init, Absent, EmptyService
<1>2. \A m \in Ids(pool[Root].msg) : ~Deadly(m)
  BY <1>1 DEF Ids, Boot, Deadly
<1>3. PoolSignals(pool)
  BY <1>1, <1>2 DEF PoolSignals, Deadly
<1>4. NoDeadlyMail
  BY DEF Init, NoDeadlyMail, Deadly, Ids
<1>5. Escorted /\ RunsAlive
  <2>1. \A w \in Workers : pc[w] = "start"
    BY DEF Init, Threads
  <2> QED
    BY <1>1, <2>1 DEF Escorted, RunsAlive, Deadly
<1> QED
  BY <1>3, <1>4, <1>5 DEF DeathInv

(* Every step keeps the invariant as long as there is room for a signal. *)
LEMMA DeathNext ==
  ASSUME ControlInv, PlaceInv, Killable = {}, DeathInv, SignalHasRoom,
         [Next]_vars
  PROVE  DeathInv'
<1>0. TypeInv /\ OneScheduler /\ SendInv /\ Control
  BY DEF ControlInv, SchedulerInv
<1>1. ASSUME NEW w \in Workers, WorkerStep(w) PROVE DeathInv'
  BY <1>0, <1>1, WorkerDeath
<1>2. ASSUME NEW x \in Exclusives, ExclusiveStep(x) PROVE DeathInv'
  <2>1. RunOn({}) /\ Keeps
    BY <1>0, <1>2, ExclusiveRunsOn, ExclusiveKeeps
  <2> QED
    BY <1>0, <1>2, <2>1, ExclusiveResumeDeath, ExclusiveMessageDeath
    DEF ExclusiveStep
<1>3. ASSUME UNCHANGED vars PROVE DeathInv'
  BY <1>3
  DEF vars, notPc, restVars, poolVars, slotVars, frameVars, exclusiveVars,
      DeathInv, Escorted, NoDeadlyMail, RunsAlive, Placed, Held
<1> QED
  BY <1>1, <1>2, <1>3 DEF Next

(* The invariant says what the property says. *)
LEMMA DeathMeans ==
  ASSUME TypeInv, DeathInv
  PROVE  DeathsKnown
<1>1. DeathIsSignalled
  <2> SUFFICES ASSUME NEW s \in Services \ {Root}, pool[s].status = "dead"
               PROVE  \/ pool[s].out = Signal(s) /\ Places(s) # {}
                      \/ \E i \in DOMAIN pool[Root].msg :
                           pool[Root].msg[i] = Signal(s)
    BY DEF DeathIsSignalled
  <2>1. pool[s].out = Signal(s) \/ Signal(s) \in Ids(pool[Root].msg)
    BY DEF DeathInv, PoolSignals
  <2>2. pool[s].out = Signal(s) => s \in Placed
    BY SignalIs DEF DeathInv, Escorted
  <2>3. s \in Placed => Places(s) # {}
    BY PlacesHold DEF Placed
  <2> QED
    BY <2>1, <2>2, <2>3 DEF Ids
<1>2. SignalMeansDead
  <2> SUFFICES ASSUME NEW i \in DOMAIN pool[Root].msg,
                      pool[Root].msg[i].type = "signal"
               PROVE  ServiceStatusGet(pool, pool[Root].msg[i].from) = "dead"
    BY DEF SignalMeansDead
  <2>1. pool[Root].msg \in Seq(Message)
    BY PoolAssumption DEF TypeInv, PoolOK, Service
  <2>2. pool[Root].msg[i] \in Message /\ pool[Root].msg[i] \in Ids(pool[Root].msg)
    BY <2>1 DEF Ids
  <2>3. Deadly(pool[Root].msg[i])
    BY <2>2, MessageAssumption DEF Deadly
  <2> QED
    BY <2>2, <2>3 DEF DeathInv, PoolSignals, ServiceStatusGet, Exists
<1> QED
  BY <1>1, <1>2 DEF DeathsKnown

(* When root kills nobody, and its queue is not full when the pass comes to a
   death signal, no death is forgotten and root closes none that lives. *)
THEOREM DeathsHeard ==
  Killable = {} => (Spec /\ []SignalHasRoom => []DeathsKnown)
<1> SUFFICES ASSUME Killable = {}
             PROVE  Spec /\ []SignalHasRoom => []DeathsKnown
  OBVIOUS
<1>1. Init => DeathInv
  BY DeathInit
<1>2. ControlInv /\ PlaceInv /\ DeathInv /\ SignalHasRoom /\ [Next]_vars
        => DeathInv'
  BY DeathNext
<1>3. ControlInv /\ DeathInv => DeathsKnown
  BY DeathMeans DEF ControlInv, SchedulerInv
<1>4. Spec => []PlaceInv
  BY PlaceInvariant
<1> QED
  BY <1>1, <1>2, <1>3, <1>4, ControlInvariant, PTL DEF Spec

=============================================================================
