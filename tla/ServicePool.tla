---------------------------- MODULE ServicePool ----------------------------
(***************************************************************************)
(* The service pool of ltask (ltask/src/service.c) as operators on a pool  *)
(* P, a function from service ids to service records.                      *)
(*                                                                         *)
(* One record stands for one slot of the pool: the life-cycle status, the  *)
(* inbound queue `msg', the single outbound slot `out', and the answer the *)
(* scheduler left for the last outbound message: `receipt', and `bounce',  *)
(* the message handed back with it.  An id without a service is the record *)
(* Absent, for which every C function takes its `get_service returned      *)
(* NULL' branch.  The Lua VM of a service is not part of the record: what  *)
(* a VM may do when it is resumed is in module Scheduler.                  *)
(*                                                                         *)
(* Ids are not reused: p->id only grows, so an id comes back only after    *)
(* the 32-bit counter wraps, which the model leaves out.                   *)
(***************************************************************************)
EXTENDS Naturals, Sequences, FiniteSets

CONSTANTS Services,    \* service ids (the unsigned ids that are not 0)
          Root,        \* SERVICE_ID_ROOT
          System,      \* SERVICE_ID_SYSTEM, the scheduler itself as addressee
          NoService,   \* id 0: no service, no job
          NoMsg,       \* the NULL message pointer
          QueueLen,    \* messages a service queue holds (config->queue - 1)
          MaxService   \* slots of the pool (config->max_service)

ASSUME PoolAssumption ==
  /\ Root \in Services
  /\ System \notin Services
  /\ NoService \notin Services
  /\ QueueLen \in Nat \ {0}
  /\ MaxService \in Nat

Status == {"absent", "uninitialized", "idle", "schedule", "running", "done",
           "dead", "exclusive"}
Receipt == {"none", "done", "error", "block", "response"}
(* "request" stands for the types SYSTEM, REQUEST, RESPONSE and ERROR, which
   the scheduler does not tell apart.  The C field `session' of a message to
   SYSTEM is a service id; it is the field sid here. *)
Message ==
  [from : Services, to : Services \cup {System}, session : Nat,
   type : {"request", "signal", "new"}, sid : {NoService}]
  \cup
  [from : Services, to : Services \cup {System}, session : Nat,
   type : {"del", "hang"}, sid : Services]

ASSUME MessageAssumption == NoMsg \notin Message

(* What goes from service to service. *)
Mail == {m \in Message : m.to \in Services}

Service == [status : Status, msg : Seq(Message),
            out : Message \cup {NoMsg}, bounce : Message \cup {NoMsg},
            receipt : Receipt]

(* Which thread runs a service, and the memory of a message, are left out. *)
EmptyService(st) == [status |-> st, msg |-> <<>>, out |-> NoMsg,
                     bounce |-> NoMsg, receipt |-> "none"]
Absent == EmptyService("absent")

Exists(P, s) == P[s].status # "absent"

ServiceStatusGet(P, s) == IF Exists(P, s) THEN P[s].status ELSE "dead"

ServiceStatusSet(P, s, st) ==
  IF Exists(P, s) THEN [P EXCEPT ![s].status = st] ELSE P

(***************************************************************************)
(* Messages.  PushResult is the receipt that corresponds to the return     *)
(* value of service_push_message: 0, 1 or -1.                              *)
(***************************************************************************)
PushResult(P, s) ==
  IF ServiceStatusGet(P, s) = "dead" THEN "error"
  ELSE IF Len(P[s].msg) >= QueueLen THEN "block" ELSE "done"

ServicePushMessage(P, s, m) ==
  IF PushResult(P, s) = "done" THEN [P EXCEPT ![s].msg = Append(@, m)] ELSE P

ServiceHasMessage(P, s) ==
  Exists(P, s) /\ (P[s].receipt # "none" \/ P[s].msg # <<>>)

(* service_pop_message: what it returns, and the pool it leaves. *)
NextMessage(P, s) ==
  IF P[s].bounce # NoMsg THEN P[s].bounce
  ELSE IF P[s].msg # <<>> THEN Head(P[s].msg) ELSE NoMsg
ServicePopMessage(P, s) ==
  IF P[s].bounce # NoMsg THEN [P EXCEPT ![s].bounce = NoMsg]
  ELSE IF P[s].msg # <<>> THEN [P EXCEPT ![s].msg = Tail(@)] ELSE P

(* service_message_out: takes the outbound message; P[s].out is its result *)
ServiceMessageOut(P, s) == [P EXCEPT ![s].out = NoMsg]

(* service_send_message refuses a second outbound message: the caller raises
   a Lua error and the pool is unchanged. *)
ServiceSendMessage(P, s, m) ==
  IF Exists(P, s) /\ P[s].out = NoMsg THEN [P EXCEPT ![s].out = m] ELSE P

(* service_write_receipt overwrites an unread receipt after a warning. *)
ServiceWriteReceipt(P, s, r, m) ==
  IF Exists(P, s) THEN [P EXCEPT ![s].receipt = r, ![s].bounce = m] ELSE P

ServiceReadReceipt(P, s) ==
  [P EXCEPT ![s].receipt = "none", ![s].bounce = NoMsg]

Signal(s) == [from |-> s, to |-> Root, type |-> "signal", session |-> 0,
              sid |-> NoService]

(* service_send_signal replaces whatever outbound message there was. *)
ServiceSendSignal(P, s) ==
  IF Exists(P, s) THEN [P EXCEPT ![s].out = Signal(s)] ELSE P

(***************************************************************************)
(* Life cycle.                                                             *)
(***************************************************************************)
(* The slots are found by counting ids up from p->id, so NEW fails exactly
   when every slot is taken. *)
PoolFull(P) == Cardinality({s \in Services : Exists(P, s)}) >= MaxService
ServiceNew(P, s) == [P EXCEPT ![s] = EmptyService("uninitialized")]

(* newservice(): service_init, service_requiref, service_sets and
   service_loadfile when all of them succeed ... *)
ServiceInit(P, s) == [P EXCEPT ![s].status = "idle"]
(* ... and when one of them fails: the slot is given back. *)
ServiceDelete(P, s) == [P EXCEPT ![s] = Absent]

(* service_hang returns 1 for a service that is being run, *)
HangRefused(P, s) ==
  Exists(P, s) /\ P[s].status \in {"running", "done", "exclusive"}
(* and kills one that is not, leaving its death signal in `out'. *)
ServiceHang(P, s) ==
  IF Exists(P, s) /\ P[s].status \in {"uninitialized", "idle", "schedule"}
  THEN ServiceSendSignal([P EXCEPT ![s].status = "dead"], s) ELSE P
=============================================================================
