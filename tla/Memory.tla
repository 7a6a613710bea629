------------------------------- MODULE Memory -------------------------------
(***************************************************************************)
(* Who frees what: the `struct message' of every message and the block its *)
(* payload is packed in, from bootstrap.init to bootstrap.deinit           *)
(* (ltask/src/message.c, service.c and the C functions of ltask.c that Lua *)
(* calls).  A message is handed from a VM to `out', to a queue or back as  *)
(* a receipt, and whoever has it last frees it.                            *)
(*                                                                         *)
(* What the threads do between two of these steps, and when a service is   *)
(* run, is in Scheduler; here every service may be run at any time, and    *)
(* its VM may send, receive and read receipts in any order.  malloc does   *)
(* not fail, and log lines, timers and Lua's own memory are left out.      *)
(***************************************************************************)
EXTENDS Naturals, Sequences

CONSTANTS Service, Root,
          Exclusive,    \* services that may be given a thread
          Main,         \* the VM of main.lua
          System,       \* SERVICE_ID_SYSTEM
          Struct,       \* addresses malloc returns for a struct message,
          Block,        \* and for a payload
          NULL,
          Unallocated,  \* what is at an address that is not allocated
          LengthQueue,  \* messages that a service's queue holds
          LengthSending \* messages that a sending queue holds

VM == Service \cup {Main}
Message == [to : Service \cup {System}, msg : Block \cup {NULL},
            type : {"mail", "signal", "new", "del", "hang"}]

MemoryAssumption ==
  /\ Root \in Service \ Exclusive /\ Exclusive \subseteq Service
  /\ Main \notin Service /\ System \notin Service
  /\ NULL \notin Struct \cup Block /\ Struct \cap Block = {}
  /\ Unallocated \notin Message
  /\ LengthQueue \in Nat /\ LengthSending \in Nat
ASSUME MemoryAssumed == MemoryAssumption

(* A slot of the pool: "none" is the NULL pointer, a "new" service has no VM
   and no queue yet. *)
ServiceSlot ==
  [status : {"none", "new", "alive", "dead"}, queue : Seq(Struct),
   out : Struct \cup {NULL}, bounce : Struct \cup {NULL},
   receipt : {"none", "done", "error", "block", "response"}]
EmptySlot(st) == [status |-> st, queue |-> <<>>, out |-> NULL, bounce |-> NULL,
                  receipt |-> "none"]

VARIABLES
  phase,   \* of main.lua: "boot", "run" in ltask_run, "end" after ltask_deinit
  heap,    \* the message at each address
  block,   \* the payloads that are allocated
  slot,    \* the service pool
  vm,      \* the payloads that the Lua code of each VM has, to send or remove
  handle,  \* the exclusive services that have a thread
  sending, \* the sending queue of each
  lost     \* messages and payloads that nobody will free

memoryVars == <<phase, heap, block, slot, vm, handle, sending, lost>>

MemoryTypeOK ==
  /\ phase \in {"boot", "run", "end"}
  /\ heap \in [Struct -> Message \cup {Unallocated}]
  /\ block \subseteq Block
  /\ slot \in [Service -> ServiceSlot]
  /\ vm \in [VM -> SUBSET Block]
  /\ handle \subseteq Exclusive
  /\ sending \in [Exclusive -> Seq(Struct)]
  /\ lost \subseteq Struct \cup Block

(* ltask_init: service_create, and no exclusive thread. *)
MemoryInit ==
  /\ phase = "boot"
  /\ heap = [a \in Struct |-> Unallocated] /\ block = {}
  /\ slot = [s \in Service |-> EmptySlot("none")]
  /\ vm = [s \in VM |-> {}]
  /\ handle = {} /\ sending = [x \in Exclusive |-> <<>>]
  /\ lost = {}

Alive(s) == slot[s].status = "alive"
Exists(s) == slot[s].status # "none"
(* The VM of a service runs only while the program does. *)
Runs(s) == phase = "run" /\ s \in Service /\ Alive(s)

(***************************************************************************)
(* message_new and message_delete.                                         *)
(***************************************************************************)
New(a, to, type, b) ==
  /\ heap[a] = Unallocated
  /\ heap' = [heap EXCEPT ![a] = [to |-> to, type |-> type, msg |-> b]]

Payload(A) == {heap[a].msg : a \in {c \in A : heap[c] # Unallocated}} \ {NULL}
Delete(A) ==
  /\ heap' = [a \in Struct |-> IF a \in A THEN Unallocated ELSE heap[a]]
  /\ block' = block \ Payload(A)

(* A message whose payload was taken out of it is deleted without it. *)
DeleteEmptied(A) ==
  /\ heap' = [a \in Struct |-> IF a \in A THEN Unallocated ELSE heap[a]]
  /\ UNCHANGED block

(***************************************************************************)
(* What the Lua code of a VM calls.                                        *)
(***************************************************************************)
(* luaseri_pack, and luaseri_remove or luaseri_unpack_remove *)
Pack(s, b) ==
  /\ Runs(s) \/ (s = Main /\ phase = "boot")
  /\ b \notin block
  /\ block' = block \cup {b}
  /\ vm' = [vm EXCEPT ![s] = @ \cup {b}]
  /\ UNCHANGED <<phase, heap, slot, handle, sending, lost>>

Remove(s, b) ==
  /\ Runs(s) /\ b \in vm[s]
  /\ block' = block \ {b}
  /\ vm' = [vm EXCEPT ![s] = @ \ {b}]
  /\ UNCHANGED <<phase, heap, slot, handle, sending, lost>>

(* gen_send_message and lsend_message: a second message before the first one
   is out is refused, and freed with its payload. *)
SendMessage(s, a, to, type, b) ==
  /\ Runs(s) /\ b \in vm[s] \cup {NULL}
  /\ heap[a] = Unallocated
  /\ vm' = [vm EXCEPT ![s] = @ \ {b}]
  /\ IF slot[s].out = NULL
     THEN /\ New(a, to, type, b)
          /\ slot' = [slot EXCEPT ![s].out = a]
          /\ UNCHANGED block
     ELSE /\ block' = block \ {b}
          /\ UNCHANGED <<heap, slot>>
  /\ UNCHANGED <<phase, handle, sending, lost>>

(* lexclusive_send_message, and execute_timer without a payload: if the sending
   queue is full, the message is freed and the VM keeps the payload. *)
ExclusiveSendMessage(x, a, to, b) ==
  /\ Runs(x) /\ x \in handle /\ b \in vm[x] \cup {NULL}
  /\ heap[a] = Unallocated
  /\ IF Len(sending[x]) < LengthSending
     THEN /\ New(a, to, "mail", b)
          /\ sending' = [sending EXCEPT ![x] = Append(@, a)]
          /\ vm' = [vm EXCEPT ![x] = @ \ {b}]
     ELSE UNCHANGED <<heap, sending, vm>>
  /\ UNCHANGED <<phase, block, slot, handle, lost>>

(* service_pop_message and lrecv_message: the payload goes to the VM. *)
RecvMessage(s) ==
  LET a == IF slot[s].bounce # NULL THEN slot[s].bounce ELSE Head(slot[s].queue)
  IN
  /\ Runs(s)
  /\ slot[s].bounce # NULL \/ slot[s].queue # <<>>
  /\ slot' = IF slot[s].bounce # NULL THEN [slot EXCEPT ![s].bounce = NULL]
             ELSE [slot EXCEPT ![s].queue = Tail(@)]
  /\ vm' = [vm EXCEPT ![s] = @ \cup Payload({a})]
  /\ DeleteEmptied({a})
  /\ UNCHANGED <<phase, handle, sending, lost>>

(* lmessage_receipt: a message handed back gives its payload to the VM, but the
   answer to NEW is deleted as it is. *)
MessageReceipt(s) ==
  LET a == slot[s].bounce IN
  /\ Runs(s) /\ slot[s].receipt # "none"
  /\ slot' = [slot EXCEPT ![s].receipt = "none", ![s].bounce = NULL]
  /\ \/ /\ a = NULL
        /\ UNCHANGED <<heap, block, vm>>
     \/ /\ a # NULL /\ slot[s].receipt = "response"
        /\ Delete({a})
        /\ UNCHANGED vm
     \/ /\ a # NULL /\ slot[s].receipt # "response"
        /\ DeleteEmptied({a})
        /\ vm' = [vm EXCEPT ![s] = @ \cup Payload({a})]
  /\ UNCHANGED <<phase, handle, sending, lost>>

(***************************************************************************)
(* The pool.                                                               *)
(***************************************************************************)
(* What free_service frees, besides the VM; the slot is NULL before. *)
Owned(s) == {slot[s].queue[i] : i \in DOMAIN slot[s].queue}
              \cup ({slot[s].out, slot[s].bounce} \ {NULL})

(* service_delete; lua_close does not free what the Lua code has pointers to. *)
ServiceDelete(s, more) ==
  /\ Delete(Owned(s))
  /\ slot' = [slot EXCEPT ![s] = EmptySlot("none")]
  /\ vm' = [vm EXCEPT ![s] = {}]
  /\ lost' = lost \cup vm[s] \cup more

(* mutant: the message of an unread receipt is written over *)
UnreadKept(s) == {}

(* service_write_receipt on P deletes the message of an unread receipt. *)
Unread(s) == IF slot[s].receipt = "none" THEN {} ELSE {slot[s].bounce} \ {NULL}
WithReceipt(P, s, r, a) == [P EXCEPT ![s].receipt = r, ![s].bounce = a]
MessageOut(s) == [slot EXCEPT ![s].out = NULL]

(* service_send_signal, of a service that ends or that is hung up: its signal
   at c replaces the message in `out'. *)
SendSignal(P, s, c, A) ==
  /\ heap[c] = Unallocated
  /\ heap' = [a \in Struct |->
                IF a = c THEN [to |-> Root, type |-> "signal", msg |-> NULL]
                ELSE IF a \in A \cup ({slot[s].out} \ {NULL}) THEN Unallocated
                ELSE heap[a]]
  /\ block' = block \ Payload(A \cup ({slot[s].out} \ {NULL}))
  /\ slot' = [P EXCEPT ![s].status = "dead", ![s].out = c]

Quit(s, c) ==
  /\ Runs(s) /\ s # Root /\ s \notin handle
  /\ SendSignal(slot, s, c, {})
  /\ UNCHANGED <<phase, vm, handle, sending, lost>>

QuitRoot ==
  /\ Runs(Root)
  /\ slot' = [slot EXCEPT ![Root].status = "dead"]
  /\ UNCHANGED <<phase, heap, block, vm, handle, sending, lost>>

(* ltask_initservice: service_init, service_requiref, service_sets and
   service_loadfile succeed, or one fails and the slot is given back. *)
InitService(s) ==
  /\ Runs(Root) /\ slot[s].status = "new"
  /\ \E st \in {"alive", "none"} : slot' = [slot EXCEPT ![s].status = st]
  /\ UNCHANGED <<phase, heap, block, vm, handle, sending, lost>>

(* ltask_closeservice, for root: close_service_messages and service_delete. *)
CloseService(s) ==
  /\ Runs(Root) /\ slot[s].status = "dead"
  /\ ServiceDelete(s, {})
  /\ UNCHANGED <<phase, handle, sending>>

(***************************************************************************)
(* The scheduling pass: dispatch_out_message of the service s, a step for   *)
(* each of its outcomes.  Nobody knows a service that is "new" but root,    *)
(* which makes it or fails before it sends anything.                       *)
(***************************************************************************)
Out(s, a) == phase = "run" /\ Alive(s) /\ slot[s].out = a /\ a # NULL
Receives(d) == Alive(d) /\ Len(slot[d].queue) < LengthQueue

Answer(P, s, r, a, A) ==
  /\ Delete(A \cup Unread(s))
  /\ slot' = WithReceipt(P, s, r, a)

DispatchDone(s, a) ==
  LET d == heap[a].to IN
  /\ Out(s, a) /\ d \in Service /\ Receives(d)
  /\ Answer([MessageOut(s) EXCEPT ![d].queue = Append(@, a)], s, "done", NULL, {})
  /\ UNCHANGED <<phase, vm, handle, sending, lost>>

(* A message is handed back if its receiver is dead or full, and by SYSTEM if
   it is not from root, if the pool is full or if the service to hang up
   runs. *)
DispatchBack(s, a, r) ==
  LET d == heap[a].to IN
  /\ Out(s, a)
  /\ \/ d \in Service /\ slot[d].status \in {"none", "dead"} /\ r = "error"
     \/ d \in Service /\ Alive(d) /\ ~Receives(d) /\ r = "block"
     \/ d = System /\ r = "error" /\ (s # Root \/ heap[a].type # "del")
  /\ Answer(MessageOut(s), s, r, a, {})
  /\ UNCHANGED <<phase, vm, handle, sending, lost>>

DispatchNew(a, n) ==
  /\ Out(Root, a) /\ heap[a].to = System /\ heap[a].type = "new"
  /\ ~Exists(n)
  /\ Answer([MessageOut(Root) EXCEPT ![n] = EmptySlot("new")], Root, "response", a, {})
  /\ UNCHANGED <<phase, vm, handle, sending, lost>>

(* DEL: root has closed the service before. *)
DispatchDel(a) ==
  /\ Out(Root, a) /\ heap[a].to = System /\ heap[a].type = "del"
  /\ Answer(MessageOut(Root), Root, "done", NULL, {a})
  /\ UNCHANGED <<phase, vm, handle, sending, lost>>

(* HANG of a scheduled service is answered ERROR, as that of a running or an
   exclusive one (DispatchBack); if the service is idle or gone the answer is
   DONE, without the message and without deleting it. *)
DispatchHang(a, s, c) ==
  /\ Out(Root, a) /\ heap[a].to = System /\ heap[a].type = "hang"
  /\ s # Root /\ Alive(s) /\ s \notin handle
  /\ \/ /\ SendSignal(WithReceipt(MessageOut(Root), Root, "error", a), s, c, Unread(Root))
        /\ UNCHANGED lost
     \/ /\ SendSignal(WithReceipt(MessageOut(Root), Root, "done", NULL), s, c, Unread(Root))
        /\ lost' = lost \cup {a}
  /\ UNCHANGED <<phase, vm, handle, sending>>

DispatchHangGone(a) ==
  /\ Out(Root, a) /\ heap[a].to = System /\ heap[a].type = "hang"
  /\ Answer(MessageOut(Root), Root, "done", NULL, {})
  /\ lost' = lost \cup {a}
  /\ UNCHANGED <<phase, vm, handle, sending>>

(* schedule_dispatch of a dead service: its signal goes to root.  If root is
   full or gone nobody deletes it, and if root is gone the service is. *)
DispatchSignal(s) ==
  LET a == slot[s].out IN
  /\ phase = "run" /\ s # Root /\ slot[s].status = "dead" /\ a # NULL
  /\ \/ /\ Receives(Root)
        /\ slot' = [MessageOut(s) EXCEPT ![Root].queue = Append(@, a)]
        /\ UNCHANGED <<heap, block, vm, lost>>
     \/ /\ Alive(Root) /\ ~Receives(Root)
        /\ slot' = MessageOut(s)
        /\ lost' = lost \cup {a}
        /\ UNCHANGED <<heap, block, vm>>
     \/ /\ ~Alive(Root)
        /\ Delete(Owned(s) \ {a})
        /\ slot' = [slot EXCEPT ![s] = EmptySlot("none")]
        /\ vm' = [vm EXCEPT ![s] = {}]
        /\ lost' = lost \cup vm[s] \cup {a}
  /\ UNCHANGED <<phase, handle, sending>>

(* dispatch_exclusive_sending, one message: its receiver takes it, or is full
   or has blocked an earlier one, or is dead. *)
DispatchSending(x) ==
  LET a == Head(sending[x])
      d == heap[a].to
  IN
  /\ phase = "run" /\ x \in handle /\ sending[x] # <<>>
  /\ \/ /\ Receives(d)
        /\ slot' = [slot EXCEPT ![d].queue = Append(@, a)]
        /\ sending' = [sending EXCEPT ![x] = Tail(@)]
        /\ UNCHANGED <<heap, block>>
     \/ /\ Alive(d)
        /\ sending' = [sending EXCEPT ![x] = Append(Tail(@), a)]
        /\ UNCHANGED <<heap, block, slot>>
     \/ /\ slot[d].status \in {"none", "dead"}
        /\ Delete({a})
        /\ sending' = [sending EXCEPT ![x] = Tail(@)]
        /\ UNCHANGED slot
  /\ UNCHANGED <<phase, vm, handle, lost>>

(***************************************************************************)
(* main.lua: the services, the exclusive threads and the message that boots *)
(* root; ltask_run; and ltask_deinit, which an error before runs too.      *)
(***************************************************************************)
NewService(s) ==
  /\ phase = "boot" /\ ~Exists(s)
  /\ s \in Exclusive \cup {Root} /\ ~Alive(Root)
  /\ slot' = [slot EXCEPT ![s].status = "alive"]
  /\ UNCHANGED <<phase, heap, block, vm, handle, sending, lost>>

NewThread(x) ==
  /\ phase = "boot" /\ Alive(x) /\ x \notin handle
  /\ handle' = handle \cup {x}
  /\ UNCHANGED <<phase, heap, block, slot, vm, sending, lost>>

(* lpost_message *)
PostMessage(a, b) ==
  /\ phase = "boot" /\ b \in vm[Main] /\ heap[a] = Unallocated
  /\ vm' = [vm EXCEPT ![Main] = @ \ {b}]
  /\ IF Receives(Root)
     THEN /\ New(a, Root, "mail", b)
          /\ slot' = [slot EXCEPT ![Root].queue = Append(@, a)]
          /\ UNCHANGED block
     ELSE /\ block' = block \ {b}
          /\ UNCHANGED <<heap, slot>>
  /\ UNCHANGED <<phase, handle, sending, lost>>

Run ==
  /\ phase = "boot" /\ Alive(Root)
  /\ phase' = "run"
  /\ UNCHANGED <<heap, block, slot, vm, handle, sending, lost>>

(* exclusive_release *)
Released == UNION {{sending[x][i] : i \in DOMAIN sending[x]} : x \in Exclusive}

(* service_destory *)
Destroyed == UNION {Owned(s) : s \in Service}

(* ltask_deinit *)
Deinit ==
  /\ phase = "boot" \/ (phase = "run" /\ slot[Root].status = "dead")
  /\ phase' = "end"
  /\ Delete(Released \cup Destroyed)
  /\ slot' = [s \in Service |-> EmptySlot("none")]
  /\ vm' = [s \in VM |-> {}]
  /\ sending' = [x \in Exclusive |-> <<>>]
  /\ lost' = lost \cup UNION {vm[s] : s \in VM}
  /\ handle' = {}

Call(s) ==
  \/ \E b \in Block : Pack(s, b) \/ Remove(s, b)
  \/ \E a \in Struct, d \in Service, b \in Block \cup {NULL} :
       \/ SendMessage(s, a, d, "mail", b)
       \/ s \in Exclusive /\ ExclusiveSendMessage(s, a, d, b)
  \/ \E a \in Struct, type \in {"new", "del", "hang"} : SendMessage(s, a, System, type, NULL)
  \/ RecvMessage(s) \/ MessageReceipt(s)
  \/ InitService(s) \/ CloseService(s)
  \/ \E c \in Struct : Quit(s, c)

Dispatch(s) ==
  \/ \E a \in Struct : DispatchDone(s, a) \/ \E r \in {"error", "block"} : DispatchBack(s, a, r)
  \/ \E a \in Struct : DispatchNew(a, s) \/ \E c \in Struct : DispatchHang(a, s, c)
  \/ DispatchSignal(s)

MemoryNext ==
  \/ \E s \in Service : Call(s) \/ Dispatch(s)
  \/ \E a \in Struct : DispatchDel(a) \/ DispatchHangGone(a)
  \/ \E x \in Exclusive : DispatchSending(x)
  \/ QuitRoot \/ Run \/ Deinit
  \/ \E s \in Service : NewService(s)
  \/ \E a \in Struct, b \in Block : PostMessage(a, b)
  \/ \E b \in Block : Pack(Main, b)
  \/ \E x \in Exclusive : NewThread(x)

MemorySpec == MemoryInit /\ [][MemoryNext]_memoryVars

(***************************************************************************)
(* Properties.                                                             *)
(***************************************************************************)
Places(a) ==
       {<<"out", s, 0>> : s \in {t \in Service : slot[t].out = a}}
  \cup {<<"bounce", s, 0>> : s \in {t \in Service : slot[t].bounce = a}}
  \cup (UNION {{<<"queue", s, i>> : i \in {j \in DOMAIN slot[s].queue : slot[s].queue[j] = a}}
                 : s \in Service})
  \cup (UNION {{<<"sending", x, i>> : i \in {j \in DOMAIN sending[x] : sending[x][j] = a}}
                 : x \in Exclusive})

Holders(b) == {<<"vm", s>> : s \in {t \in VM : b \in vm[t]}}
                \cup {<<"message", a>> :
                       a \in {c \in Struct : heap[c] # Unallocated /\ heap[c].msg = b}}

(* Nothing is freed twice, used after it was freed or forgotten: a pointer to a
   message is in one place as long as the message is allocated, and in none
   after that, and a payload has one message or one VM. *)
OneOwner ==
  /\ \A a \in Struct : IF heap[a] = Unallocated \/ a \in lost THEN Places(a) = {}
                       ELSE \E p \in Places(a) : Places(a) = {p}
  /\ \A b \in Block : IF b \notin block \/ b \in lost THEN Holders(b) = {}
                      ELSE \E p \in Holders(b) : Holders(b) = {p}

(* What nobody frees is the messages of HANG that were answered DONE, death
   signals for which root had no room, and what the Lua code of a VM had when
   it was closed; after ltask_deinit nothing else is left. *)
LostKnown ==
  /\ \A a \in lost \cap Struct : heap[a] # Unallocated /\ heap[a].type \in {"hang", "signal"}
  /\ phase = "end" => /\ \A a \in Struct : heap[a] = Unallocated \/ a \in lost
                      /\ \A b \in block : b \in lost \/ Holders(b) # {}

(* No message and no payload is freed twice, used after it was freed or
   forgotten, but for those that the code leaks (message.c, service.c and
   ltask.c). *)
MemoryKept == MemoryTypeOK /\ OneOwner /\ LostKnown
=============================================================================
