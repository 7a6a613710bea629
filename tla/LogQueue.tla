------------------------------ MODULE LogQueue ------------------------------
(***************************************************************************)
(* The log queue (ltask/src/logqueue.c) and those who empty it: the loop   *)
(* of the logger service and its quit handler (ltask/service/logger.lua),  *)
(* and root when it ends (writelog in ltask/service/root.lua).             *)
(*                                                                         *)
(* A critical section under the spin lock is one step.  The message itself *)
(* is copied into its item, and out of it, after the lock is released:     *)
(* these are steps of their own.  The two coroutines of the logger take    *)
(* turns: one of them runs until the queue is empty or until it has to ask *)
(* root for the label of a service it has not met.                         *)
(*                                                                         *)
(* A popper may read an item before its message is there, or after another *)
(* one is (`torn').  What follows is undefined, so the model ends there.   *)
(***************************************************************************)
EXTENDS Naturals, Sequences, FiniteSets

CONSTANTS Pusher,    \* services that log, each on a thread of its own
          MaxLines,  \* lines each of them logs (bound)
          Item,      \* what malloc returns: more of them it refuses (bound)
          Nil        \* NULL; nothing

Popper == {"loop", "quit", "root"}
Logger == {"loop", "quit"}
Line == Pusher \X (1..MaxLines)

LogQueueAssumption ==
  Nil \notin Item \cup Line /\ IsFiniteSet(Item) /\ MaxLines \in Nat

VARIABLES freelist, first, last,  \* the struct logqueue: freelist, head, tail
          next, text,  \* the items
          owned,       \* items malloc has returned and free has not got back
          copying,     \* the item a pusher fills after it released the lock
          count,       \* lines a pusher has logged
          at, item, line,  \* where a popper is, its item, the line it is to have
          turn,        \* the coroutine of the logger that runs
          known,       \* labels the logger has
          shutdown,    \* how far the process is in ending
          torn,        \* a popper has read something else than its line
          raced,       \* an item changed hands before its copy was made (history)
          meant,       \* the line each item was taken for (history)
          linked,      \* what the last push did (history)
          unlinked,    \* what the last pop did (history)
          printed      \* the lines written and by whom, in order (history)

chain == <<freelist, first, last, next, owned, meant>>
calls == <<copying, count, at, item, line>>
vars == <<chain, calls, text, turn, known, shutdown, torn, raced, linked, unlinked, printed>>

TypeOK ==
  /\ {freelist, first, last} \subseteq Item \cup {Nil}
  /\ next \in [Item -> Item \cup {Nil}] /\ text \in [Item -> Line \cup {Nil}]
  /\ owned \subseteq Item
  /\ copying \in [Pusher -> Item \cup {Nil}] /\ count \in [Pusher -> 0..MaxLines]
  /\ at \in [Popper -> {"out", "copy", "label", "done"}]
  /\ item \in [Popper -> Item \cup {Nil}] /\ line \in [Popper -> Line \cup {Nil}]
  /\ turn \in Logger \cup {Nil} /\ known \subseteq Pusher /\ {torn, raced} \subseteq BOOLEAN
  /\ shutdown \in {"no", "logger", "root", "ended", "deleted"}
  /\ meant \in [Item -> Line \cup {Nil}]
  /\ linked \in {"none", "done", "full"} /\ unlinked \in Line \cup {Nil}
  /\ printed \in Seq(Line \X Popper)

(* logqueue_new; nobody is in a call. *)
Init ==
  /\ freelist = Nil /\ first = Nil /\ last = Nil
  /\ next = [i \in Item |-> Nil] /\ text = [i \in Item |-> Nil] /\ owned = {}
  /\ copying = [p \in Pusher |-> Nil] /\ count = [p \in Pusher |-> 0]
  /\ at = [r \in Popper |-> "out"]
  /\ item = [r \in Popper |-> Nil] /\ line = [r \in Popper |-> Nil]
  /\ turn = Nil /\ known = {} /\ shutdown = "no" /\ torn = FALSE /\ raced = FALSE
  /\ meant = [i \in Item |-> Nil] /\ linked = "none" /\ unlinked = Nil
  /\ printed = <<>>

-----------------------------------------------------------------------------
(* logqueue_push *)

(* mutant: the item stays in the free list *)
FreelistKept(i) == freelist

(* alloc_item: the free list without item i *)
FreelistAfter(i) == IF freelist = Nil THEN Nil ELSE next[i]

CanAlloc(i) == IF freelist = Nil THEN i \in Item \ owned ELSE i = freelist

(* mutant: the new item goes to the front *)
LinkFront(i) == /\ first' = i /\ last' = IF first = Nil THEN i ELSE last
                /\ next' = [next EXCEPT ![i] = first]

Link(i) ==
  /\ last' = i
  /\ IF first = Nil
     THEN first' = i /\ next' = [next EXCEPT ![i] = Nil]
     ELSE first' = first /\ next' = [next EXCEPT ![last] = i, ![i] = Nil]

MayPush(p) == copying[p] = Nil /\ count[p] < MaxLines

(* The critical section, for the next line of p *)
PushLink(p, i) ==
  /\ MayPush(p) /\ CanAlloc(i)
  /\ freelist' = FreelistAfter(i) /\ owned' = owned \cup {i}
  /\ Link(i)
  /\ copying' = [copying EXCEPT ![p] = i]
  /\ count' = [count EXCEPT ![p] = @ + 1]
  /\ meant' = [meant EXCEPT ![i] = <<p, count[p] + 1>>] /\ linked' = "done"
  /\ raced' = (raced \/ \E r \in Popper : item[r] = i)
  /\ UNCHANGED <<at, item, line, text, turn, known, shutdown, torn, unlinked, printed>>

(* malloc returns NULL, and ltask.pushlog raises "log error". *)
PushFail(p) ==
  /\ MayPush(p) /\ freelist = Nil /\ owned = Item
  /\ linked' = "full"
  /\ UNCHANGED <<chain, calls, text, turn, known, shutdown, torn, raced, unlinked, printed>>

(* item->msg = *m *)
PushCopy(p) ==
  /\ copying[p] # Nil
  /\ text' = [text EXCEPT ![copying[p]] = <<p, count[p]>>]
  /\ copying' = [copying EXCEPT ![p] = Nil]
  /\ UNCHANGED <<chain, count, at, item, line, turn, known, shutdown, torn, raced,
                 linked, unlinked, printed>>

-----------------------------------------------------------------------------
(* writelog.  The logger's loop does it after each sleep(100), its quit
   handler when root is about to end, and root then does it itself. *)
Start(r) ==
  /\ turn = Nil /\ at[r] = "out"
  /\ r = "loop" \/ (r = "quit" /\ shutdown = "logger")
  /\ turn' = r
  /\ UNCHANGED <<chain, calls, text, known, shutdown, torn, raced, linked, unlinked,
                 printed>>

(* root's quit: the system call to the logger *)
BeginQuit ==
  /\ shutdown = "no" /\ shutdown' = "logger"
  /\ UNCHANGED <<chain, calls, text, turn, known, torn, raced, linked, unlinked, printed>>

Pops(r) == at[r] = "out" /\ (r = turn \/ (r = "root" /\ shutdown = "root"))

(* q->head = ret->next *)
Rest == next[first]

(* The critical section of logqueue_pop *)
PopUnlink(r) ==
  /\ Pops(r) /\ first # Nil
  /\ first' = Rest /\ last' = IF Rest = Nil THEN Nil ELSE last
  /\ next' = [next EXCEPT ![first] = freelist] /\ freelist' = first
  /\ at' = [at EXCEPT ![r] = "copy"] /\ item' = [item EXCEPT ![r] = first]
  /\ line' = [line EXCEPT ![r] = meant[first]] /\ unlinked' = meant[first]
  /\ raced' = (raced \/ \E p \in Pusher : copying[p] = first)
  /\ UNCHANGED <<owned, meant, copying, count, text, turn, known, shutdown, torn,
                 linked, printed>>

(* The queue is empty: the loop sleeps, the handler answers root, and root
   ends the process. *)
PopEmpty(r) ==
  /\ Pops(r) /\ first = Nil
  /\ at' = [at EXCEPT ![r] = IF r = "loop" THEN "out" ELSE "done"]
  /\ turn' = IF r = turn THEN Nil ELSE turn
  /\ shutdown' = CASE r = "loop" -> shutdown [] r = "quit" -> "root" [] r = "root" -> "ended"
  /\ unlinked' = Nil
  /\ UNCHANGED <<chain, copying, count, item, line, text, known, torn, raced, linked, printed>>

(* io.write, and on to the next line *)
Write(r) == /\ printed' = Append(printed, <<line[r], r>>)
            /\ line' = [line EXCEPT ![r] = Nil] /\ at' = [at EXCEPT ![r] = "out"]

(* *m = ret->msg *)
Read(r) == text[item[r]]

(* The line is read.  The logger asks for the label of a service it does not
   know, and another of its coroutines may run meanwhile. *)
PopCopy(r) ==
  /\ at[r] = "copy"
  /\ torn' = (Read(r) # line[r])
  /\ item' = [item EXCEPT ![r] = Nil]
  /\ IF r = "root" \/ line[r][1] \in known
     THEN Write(r) /\ UNCHANGED turn
     ELSE /\ at' = [at EXCEPT ![r] = "label"] /\ turn' = Nil
          /\ UNCHANGED <<line, printed>>
  /\ UNCHANGED <<chain, copying, count, text, known, shutdown, raced,
                 linked, unlinked>>

(* root's answer resumes the coroutine. *)
Labelled(r) ==
  /\ at[r] = "label" /\ turn = Nil
  /\ known' = known \cup {line[r][1]}
  /\ Write(r) /\ turn' = r
  /\ UNCHANGED <<chain, copying, count, item, text, shutdown, torn, raced,
                 linked, unlinked>>

(* The n-th item of the list that begins at i *)
Nth(i) ==
  LET nth[n \in 0..Cardinality(Item)] ==
        IF n = 0 THEN i ELSE IF nth[n - 1] = Nil THEN Nil ELSE next[nth[n - 1]]
  IN nth
Items(i) == {Nth(i)[n] : n \in 0..Cardinality(Item)} \ {Nil}

(* logqueue_delete, when every thread has ended *)
Delete ==
  /\ shutdown = "ended" /\ shutdown' = "deleted"
  /\ \A p \in Pusher : copying[p] = Nil
  /\ \A r \in Popper : at[r] # "copy"
  /\ owned' = owned \ (Items(first) \cup Items(freelist))
  /\ first' = Nil /\ last' = Nil /\ freelist' = Nil
  /\ UNCHANGED <<next, meant, calls, text, turn, known, torn, raced, linked, unlinked, printed>>

Next ==
  /\ ~torn /\ shutdown # "deleted"
  /\ \/ \E p \in Pusher : (\E i \in Item : PushLink(p, i)) \/ PushFail(p) \/ PushCopy(p)
     \/ \E r \in Logger : Start(r) \/ Labelled(r)
     \/ \E r \in Popper : PopUnlink(r) \/ PopEmpty(r) \/ PopCopy(r)
     \/ BeginQuit \/ Delete

Spec == Init /\ [][Next]_vars

-----------------------------------------------------------------------------
(* The queue and the free list are two lists that end and have no item in
   common, tail is the end of the queue, and every item malloc returned is in
   one of them, so that logqueue_delete frees all. *)
Chains ==
  /\ Nth(first)[Cardinality(Item)] = Nil /\ Nth(freelist)[Cardinality(Item)] = Nil
  /\ Items(first) \cap Items(freelist) = {}
  /\ Items(first) \cup Items(freelist) = owned
  /\ IF first = Nil THEN last = Nil ELSE last \in Items(first) /\ next[last] = Nil
  /\ shutdown = "deleted" => owned = {}

(* The lines the queue holds *)
Contents == [n \in 1..Cardinality(Items(first)) |-> meant[Nth(first)[n - 1]]]

(* By the order of the critical sections the log queue is a queue, for several
   threads at both ends: a line is taken once, in the order of the pushes. *)
F == INSTANCE Fifo WITH Values <- Line, NoValue <- Nil, Capacity <- Cardinality(Item),
                        contents <- Contents, pushed <- linked, popped <- unlinked
LogFifo == [][shutdown' = "deleted" \/ F!Next]_<<Contents, linked, unlinked>>

(* Every line that was logged is in the queue, or with one of the poppers, or
   printed, and once; also when the quit handler and root print while the
   loop waits for a label. *)
LineOnce ==
  shutdown # "deleted" =>
    \A l \in Line : l[2] <= count[l[1]] =>
      Cardinality({n \in DOMAIN Contents : Contents[n] = l})
      + Cardinality({r \in Popper : line[r] = l})
      + Cardinality({n \in DOMAIN printed : printed[n][1] = l}) = 1

(* The lines of a service are printed in the order they were logged, unless
   one of two was taken by the loop, which waits for the label, and the other
   by the quit handler or root meanwhile. *)
LogInOrder ==
  \A m, n \in DOMAIN printed :
    LET a == printed[m] b == printed[n]
    IN m < n /\ a[1][1] = b[1][1] /\ a[1][2] > b[1][2] => a[2] # b[2]

(* Two overlaps alone let a popper read something else than its line: the
   item was unlinked before its pusher had copied the line there, or taken for
   a new line before its popper had copied the old one. *)
TornByRace == torn => raced
=============================================================================
