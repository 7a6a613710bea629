------------------------------- MODULE Starre -------------------------------
(***************************************************************************)
(* The state layer of wind: named states that live in services of their    *)
(* own (service/state_cell.lua), the service that locks them               *)
(* (service/state_mgr.lua), and the library through which the workers use   *)
(* them (lualib/starre.lua), which keeps a copy of each state it has seen   *)
(* and sends and receives differences (lualib/ltdiff.lua).                  *)
(*                                                                         *)
(* A request is a coroutine of a worker that calls starre.new,             *)
(* starre.release, or starre.query, works on what it got, and closes it.   *)
(* A service runs one coroutine at a time and changes to another one only  *)
(* where a coroutine waits for an answer: an action is what a service does  *)
(* between two such points.  A request has one message under way at a time; *)
(* `phase' says where the request and its message are.                      *)
(***************************************************************************)
EXTENDS Integers, Sequences, FiniteSets, SequencesExt

CONSTANTS Names, Fields, Workers,
          Requests,  \* bound: the requests made, each once
          Boot,      \* states bootstrap.lua makes
          Queries,   \* bound: the sequences of names asked for
          Nil,       \* no value: of an address, of what a request sees
          QueueLen,  \* messages the queue of state_mgr holds
          MaxMakes   \* bound: how often a state of one name is asked to be made

ASSUME StarreAssumption ==
  /\ Boot \subseteq Names
  /\ Queries \subseteq Seq(Names)
  /\ \A q \in Queries : Len(q) \in 1..2 /\ IsInjective(q)
  /\ QueueLen \in Nat \ {0} /\ MaxMakes \in Nat \ {0}
  /\ IsFiniteSet(Requests)

(* The address of a cell: no two cells have the same, whatever their name. *)
Cells == Names \X (1..MaxMakes)

VARIABLES
  state, locked, waitting,  \* state_mgr: as there; of waitting, the requests
  spawned,                  \* cells made so far, by name
  inbox,                    \* the queue of state_mgr: requests
  cell,                     \* the state_cell services
  copy,                     \* starre: state_map and state_version
  req                       \* the requests

vars == <<state, locked, waitting, spawned, inbox, cell, copy, req>>

(***************************************************************************)
(* Tables and differences.  A state is a flat table of numbers; `old' and  *)
(* `new' have the same keys, so that a difference is its part `mod', and   *)
(* ltdiff.diff returns false for an empty one.                             *)
(***************************************************************************)
Numbers == 0..(Cardinality(Requests) + MaxMakes)
State == [Fields -> Numbers]
Patches == UNION {[D -> Numbers] : D \in SUBSET Fields}

Diff(old, new) == [f \in {g \in Fields : old[g] # new[g]} |-> new[f]]
Patch(t, d) == [f \in Fields |-> IF f \in DOMAIN d THEN d[f] ELSE t[f]]

(* Differences applied one after the other: what a field has is what the last
   one that has the field says. *)
PatchAll(t, ds) ==
  [f \in Fields |->
     LET I == {i \in DOMAIN ds : f \in DOMAIN ds[i]}
     IN  IF I = {} THEN t[f] ELSE ds[Max(I)][f]]

(* The table a state is made with: another one each time. *)
NewTable(c) == [f \in Fields |-> c[2] - 1]
NoTable == [f \in Fields |-> 0]

(* Nothing is neither an address nor something that a request sees. *)
ASSUME StarreNil ==
  Nil \notin Cells /\ \A D \in SUBSET Cells : Nil \notin [D -> State]

(***************************************************************************)
(* state_cell.                                                             *)
(***************************************************************************)
Version(c) == Len(cell[c].patches)

(* S.query(v): the version and nothing, the whole table, or the patches that
   lead from v to it. *)
Reply(c, v) ==
  [version |-> Version(c),
   t |-> IF v \in 1..Version(c) THEN <<>> ELSE <<cell[c].t>>,
   patches |-> IF v \in 1..Version(c)
               THEN SubSeq(cell[c].patches, v + 1, Version(c)) ELSE <<>>]
NoReply == [version |-> 0, t |-> <<>>, patches |-> <<>>]

(***************************************************************************)
(* The type of each variable, and the initial state.                       *)
(***************************************************************************)
Phase == {"start", "called", "waitting", "spawning", "granted", "query",
          "answered", "work", "unlock", "patch", "patched", "done", "failed"}
Request ==
  [phase : Phase, worker : Workers,
   call : {"newstate", "releasestate", "lock", "unlock"},
   names : Seq(Names), addrs : Seq(Cells \cup {Nil}),
   v : Nat, answer : [version : Nat, t : Seq(State), patches : Seq(Patches)],
   old : Seq(State),
   patch : UNION {[N -> Patches] : N \in SUBSET Names},
   todo : SUBSET Names, at : Cells \cup {Nil}]

TypeOK ==
  /\ state \in [Names -> Cells \cup {Nil}]
  /\ locked \in [Names -> BOOLEAN]
  /\ waitting \in Seq(Requests) /\ inbox \in Seq(Requests)
  /\ spawned \in [Names -> 0..MaxMakes]
  /\ cell \in [Cells -> [t : State, patches : Seq(Patches),
                         status : {"none", "up", "leaving", "gone"}]]
  /\ copy \in [Workers -> [Names -> [version : Nat \cup {-1}, t : State]]]
  /\ req \in [Requests -> Request]

Init ==
  /\ state = [n \in Names |-> IF n \in Boot THEN <<n, 1>> ELSE Nil]
  /\ locked = [n \in Names |-> FALSE]
  /\ waitting = <<>> /\ inbox = <<>>
  /\ spawned = [n \in Names |-> IF n \in Boot THEN 1 ELSE 0]
  /\ cell = [c \in Cells |->
               [t |-> NewTable(c), patches |-> <<>>,
                status |-> IF c[1] \in Boot /\ c[2] = 1 THEN "up" ELSE "none"]]
  /\ copy = [w \in Workers |-> [n \in Names |->
               [version |-> -1, t |-> NoTable]]]
  /\ req \in [Requests ->
       {[phase |-> "start", worker |-> w, call |-> "lock", names |-> <<>>,
         addrs |-> <<>>, v |-> 0, answer |-> NoReply, old |-> <<>>,
         patch |-> <<>>, todo |-> {}, at |-> Nil] : w \in Workers}]

(***************************************************************************)
(* state_mgr.  M is what a turn of it may change.                          *)
(***************************************************************************)
Manager == [state |-> state, locked |-> locked, waitting |-> waitting,
            req |-> req]
SetManager(M) ==
  /\ state' = M.state /\ locked' = M.locked
  /\ waitting' = M.waitting /\ req' = M.req

NamesOf(q) == {q[i] : i \in DOMAIN q}

(* try_lock: all of the names or none.  A name without a state can be locked. *)
CanLock(M, r) == \A n \in NamesOf(M.req[r].names) : ~M.locked[n]
QueryStates(M, q) == [i \in DOMAIN q |-> M.state[q[i]]]
Grant(M, r) ==
  [M EXCEPT !.locked = [n \in Names |->
                          @[n] \/ n \in NamesOf(M.req[r].names)],
            !.req[r].phase = "granted",
            !.req[r].addrs = QueryStates(M, M.req[r].names)]

(* try_wakup goes through the requests that wait, from the first one to the
   last.  The numbers of those that go on waiting, in order: a name of theirs
   is locked, or was given to one before them. *)
Waits(M, f) ==
  LET W == {f[k] : k \in DOMAIN f} IN
  /\ \A j, k \in DOMAIN f : j < k => f[j] < f[k]
  /\ \A i \in DOMAIN M.waitting :
       i \in W <=> \/ ~CanLock(M, M.waitting[i])
                  \/ \E j \in 1..(i - 1) \ W :
                       NamesOf(M.req[M.waitting[i]].names)
                         \cap NamesOf(M.req[M.waitting[j]].names) # {}
Waiting(M) ==
  {f \in UNION {[1..k -> DOMAIN M.waitting] : k \in 0..Len(M.waitting)} :
     Waits(M, f)}

(* The others get their names; the answers are sent before the turn ends. *)
GrantAll(M, G) ==
  [M EXCEPT !.locked = [n \in Names |->
                          @[n] \/ \E r \in G : n \in NamesOf(M.req[r].names)],
            !.req = [r \in Requests |->
                       IF r \in G THEN Grant(M, r).req[r] ELSE @[r]]]
Wake(M, f) ==
  [GrantAll(M, {M.waitting[i] : i \in DOMAIN M.waitting \ {f[k] : k \in DOMAIN f}})
     EXCEPT !.waitting = [k \in DOMAIN f |-> @[f[k]]]]
TryWakup(M) == \E f \in Waiting(M) : SetManager(Wake(M, f))

(* mutant: the names that are free are locked while others are waited for *)
LockPartly(M, r) ==
  IF CanLock(M, r) THEN Grant(M, r)
  ELSE [M EXCEPT !.waitting = Append(@, r), !.req[r].phase = "waitting",
                 !.locked = [n \in Names |->
                               @[n] \/ n \in NamesOf(M.req[r].names)]]

LockNames(M, r) ==
  IF CanLock(M, r) THEN Grant(M, r)
  ELSE [M EXCEPT !.waitting = Append(@, r), !.req[r].phase = "waitting"]

Turn(r, call) == inbox # <<>> /\ r = Head(inbox) /\ req[r].call = call
EndTurn == inbox' = Tail(inbox)

HandleLock(r) ==
  /\ Turn(r, "lock")
  /\ SetManager(LockNames(Manager, r))
  /\ EndTurn
  /\ UNCHANGED <<spawned, cell, copy>>

(* newstate: a name that has a state fails an assert ... *)
HandleNew(r) ==
  /\ Turn(r, "newstate")
  /\ req' = [req EXCEPT ![r].phase =
               IF state[req[r].names[1]] = Nil THEN "spawning"
               ELSE "failed"]
  /\ EndTurn
  /\ UNCHANGED <<state, locked, waitting, spawned, cell, copy>>

(* ... and the cell is asked of root; other requests are served before the
   answer comes. *)
Spawned(r) ==
  LET n == req[r].names[1]
      c == <<n, spawned[n] + 1>>
  IN
  /\ req[r].phase = "spawning"
  /\ TryWakup([Manager EXCEPT !.state[n] = c, !.locked[n] = FALSE,
                              !.req[r].phase = "done"])
  /\ spawned' = [spawned EXCEPT ![n] = @ + 1]
  /\ cell' = [cell EXCEPT ![c].status = "up"]
  /\ UNCHANGED <<inbox, copy>>

HandleRelease(r) ==
  LET n == req[r].names[1] IN
  /\ Turn(r, "releasestate")
  /\ state' = [state EXCEPT ![n] = Nil]
  /\ cell' = IF state[n] = Nil THEN cell
             ELSE [cell EXCEPT ![state[n]].status = "leaving"]
  /\ req' = [req EXCEPT ![r].phase = "done"]
  /\ EndTurn
  /\ UNCHANGED <<locked, waitting, spawned, copy>>

(* unlock goes through the names in any order.  A turn frees names that have
   no patch until it comes to one that has: it is unlocked when its cell has
   answered.  A name whose state was released has no address to call: the
   coroutine ends there.  After the last name the others are woken. *)
Free(M, F) == [M EXCEPT !.locked = [n \in Names |-> @[n] /\ n \notin F]]

UnlockNames(M, r) ==
  LET patched == M.req[r].todo \cap DOMAIN M.req[r].patch
      others  == M.req[r].todo \ patched
  IN
  \/ /\ patched = {}
     /\ TryWakup([Free(M, others) EXCEPT
                    !.req[r].todo = {}, !.req[r].phase = "done"])
  \/ \E n \in patched, F \in SUBSET others :
       SetManager([Free(M, F) EXCEPT
                     !.req[r].todo = @ \ F, !.req[r].at = M.state[n],
                     !.req[r].phase = IF M.state[n] = Nil THEN "failed"
                                      ELSE "patch"])

HandleUnlock(r) ==
  /\ Turn(r, "unlock")
  /\ UnlockNames(Manager, r)
  /\ EndTurn
  /\ UNCHANGED <<spawned, cell, copy>>

(* mutant: the name is unlocked before its cell has the patch *)
PatchAnswered(r) == req[r].phase \in {"patch", "patched"}

PatchDone(r) == req[r].phase = "patched"

ResumeUnlock(r) ==
  /\ PatchDone(r)
  /\ UnlockNames([Free(Manager, {req[r].at[1]}) EXCEPT
                    !.req[r].todo = @ \ {req[r].at[1]},
                    !.req[r].at = Nil], r)
  /\ UNCHANGED <<spawned, inbox, cell, copy>>

(***************************************************************************)
(* state_cell: the messages query, patch and exit.                         *)
(***************************************************************************)
CellQuery(r) ==
  LET c == req[r].addrs[Len(req[r].old) + 1] IN
  /\ req[r].phase = "query"
  /\ IF cell[c].status = "gone"
     THEN req' = [req EXCEPT ![r].phase = "failed"]
     ELSE req' = [req EXCEPT ![r].phase = "answered",
                             ![r].answer = Reply(c, req[r].v)]
  /\ UNCHANGED <<state, locked, waitting, spawned, inbox, cell, copy>>

(* exit is sent after the patches that were sent to the same address. *)
CellPatch(r) ==
  LET c == req[r].at
      d == req[r].patch[c[1]]
  IN
  /\ req[r].phase = "patch"
  /\ cell' = [cell EXCEPT ![c].patches = Append(@, d), ![c].t = Patch(@, d)]
  /\ req' = [req EXCEPT ![r].phase = "patched"]
  /\ UNCHANGED <<state, locked, waitting, spawned, inbox, copy>>

CellExit(c) ==
  /\ cell[c].status = "leaving"
  /\ \A r \in Requests : req[r].phase = "patch" => req[r].at # c
  /\ cell' = [cell EXCEPT ![c].status = "gone"]
  /\ UNCHANGED <<state, locked, waitting, spawned, inbox, copy, req>>

(***************************************************************************)
(* starre, in a worker.  A call that finds the queue of state_mgr full      *)
(* raises an error.                                                        *)
(***************************************************************************)
Call(r, call, q) ==
  /\ req[r].phase = "start"
  /\ IF Len(inbox) < QueueLen
     THEN /\ inbox' = Append(inbox, r)
          /\ req' = [req EXCEPT ![r].phase = "called", ![r].call = call,
                                ![r].names = q]
     ELSE /\ req' = [req EXCEPT ![r].phase = "failed"]
          /\ UNCHANGED inbox
  /\ UNCHANGED <<state, locked, waitting, spawned, cell, copy>>

Asked(n) == {r \in Requests : req[r].call = "newstate" /\ req[r].names = <<n>>}

New(r) == \E n \in Names :
  /\ Cardinality(Asked(n)) + (IF n \in Boot THEN 1 ELSE 0) < MaxMakes
  /\ Call(r, "newstate", <<n>>)

Release(r) == \E n \in Names : Call(r, "releasestate", <<n>>)

Query(r) == \E q \in Queries : Call(r, "lock", q)

(* The states that are there, from the first one on: ipairs(addrs). *)
Count(addrs) == IF addrs # <<>> /\ addrs[1] # Nil
                THEN IF Len(addrs) = 2 /\ addrs[2] # Nil THEN 2 ELSE 1
                ELSE 0

(* The query of state number i, with the version the worker has of it. *)
Send(R, r, i, C) ==
  [R EXCEPT ![r].phase = "query",
            ![r].v = IF C[R[r].names[i]].version = -1 THEN 0
                     ELSE C[R[r].names[i]].version]

StartQuery(r) ==
  /\ req[r].phase = "granted"
  /\ req' = IF Count(req[r].addrs) = 0
            THEN [req EXCEPT ![r].phase = "failed"]
            ELSE Send(req, r, 1, copy[req[r].worker])
  /\ UNCHANGED <<state, locked, waitting, spawned, inbox, cell, copy>>

(* mutant: the version is taken over, and the patches are not applied *)
UpdateStateNot(old, a) ==
  IF a.version = old.version THEN old
  ELSE [version |-> a.version, t |-> IF a.t # <<>> THEN a.t[1] ELSE old.t]

(* update_state; an answer without table or patches is good for the version
   it was asked for. *)
UpdateState(old, a) ==
  IF a.version = old.version THEN old
  ELSE [version |-> a.version,
        t |-> IF a.t # <<>> THEN a.t[1] ELSE PatchAll(old.t, a.patches)]
Useless(old, a) == a.version # old.version /\ a.t = <<>> /\ a.patches = <<>>

Receive(r) ==
  LET a == req[r].answer
      w == req[r].worker
      i == Len(req[r].old) + 1
      n == req[r].names[i]
      C == [copy[w] EXCEPT ![n] = UpdateState(@, a)]
      R == [req EXCEPT ![r].old = Append(@, C[n].t), ![r].answer = NoReply]
  IN
  /\ req[r].phase = "answered"
  /\ IF Useless(copy[w][n], a)
     THEN /\ req' = [req EXCEPT ![r].phase = "failed"]
          /\ UNCHANGED copy
     ELSE /\ copy' = [copy EXCEPT ![w] = C]
          /\ req' = IF i < Count(req[r].addrs) THEN Send(R, r, i + 1, C)
                    ELSE [R EXCEPT ![r].phase = "work"]
  /\ UNCHANGED <<state, locked, waitting, spawned, inbox, cell>>

(* What the logic of a request makes of the states it got. *)
Edit(t, fs) == [f \in Fields |-> IF f \in fs THEN t[f] + 1 ELSE t[f]]

Edits == {F \in SUBSET Fields : Cardinality(F) < 2}

Advance(old, new) == [version |-> old.version + 1, t |-> new]

(* __close: the differences go to state_mgr, and the worker's copies become
   what the cells will have.  With a name that had no state the coroutine ends
   in an error before it sends anything. *)
Close(r) ==
  LET k == Len(req[r].old)
      w == req[r].worker
  IN
  /\ req[r].phase = "work"
  /\ \E fs \in [1..k -> Edits] :
       LET new     == [i \in 1..k |-> Edit(req[r].old[i], fs[i])]
           Index(n) == CHOOSE i \in 1..k : req[r].names[i] = n
           changed == {req[r].names[i] : i \in {j \in 1..k : fs[j] # {}}}
           sent    == k = Len(req[r].names) /\ Len(inbox) < QueueLen
       IN
       /\ copy' = [copy EXCEPT ![w] = [n \in Names |->
            IF n \in changed THEN Advance(@[n], new[Index(n)]) ELSE @[n]]]
       /\ req' = [req EXCEPT
            ![r].phase = IF sent THEN "unlock" ELSE "failed",
            ![r].call = "unlock",
            ![r].todo = NamesOf(req[r].names),
            ![r].patch = [n \in changed |->
                            Diff(req[r].old[Index(n)], new[Index(n)])]]
       /\ inbox' = IF sent THEN Append(inbox, r) ELSE inbox
  /\ UNCHANGED <<state, locked, waitting, spawned, cell>>

(***************************************************************************)
(* The next-state relation.                                                *)
(***************************************************************************)
ManagerStep ==
  \E r \in Requests :
    \/ HandleLock(r) \/ HandleNew(r) \/ Spawned(r) \/ HandleRelease(r)
    \/ HandleUnlock(r) \/ ResumeUnlock(r)
CellStep ==
  \/ \E r \in Requests : CellQuery(r) \/ CellPatch(r)
  \/ \E c \in Cells : CellExit(c)
WorkerStep == \E r \in Requests : StartQuery(r) \/ Receive(r) \/ Close(r)
Begin == \E r \in Requests : Query(r) \/ New(r) \/ Release(r)

Next == ManagerStep \/ CellStep \/ WorkerStep \/ Begin

Spec == Init /\ [][Next]_vars

(* The services run, and the logic of a request comes to its end. *)
FairSpec ==
  /\ Spec
  /\ WF_vars(ManagerStep) /\ WF_vars(CellStep)
  /\ \A r \in Requests : WF_vars(StartQuery(r) \/ Receive(r) \/ Close(r))

(***************************************************************************)
(* Properties.                                                             *)
(***************************************************************************)
(* The names a request has locked and not yet unlocked. *)
Held(r) ==
  CASE req[r].phase \in {"granted", "query", "answered", "work"} ->
         NamesOf(req[r].names)
    [] req[r].phase \in {"unlock", "patch", "patched"} -> req[r].todo
    [] OTHER -> {}

(* One request at a time has a state (README.md l.42), although locks are
   given to requests that wait, to barging ones, and by newstate, which
   unlocks the name it makes. *)
OneHolder ==
  \A r, s \in Requests : r # s => Held(r) \cap Held(s) = {}

(* A request works on what the cells have, however old the worker's copy was
   and whether it was brought up to date by patches or as a whole. *)
SeesCurrent ==
  \A r \in Requests : req[r].phase = "work" =>
    \A i \in DOMAIN req[r].old : req[r].old[i] = cell[req[r].addrs[i]].t

(* The request's change of cell c is made, and the cell does not have it yet.
   When the request failed the cell never gets it, and its name stays locked:
   nobody sees the cell without it. *)
Pending(r, c) ==
  /\ c[1] \in req[r].todo \cap DOMAIN req[r].patch
  /\ \E i \in DOMAIN req[r].addrs : req[r].addrs[i] = c
  /\ ~(req[r].phase = "patched" /\ req[r].at = c)

(* A worker's copy that claims a version is the table of that version, or the
   one its own unlock is about to make: an answer that holds patches only can
   be applied to it. *)
CopyIsAVersion ==
  \A w \in Workers, n \in Names :
    LET v == copy[w][n].version
        c == <<n, 1>>
    IN  \/ v = -1
        \/ /\ v <= Version(c)
           /\ copy[w][n].t = PatchAll(NewTable(c), SubSeq(cell[c].patches, 1, v))
        \/ /\ v = Version(c) + 1
           /\ \E r \in Requests :
                /\ req[r].worker = w /\ Pending(r, c)
                /\ copy[w][n].t = Patch(cell[c].t, req[r].patch[n])

(* The copies of the workers: each is a version its cell had, and a request that
   has its states works on the current ones (lualib/starre.lua). *)
CopiesKept == TypeOK /\ SeesCurrent /\ CopyIsAVersion

(* The state layer makes a request atomic, whatever its worker had copied and
   in whatever order its states were fetched and its patches applied, and also
   when its unlock fails half-way: it implements Transactions, where a request
   begins with its last fetch and commits when it closes. *)
Value(c) ==
  IF \E r \in Requests : Pending(r, c)
  THEN Patch(cell[c].t,
             req[CHOOSE r \in Requests : Pending(r, c)].patch[c[1]])
  ELSE cell[c].t
Seen(r) ==
  IF req[r].phase # "work" THEN Nil
  ELSE [c \in {req[r].addrs[i] : i \in DOMAIN req[r].old} |->
          req[r].old[CHOOSE i \in DOMAIN req[r].old : req[r].addrs[i] = c]]

A == INSTANCE Transactions WITH
       Objects <- Cells, Values <- LAMBDA t : {Edit(t, fs) : fs \in Edits},
       Default <- NewTable, Idle <- Nil,
       value <- [c \in Cells |-> Value(c)],
       seen <- [r \in Requests |-> Seen(r)]

ImplementsTransactions == A!Spec

(* As long as no request fails, every request whose call is in the queue of
   state_mgr is served to its end: requests for the same names in different
   orders do not wait for each other for ever, and each is woken. *)
EventuallyServed ==
  [](\A r \in Requests : req[r].phase # "failed")
    => \A r \in Requests : (req[r].phase = "called" ~> req[r].phase = "done")
=============================================================================
