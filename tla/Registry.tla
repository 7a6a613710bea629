------------------------------ MODULE Registry ------------------------------
(***************************************************************************)
(* What the root service (ltask/service/root.lua) keeps of the others: the *)
(* anonymous and the named ones, the calls that wait for a name, the       *)
(* services that are being initialised, and the end of all.                *)
(*                                                                         *)
(* An action of root is what it does between two messages.  A coroutine of *)
(* it that waits is in making, in tokenmap, in boot or in quitting.  NEW   *)
(* and HANG are answered by the scheduler within the turn, and a queue     *)
(* always has room here (Scheduler and Session have the rest).             *)
(***************************************************************************)
EXTENDS Naturals, Sequences, FiniteSets, SequencesExt

CONSTANTS Address,    \* what NEW returns, the least first; then it fails (bound):
                      \* the rest of the pool is taken
          Exclusive,  \* an exclusive service, initialised before the model begins
          Name,       \* names of services that are unique
          Logger,     \* config.logger, one of them
          Calls,      \* calls of services to root (bound)
          Boot,       \* the coroutine of boot
          Error, Done, \* answers that are no addresses
          Nothing     \* nil

Service == Address \cup {Exclusive}
Caller == Calls \cup {Boot}
Key == {"unique", "query"} \X Name
Quitter == {"boot", "signal"}
Purpose == ({"unique"} \X Name) \cup ({"spawn"} \X Caller)
Operation == {"query", "unique", "register", "spawn"}
CallRecord == [from : Address \cup {Nothing}, op : Operation,
               name : Name \cup {Nothing}, answer : Service \cup {Nothing, Error, Done}]
Letter == ({"call"} \X Calls) \cup ({"inited"} \X Address \X BOOLEAN)
             \cup ({"signal"} \X Service) \cup ({"quitted"} \X (Service \X Quitter))
             \cup {<<"init_error">>}

RegistryAssumption ==
  /\ Address \subseteq Nat /\ IsFiniteSet(Address) /\ 1 \in Address
  /\ {Exclusive, Nothing, Error, Done} \cap (Address \cup Calls) = {}
  /\ Logger \in Name /\ Boot \notin Calls
  /\ Nothing \notin {Exclusive, Error, Done} \cup CallRecord

ASSUME RegistryAssumed == RegistryAssumption

VARIABLES
  state,              \* of each service
  anonymous_services,
  named_services,     \* the list, with the address of each name
  tokenmap,           \* who waits for each key; none is nil
  job,                \* what each address was made for
  making,             \* the addresses whose answer to init is awaited
  boot,               \* how far boot is
  quitting,           \* how far quit is, called from boot or on a signal
  asked,              \* the services that have root's "quit" in their queues, for whom
  ended,              \* ltask.quit was called
  inbox,              \* root's messages
  req,                \* the calls of services
  broken,             \* names whose creation ended by an error (history)
  late                \* addresses made when root was about to end (history)

rootVars == <<state, anonymous_services, named_services, tokenmap, job, making, boot,
              quitting, asked, ended, inbox, req, broken, late>>

RootTypeOK ==
  /\ state \in [Service -> {"none", "init", "failed", "up", "dead", "signalled", "closed"}]
  /\ anonymous_services \subseteq Address
  /\ named_services \in Seq((Name \cup {Exclusive}) \X Service)
  /\ tokenmap \in [Key -> SUBSET Caller]
  /\ job \in [Address -> Purpose \cup {Nothing}] /\ making \subseteq Address
  /\ boot \in {"logger", "bootstrap", "spawning", "quit", "done", "failed"}
  /\ quitting \in [Quitter -> [at : {"no", "next", "asking"}, i : 0..Len(named_services)]]
  /\ asked \subseteq Service \X Quitter /\ ended \in BOOLEAN
  /\ inbox \in Seq(Letter) /\ req \in [Calls -> CallRecord \cup {Nothing}]
  /\ broken \subseteq Name /\ late \subseteq Address

(* boot has registered the exclusive services and asked for the logger. *)
RootInit ==
  /\ state = [s \in Service |-> CASE s = 1 -> "init" [] s = Exclusive -> "up" [] OTHER -> "none"]
  /\ anonymous_services = {1} /\ named_services = << <<Exclusive, Exclusive>> >>
  /\ tokenmap = [k \in Key |-> IF k = <<"unique", Logger>> THEN {Boot} ELSE {}]
  /\ job = [a \in Address |-> IF a = 1 THEN <<"unique", Logger>> ELSE Nothing]
  /\ making = {1} /\ boot = "logger"
  /\ quitting = [w \in Quitter |-> [at |-> "no", i |-> 0]]
  /\ asked = {} /\ ended = FALSE
  /\ inbox = <<>> /\ req = [r \in Calls |-> Nothing]
  /\ broken = {} /\ late = {}

Quits == \E w \in Quitter : quitting[w].at # "no"
Live(s) == state[s] \in {"init", "failed", "up"}

-----------------------------------------------------------------------------
(* Root *)

Registered(n) == \E i \in DOMAIN named_services : named_services[i][1] = n
Lookup(n) == named_services[CHOOSE i \in DOMAIN named_services : named_services[i][1] = n][2]

(* send_response or send_error to the calls in R *)
Answer(R, x) ==
  req' = [r \in Calls |-> IF r \in R THEN [req[r] EXCEPT !.answer = x] ELSE req[r]]

Free == {a \in Address : state[a] = "none"}

(* mutant: a new service is not counted *)
CountedNot(a) == anonymous_services

Counted(a) == anonymous_services \cup {a}

(* new_service up to the answer of init, when NEW finds a slot *)
NewService(j) ==
  LET a == CHOOSE x \in Free : \A y \in Free : x <= y
  IN /\ state' = [state EXCEPT ![a] = "init"]
     /\ anonymous_services' = Counted(a)
     /\ job' = [job EXCEPT ![a] = j] /\ making' = making \cup {a}
     /\ late' = IF Quits THEN late \cup {a} ELSE late

NoNewService == UNCHANGED <<state, anonymous_services, job, making, late>>

(* Root takes a message when its coroutines have nothing else to do. *)
Turn == /\ ~ended /\ boot \notin {"bootstrap", "quit"}
        /\ \A w \in Quitter : quitting[w].at # "next"

Receive(m) == Turn /\ inbox # <<>> /\ Head(inbox) = m
Took == inbox' = Tail(inbox)

(* S.queryservice *)
QueryService(r) ==
  LET n == req[r].name
  IN /\ Receive(<<"call", r>>) /\ req[r].op = "query"
     /\ IF Registered(n) THEN Answer({r}, Lookup(n)) /\ UNCHANGED tokenmap
        ELSE tokenmap' = [tokenmap EXCEPT ![<<"query", n>>] = @ \cup {r}] /\ UNCHANGED req
     /\ Took /\ NoNewService
     /\ UNCHANGED <<named_services, boot, quitting, asked, ended, broken>>

(* mutant: whoever else waits for it, the service is made *)
IsFirstAlways(n) == TRUE

IsFirst(n) == tokenmap[<<"unique", n>>] = {}

(* S.uniqueservice.  The coroutine that makes the service begins in this turn;
   an error of NEW ends it, and the calls wait on. *)
UniqueService(r) ==
  LET n == req[r].name
  IN /\ Receive(<<"call", r>>) /\ req[r].op = "unique"
     /\ IF Registered(n)
        THEN Answer({r}, Lookup(n)) /\ NoNewService /\ UNCHANGED <<tokenmap, broken>>
        ELSE /\ tokenmap' = [tokenmap EXCEPT ![<<"unique", n>>] = @ \cup {r}]
             /\ CASE ~IsFirst(n) -> NoNewService /\ UNCHANGED broken
                  [] IsFirst(n) /\ Free # {} -> NewService(<<"unique", n>>) /\ UNCHANGED broken
                  [] IsFirst(n) /\ Free = {} -> NoNewService /\ broken' = broken \cup {n}
             /\ UNCHANGED req
     /\ Took /\ UNCHANGED <<named_services, boot, quitting, asked, ended>>

(* S.spawn *)
Spawn(r) ==
  /\ Receive(<<"call", r>>) /\ req[r].op = "spawn"
  /\ IF Free # {} THEN NewService(<<"spawn", r>>) /\ UNCHANGED req
     ELSE NoNewService /\ Answer({r}, Error)
  /\ Took /\ UNCHANGED <<named_services, tokenmap, boot, quitting, asked, ended, broken>>

(* register_service, with the calls it wakes for the keys in K *)
Register(s, n, K) ==
  /\ anonymous_services' = anonymous_services \ {s}
  /\ named_services' = Append(named_services, <<n, s>>)
  /\ tokenmap' = [k \in Key |-> IF k \in K THEN {} ELSE tokenmap[k]]

(* S.register *)
RegisterSelf(r) ==
  LET n == req[r].name
      query == <<"query", n>>
  IN /\ Receive(<<"call", r>>) /\ req[r].op = "register"
     /\ IF Registered(n)
        THEN Answer({r}, Error) /\ UNCHANGED <<anonymous_services, named_services, tokenmap>>
        ELSE /\ Register(req[r].from, n, {query})
             /\ req' = [x \in Calls |->
                  CASE x = r -> [req[x] EXCEPT !.answer = Done]
                    [] x \in tokenmap[query] \ {r} -> [req[x] EXCEPT !.answer = req[r].from]
                    [] OTHER -> req[x]]
     /\ Took /\ UNCHANGED <<state, job, making, boot, quitting, asked, ended, broken, late>>

(* The coroutines of jobs and calls go on with the result x, boot among them if
   it is one of W: an error in it is a message to root itself, session 0. *)
Resume(W, x) ==
  /\ Answer(W, x)
  /\ inbox' = Tail(inbox) \o IF Boot \in W /\ x = Error THEN << <<"init_error">> >> ELSE <<>>
  /\ boot' = IF Boot \notin W THEN boot
             ELSE IF x = Error THEN "failed"
             ELSE IF boot = "logger" THEN "bootstrap" ELSE "quit"

Made(a) == /\ making' = making \ {a}
           /\ UNCHANGED <<job, quitting, asked, ended, late>>

(* The service of a name is initialised.  If another one has registered the
   name meanwhile, register_service raises in the coroutine that made it. *)
MadeUnique(a) ==
  LET n == job[a][2]
      K == {<<"query", n>>, <<"unique", n>>}
  IN /\ Receive(<<"inited", a, TRUE>>) /\ job[a][1] = "unique"
     /\ IF Registered(n)
        THEN /\ broken' = broken \cup {n}
             /\ Resume({}, a)
             /\ UNCHANGED <<anonymous_services, named_services, tokenmap>>
        ELSE /\ Register(a, n, K)
             /\ Resume(UNION {tokenmap[k] : k \in K}, a) /\ UNCHANGED broken
     /\ Made(a) /\ UNCHANGED state

MadeSpawned(a) ==
  /\ Receive(<<"inited", a, TRUE>>) /\ job[a][1] = "spawn"
  /\ Resume({job[a][2]}, a)
  /\ Made(a) /\ UNCHANGED <<state, anonymous_services, named_services, tokenmap, broken>>

(* mutant: the calls are not interrupted *)
ToldNoOne(a) == {}

(* Who is told that it was not made *)
ToldOf(a) == IF job[a][1] = "unique" THEN tokenmap[job[a]] ELSE {job[a][2]}

(* init failed: S.kill, and multi_interrupt or an error *)
NotMade(a) ==
  /\ Receive(<<"inited", a, FALSE>>)
  /\ state' = [state EXCEPT ![a] = IF Live(a) THEN "dead" ELSE @]
  /\ tokenmap' = IF job[a][1] = "unique" THEN [tokenmap EXCEPT ![job[a]] = @ \ ToldOf(a)]
                 ELSE tokenmap
  /\ Resume(ToldOf(a), Error)
  /\ Made(a) /\ UNCHANGED <<anonymous_services, named_services, broken>>

(* boot has the logger, and spawns the bootstrap service. *)
BootSpawn ==
  /\ ~ended /\ boot = "bootstrap"
  /\ IF Free # {} THEN NewService(<<"spawn", Boot>>) /\ boot' = "spawning" /\ UNCHANGED inbox
     ELSE NoNewService /\ boot' = "failed" /\ inbox' = Append(inbox, <<"init_error">>)
  /\ UNCHANGED <<named_services, tokenmap, quitting, asked, ended, req, broken>>

(* quit begins if no service is anonymous. *)
QuitWhen(ok, w) ==
  quitting' = IF ok THEN [quitting EXCEPT ![w] = [at |-> "next", i |-> Len(named_services)]]
              ELSE quitting

(* boot has ended; root quits if all have gone by now. *)
BootQuit ==
  /\ ~ended /\ boot = "quit"
  /\ boot' = "done" /\ QuitWhen(anonymous_services = {}, "boot")
  /\ UNCHANGED <<state, anonymous_services, named_services, tokenmap, job, making, asked,
                 ended, inbox, req, broken, late>>

(* init_receipt, for an error of boot: ltask.quit *)
InitError ==
  /\ Receive(<<"init_error">>) /\ Took /\ ended' = TRUE
  /\ UNCHANGED <<state, anonymous_services, named_services, tokenmap, job, making, boot,
                 quitting, asked, req, broken, late>>

(* mutant: what is left in its queue is not answered *)
OwnRequestsNone(s) == {}

(* close_service: root's own requests in the queue of s, which root answers *)
OwnRequests(s) == {x \in asked : x[1] = s}

(* The signal handler: del_service, and quit when it is not under way. *)
DelService(s) ==
  /\ Receive(<<"signal", s>>)
  /\ state' = [state EXCEPT ![s] = "closed"]
  /\ anonymous_services' = anonymous_services \ {s}
  /\ \E answers \in SetToSeqs(OwnRequests(s)) :
       inbox' = Tail(inbox) \o [i \in DOMAIN answers |-> <<"quitted", answers[i]>>]
  /\ asked' = {x \in asked : x[1] # s}
  /\ QuitWhen(~Quits /\ anonymous_services' = {}, "signal")
  /\ UNCHANGED <<named_services, tokenmap, job, making, boot, ended, req, broken, late>>

(* The loop of quit: the named services from the last one on, then the end. *)
QuitNext(w) ==
  LET s == named_services[quitting[w].i][2]
  IN /\ ~ended /\ quitting[w].at = "next"
     /\ IF quitting[w].i = 0 THEN ended' = TRUE /\ UNCHANGED <<quitting, asked>>
        ELSE IF Live(s) THEN /\ quitting' = [quitting EXCEPT ![w].at = "asking"]
                             /\ asked' = asked \cup {<<s, w>>} /\ UNCHANGED ended
        ELSE quitting' = [quitting EXCEPT ![w].i = @ - 1] /\ UNCHANGED <<asked, ended>>
     /\ UNCHANGED <<state, anonymous_services, named_services, tokenmap, job, making, boot,
                    inbox, req, broken, late>>

Quitted(s, w) ==
  /\ Receive(<<"quitted", <<s, w>> >>) /\ Took
  /\ quitting' = [quitting EXCEPT ![w] = [at |-> "next", i |-> @.i - 1]]
  /\ UNCHANGED <<state, anonymous_services, named_services, tokenmap, job, making, boot, asked,
                 ended, req, broken, late>>

RootStep ==
  \/ \E r \in Calls : QueryService(r) \/ UniqueService(r) \/ Spawn(r) \/ RegisterSelf(r)
  \/ \E a \in Address : MadeUnique(a) \/ MadeSpawned(a) \/ NotMade(a)
  \/ BootSpawn \/ BootQuit \/ InitError
  \/ \E s \in Service : DelService(s)
  \/ \E w \in Quitter : QuitNext(w) \/ \E s \in Service : Quitted(s, w)

-----------------------------------------------------------------------------
(* The services *)

ServiceOnly == UNCHANGED <<anonymous_services, named_services, tokenmap, job, making, boot,
                           quitting, ended, broken, late>>
PostRoot(m) == inbox' = Append(inbox, m)

(* A service calls root, while it is initialised or later.  Who called matters
   to S.register alone. *)
CallRoot(s, op, n) ==
  LET r == CHOOSE x \in Calls : req[x] = Nothing
  IN /\ state[s] \in {"init", "up"} /\ s # Exclusive /\ \E x \in Calls : req[x] = Nothing
     /\ req' = [req EXCEPT ![r] = [from |-> IF op = "register" THEN s ELSE Nothing,
                                   op |-> op, name |-> n, answer |-> Nothing]]
     /\ PostRoot(<<"call", r>>)
     /\ ServiceOnly /\ UNCHANGED <<state, asked>>

(* init returns, raises, or quits; a service that raised stays until it is
   killed. *)
Inited(a, result) ==
  /\ state[a] = "init"
  /\ state' = [state EXCEPT ![a] = result]
  /\ PostRoot(<<"inited", a, result = "up">>)
  /\ ServiceOnly /\ UNCHANGED <<asked, req>>

(* A service quits or is killed; an exclusive one cannot be. *)
Die(a) ==
  /\ state[a] = "up"
  /\ state' = [state EXCEPT ![a] = "dead"]
  /\ ServiceOnly /\ UNCHANGED <<asked, inbox, req>>

(* The scheduler tells root, after all the service has posted. *)
SignalRoot(a) ==
  /\ state[a] = "dead"
  /\ state' = [state EXCEPT ![a] = "signalled"]
  /\ PostRoot(<<"signal", a>>)
  /\ ServiceOnly /\ UNCHANGED <<asked, req>>

(* sys_service.quit, in a coroutine of its own, also while init waits or when it
   has failed *)
AnswerQuit(s, w) ==
  /\ <<s, w>> \in asked /\ Live(s)
  /\ asked' = asked \ {<<s, w>>} /\ PostRoot(<<"quitted", <<s, w>> >>)
  /\ ServiceOnly /\ UNCHANGED <<state, req>>

ServiceStep ==
  \/ \E s \in Service :
       \/ \E op \in {"query", "unique", "register"}, n \in Name : CallRoot(s, op, n)
       \/ CallRoot(s, "spawn", Nothing)
  \/ \E a \in Address :
       \/ \E result \in {"up", "failed", "dead"} : Inited(a, result)
       \/ Die(a) \/ SignalRoot(a)
  \/ \E s \in Service, w \in Quitter : AnswerQuit(s, w)

RootNext == ~ended /\ (RootStep \/ ServiceStep)

(* Root runs, signals come, and services answer "quit". *)
FairSpec ==
  /\ RootInit /\ [][RootNext]_rootVars
  /\ WF_rootVars(RootStep)
  /\ \A a \in Address : WF_rootVars(SignalRoot(a))
  /\ \A s \in Service, w \in Quitter : WF_rootVars(AnswerQuit(s, w))

-----------------------------------------------------------------------------
(* Among the services made for a name at most one lives, and all calls for the
   name that were answered have the address of the one that is registered. *)
OneMade ==
  \A n \in Name :
    /\ Cardinality({a \in Address : Live(a) /\ job[a] = <<"unique", n>>}) <= 1
    /\ \A r \in Calls :
         req[r] # Nothing /\ req[r].op \in {"unique", "query"} /\ req[r].name = n
           => req[r].answer \in {Nothing, Error} \/ req[r].answer = Lookup(n)

(* The tables of root are of their types, and no service is made twice for a
   name (root.lua: S.uniqueservice). *)
OnePerName == RootTypeOK /\ OneMade

(* A call that is not answered is owed an answer: it is in root's queue, its
   service is being made, or its name is not registered yet.  Calls for a name
   whose creation ended by an error wait on: the pool was full, or another
   service took the name. *)
InMaking(j) == \E a \in making : job[a] = j
Owed(r) ==
  LET n == req[r].name
  IN \/ Contains(inbox, <<"call", r>>)
     \/ req[r].op = "spawn" /\ InMaking(<<"spawn", r>>)
     \/ req[r].op = "query" /\ ~Registered(n) /\ r \in tokenmap[<<"query", n>>]
     \/ /\ req[r].op = "unique" /\ r \in tokenmap[<<"unique", n>>]
        /\ InMaking(<<"unique", n>>) \/ n \in broken
NoCallForgotten == \A r \in Calls : req[r] # Nothing /\ req[r].answer = Nothing => Owed(r)

(* When root begins to quit all services that live have names, so that it
   tells them; but for those that are made while it waits for their answers,
   and when boot fails. *)
EndsLast ==
  Quits =>
    \A a \in Address \ late :
      Live(a) => \E i \in DOMAIN named_services : named_services[i][2] = a

(* Root ends once it has begun to quit, whatever the services it asks do, and
   whoever dies or calls meanwhile. *)
QuitEnds == Quits ~> ended
=============================================================================
