----------------------------- MODULE Account_proof ---------------------------
(***************************************************************************)
(* Proofs about module Session, continued: a coroutine that waits for an   *)
(* answer is owed exactly one, and no service gets an answer it does not   *)
(* know the session of.                                                    *)
(*                                                                         *)
(* An answer that is due is at a site: in the tables of a service, in a    *)
(* queue or with the timer service.  The invariant Account says of each    *)
(* call of a service that lives that it is at one site at most and there   *)
(* once (Once), that it is nowhere when its session was answered, and that *)
(* it is somewhere while a coroutine waits.  A step moves it, begins it    *)
(* with a new session, or ends it with the answer or with `lost'.  What a  *)
(* quitting service has sent an error for (`told') is an exception: it may *)
(* be at more sites, of which only those of the error count.               *)
(***************************************************************************)
EXTENDS Session_proof

-----------------------------------------------------------------------------
(* Where an answer to a call is.  With h FALSE only what comes of an error    *)
(* that was sent by a service that quits.                                    *)

HeldBy(v, t, call) == v.from[t] = call[1] /\ v.session[t] = call[2]
TodoBy(v, t, call) == call \in v.todo[t] /\ v.job[t] # "quitting"
(* A wakeup a service posts to itself has no session until it arrives. *)
PostAnswers(v, call) ==
  PostCarries(v, call) /\ v.post.then \in {"response", "raised", "tell", "later"}
PostHas(v, call, h) ==
  PostAnswers(v, call) /\ (h \/ v.post.then \in {"tell", "later"})
MailHas(m, to, call, h) ==
  MailCarries(m, to, call) /\ (h \/ m.report # None \/ m.type # "request")

HasV(v, call, h) ==
  \/ PostHas(v, call, h)
  \/ h /\ \E t \in Thread : HeldBy(v, t, call)
  \/ \E t \in Thread : TodoBy(v, t, call)
HasQ(q, to, call, h) == \E i \in DOMAIN q : MailHas(q[i], to, call, h)

Sites == Services \X {"vm", "queue", "timer"}
At(x, call, h) ==
  \/ x[2] = "vm" /\ HasV(vm[x[1]], call, h)
  \/ x[2] = "queue" /\ HasQ(queue[x[1]], x[1], call, h)
  \/ x[2] = "timer" /\ x[1] = call[1] /\ call \in timers
Has(call, h) == \E x \in Sites : At(x, call, h)

OnceV(v, call) ==
  /\ \A t, u \in Thread : HeldBy(v, t, call) /\ HeldBy(v, u, call) => t = u
  /\ \A t, u \in Thread : TodoBy(v, t, call) /\ TodoBy(v, u, call) => t = u
  /\ \A t, u \in Thread : ~ (HeldBy(v, t, call) /\ TodoBy(v, u, call))
  /\ PostAnswers(v, call) =>
       \A t \in Thread : ~ HeldBy(v, t, call) /\ ~ TodoBy(v, t, call)
OnceQ(q, to, call) ==
  \A i, j \in DOMAIN q :
    MailCarries(q[i], to, call) /\ MailCarries(q[j], to, call) => i = j
Once(call) ==
  /\ \A s \in Services : OnceV(vm[s], call) /\ OnceQ(queue[s], s, call)
  /\ \A x, y \in Sites : At(x, call, TRUE) /\ At(y, call, TRUE) => x = y

Account(c, k) ==
  LET call == <<c, k>>
  IN /\ call \notin told => Once(call)
     /\ call \notin told /\ k < vm[c].next /\ vm[c].lookup[k] = None
          => ~ Has(call, TRUE)
     /\ Awaited(c, k) =>
          /\ call \notin lost => Has(call, call \notin told)
          /\ call \in lost \ told => ~ Has(call, TRUE)
Accounts ==
  \A c \in Services, k \in Sessions : vm[c].state = "live" => Account(c, k)

-----------------------------------------------------------------------------
(* What a service keeps beside Good. *)

(* A coroutine holds a request only while it executes it, and has errors to
   send only for that. *)
JobKept(s, v) ==
  \A t \in Thread :
    /\ v.job[t] \in {"free", "user", "quit"} => v.todo[t] = {}
    /\ v.job[t] = "free" => v.from[t] = None
    /\ v.job[t] # "user" => v.from[t] = None \/ v.session[t] = 0
    /\ s # Root => /\ v.from[t] # None => v.session[t] # 0
                   /\ \A call \in v.todo[t] : call[2] # 0

LookupKept(v) ==
  \A k \in 0..MaxSession : k = 0 \/ k >= v.next => v.lookup[k] = None

PostKept(s, v) ==
  LET m == v.post
  IN m # None =>
       /\ m.then \in {"call", "send", "sleep", "timeout", "select", "response"}
            => v.run \in Thread /\ v.job[v.run] = "user"
       /\ m.then = "response" => v.from[v.run] = None /\ m.type = "response"
       /\ m.then \in {"raised", "tell"} => m.type = "error"
       /\ m.then = "raised" => v.run = None
       /\ m.then \in {"tell", "later"} => v.job[v.run] \in {"tell", "quitting"}
       /\ m.then = "report" => v.job[v.run] = "report" /\ v.todo[v.run] = {m.report}
       /\ s # Root /\ m.then \in {"response", "raised", "tell"} => m.session # 0
       /\ s # Root /\ m.then = "later" => m.report[2] # 0

Kept(s, v) == JobKept(s, v) /\ LookupKept(v) /\ PostKept(s, v)

(* A dead service keeps nothing. *)
Emptied(v) == v.state # "live" => v = EmptyVM(v.state)

LetterOK(r, m) ==
  /\ m.type = "request" => IF r = Root THEN m.report \in Call /\ m.session = 0
                           ELSE m.report = None /\ m.session # 0
  /\ m.type # "request" => m.report = None
  /\ m.type \in {"response", "error"} /\ m.session = 0 => m.from = Root
Letters == \A r \in Services : \A i \in DOMAIN queue[r] : LetterOK(r, queue[r][i])

(* What was lost or told was asked for. *)
Past ==
  \A c \in Services, k \in Sessions :
    vm[c].state = "live" /\ <<c, k>> \in lost \cup told => Asks(vm[c], k)

AccountInv ==
  /\ Inv
  /\ Letters
  /\ \A s \in Services : Kept(s, vm[s]) /\ Emptied(vm[s])
  /\ ~ aborted => Past /\ Accounts

-----------------------------------------------------------------------------
(* What a step does to one call.                                           *)

(* An answer that is somewhere is due. *)
LEMMA HasVDue ==
  ASSUME NEW s, NEW v, PostOK(s, v), NEW c \in Services, NEW k \in Sessions,
         NEW h \in BOOLEAN, HasV(v, <<c, k>>, h)
  PROVE  DueVM(v, <<c, k>>)
<1> DEFINE call == <<c, k>>
<1>1. CASE PostHas(v, call, h)
  <2>1. v.post # None /\ PostAnswers(v, call)
    BY <1>1 DEF PostHas, PostAnswers, PostCarries
  <2>2. v.post.then = "later" => v.post.report # None
    BY <2>1, NilAssumption DEF PostOK
  <2>3. DuePost(v.post, call)
    BY <2>1, <2>2 DEF PostAnswers, PostCarries, DuePost
  <2> QED BY <2>1, <2>3 DEF DueVM
<1>2. CASE \E t \in Thread : HeldBy(v, t, call)
  BY <1>2 DEF HeldBy, DueVM
<1>3. CASE \E t \in Thread : TodoBy(v, t, call)
  BY <1>3 DEF TodoBy, DueVM
<1> QED BY <1>1, <1>2, <1>3 DEF HasV

LEMMA HasDue ==
  ASSUME AccountInv, NEW c \in Services, NEW k \in Sessions, NEW h \in BOOLEAN,
         Has(<<c, k>>, h)
  PROVE  Due(<<c, k>>)
<1>1. PICK x \in Sites : At(x, <<c, k>>, h)
  BY DEF Has
<1>2. x[1] \in Services
  BY DEF Sites
<1>3. CASE HasV(vm[x[1]], <<c, k>>, h)
  <2>1. PostOK(x[1], vm[x[1]])
    BY <1>2 DEF AccountInv, Inv, Good
  <2>2. DueVM(vm[x[1]], <<c, k>>)
    BY <1>3, <2>1, HasVDue, NotACall, NilAssumption
  <2> QED BY <1>2, <2>2 DEF Due
<1>4. CASE HasQ(queue[x[1]], x[1], <<c, k>>, h)
  <2>1. PICK i \in DOMAIN queue[x[1]] : MailCarries(queue[x[1]][i], x[1], <<c, k>>)
    BY <1>4 DEF HasQ, MailHas
  <2>2. LetterOK(x[1], queue[x[1]][i])
    BY <1>2 DEF AccountInv, Letters
  <2>3. DueMail(x[1], queue[x[1]][i], <<c, k>>)
    BY <2>1, <2>2 DEF MailCarries, DueMail, LetterOK
  <2> QED BY <1>2, <2>3 DEF DueQueue, DueOut, Due
<1>5. CASE <<c, k>> \in timers
  BY <1>5 DEF Due, DueOut
<1> QED BY <1>1, <1>3, <1>4, <1>5 DEF At

(* A coroutine of the service v is suspended until session k is answered. *)
AwaitedV(v, k) ==
  /\ v.state = "live"
  /\ \/ v.lookup[k] \in Thread
     \/ v.lookup[k] = Select /\ v.sel # None /\ k \in v.sel.sessions \cup {v.sel.timer}

(* From v to w no coroutine begins to wait for session k, and k is not left. *)
WaitsOn(v, w, k) ==
  w.state = "live" =>
    /\ v.state = "live"
    /\ Asks(v, k) => Asks(w, k)
    /\ AwaitedV(w, k) => AwaitedV(v, k)
    /\ Asks(v, k) /\ k < w.next /\ w.lookup[k] = None => k < v.next /\ v.lookup[k] = None

(* A step that leaves the call alone, or takes the answer from site x to y or
   back, or drops it there. *)
Steps(call, x, y) ==
  /\ \A z \in Sites \ {x, y}, h \in BOOLEAN : At(z, call, h)' <=> At(z, call, h)
  /\ call \notin told =>
       /\ At(x, call, TRUE)' \/ At(y, call, TRUE)' => At(x, call, TRUE) \/ At(y, call, TRUE)
       /\ At(x, call, TRUE)' /\ At(y, call, TRUE)' =>
            x = y \/ (At(x, call, TRUE) /\ At(y, call, TRUE))
       /\ call \in lost' \ lost =>
            /\ At(x, call, TRUE) \/ At(y, call, TRUE)
            /\ ~At(x, call, TRUE)' /\ ~At(y, call, TRUE)'
  /\ LET h == call \notin told
     IN At(x, call, h) \/ At(y, call, h) =>
          At(x, call, h)' \/ At(y, call, h)' \/ call \in lost'

LEMMA Flow ==
  ASSUME AccountInv, ~aborted, lost \subseteq lost',
         NEW c \in Services, NEW k \in Sessions, vm'[c].state = "live",
         WaitsOn(vm[c], vm'[c], k),
         <<c, k>> \in told' <=> <<c, k>> \in told,
         NEW x \in Sites, NEW y \in Sites, Steps(<<c, k>>, x, y),
         <<c, k>> \notin told /\ Once(<<c, k>>) =>
           \A s \in Services : OnceV(vm'[s], <<c, k>>) /\ OnceQ(queue'[s], s, <<c, k>>)
  PROVE  Account(c, k)'
<1> DEFINE call == <<c, k>>
<1>1. vm[c].state = "live" /\ Account(c, k)
  BY DEF AccountInv, Accounts, WaitsOn
<1>2. Awaited(c, k)' => Awaited(c, k)
  BY DEF WaitsOn, Awaited, AwaitedV
<1>3. ASSUME call \notin told
      PROVE  /\ Once(call)'
             /\ Has(call, TRUE)' => Has(call, TRUE)
             /\ Has(call, TRUE) => Has(call, TRUE)' \/ call \in lost'
             /\ call \in lost' \ lost => ~Has(call, TRUE)'
  <2>1. Once(call)
    BY <1>1, <1>3 DEF Account
  <2>2. \A z, u \in Sites : At(z, call, TRUE) /\ At(u, call, TRUE) => z = u
    BY <2>1 DEF Once
  <2>3. \A z \in Sites \ {x, y} : At(z, call, TRUE)' <=> At(z, call, TRUE)
    BY DEF Steps
  <2>4. /\ At(x, call, TRUE)' \/ At(y, call, TRUE)' => At(x, call, TRUE) \/ At(y, call, TRUE)
        /\ At(x, call, TRUE)' /\ At(y, call, TRUE)' =>
             x = y \/ (At(x, call, TRUE) /\ At(y, call, TRUE))
        /\ At(x, call, TRUE) \/ At(y, call, TRUE) =>
             At(x, call, TRUE)' \/ At(y, call, TRUE)' \/ call \in lost'
        /\ call \in lost' \ lost =>
             /\ At(x, call, TRUE) \/ At(y, call, TRUE)
             /\ ~At(x, call, TRUE)' /\ ~At(y, call, TRUE)'
    BY <1>3 DEF Steps
  <2>5. Has(call, TRUE)' <=> \E z \in Sites : At(z, call, TRUE)'
    BY DEF Has
  <2>6. Has(call, TRUE) <=> \E z \in Sites : At(z, call, TRUE)
    BY DEF Has
  <2>7. \A z, u \in Sites : At(z, call, TRUE)' /\ At(u, call, TRUE)' => z = u
    BY <2>2, <2>3, <2>4
  <2>8. Once(call)'
    BY <1>3, <2>1, <2>7 DEF Once
  <2> QED BY <2>2, <2>3, <2>4, <2>5, <2>6, <2>8
<1>4. ASSUME call \in told, Has(call, FALSE)
      PROVE  Has(call, FALSE)' \/ call \in lost'
  BY <1>4 DEF Steps, Has
<1>5. call \notin told /\ k < vm'[c].next /\ vm'[c].lookup[k] = None => ~Has(call, TRUE)'
  <2>1. ASSUME call \notin told, k < vm'[c].next, vm'[c].lookup[k] = None,
               Has(call, TRUE)'
        PROVE  FALSE
    <3>1. Has(call, TRUE)
      BY <1>3, <2>1
    <3>2. Asks(vm[c], k)
      BY <1>1, <3>1, HasDue DEF AccountInv, Inv, Asked
    <3>3. k < vm[c].next /\ vm[c].lookup[k] = None
      BY <2>1, <3>2 DEF WaitsOn
    <3> QED BY <1>1, <2>1, <3>1, <3>3 DEF Account
  <2> QED BY <2>1
<1>6. Awaited(c, k) /\ call \notin lost' => Has(call, call \notin told)'
  <2>1. CASE call \notin told
    BY <1>1, <1>3, <2>1 DEF Account
  <2>2. CASE call \in told
    BY <1>1, <1>4, <2>2 DEF Account
  <2> QED BY <2>1, <2>2
<1>7. Awaited(c, k) /\ call \in lost' \ told => ~Has(call, TRUE)'
  BY <1>1, <1>3 DEF Account
<1>8. call \notin told => Once(call)'
  BY <1>3
<1>9. (call \notin told)' = (call \notin told)
  OBVIOUS
<1> QED BY <1>2, <1>5, <1>6, <1>7, <1>8, <1>9 DEF Account

(* An answer that has not been asked for is nowhere. *)
LEMMA NothingYet ==
  ASSUME AccountInv, ~aborted, NEW c \in Services, NEW k \in Sessions,
         vm[c].state = "live", ~Asks(vm[c], k)
  PROVE  /\ \A h \in BOOLEAN, z \in Sites : ~At(z, <<c, k>>, h)
         /\ <<c, k>> \notin lost \cup told
<1>1. \A h \in BOOLEAN : ~Has(<<c, k>>, h)
  BY HasDue DEF AccountInv, Inv, Asked
<1> QED BY <1>1 DEF Has, AccountInv, Past

(* A session begins, and its answer is at site y. *)
LEMMA Begins ==
  ASSUME NEW c \in Services, NEW k \in Sessions,
         <<c, k>> \notin lost' \cup told', vm'[c].lookup[k] # None,
         NEW y \in Sites, At(y, <<c, k>>, TRUE)',
         \A z \in Sites : z # y => ~At(z, <<c, k>>, TRUE)',
         \A s \in Services : OnceV(vm'[s], <<c, k>>) /\ OnceQ(queue'[s], s, <<c, k>>)
  PROVE  Account(c, k)'
<1>1. Has(<<c, k>>, TRUE)'
  BY DEF Has
<1>2. Once(<<c, k>>)'
  BY DEF Once
<1>3. (<<c, k>> \notin told)' = TRUE
  OBVIOUS
<1> QED BY <1>1, <1>2, <1>3 DEF Account

(* What is nowhere is once. *)
LEMMA NowhereOnce ==
  ASSUME NEW v, NEW call, ~HasV(v, call, TRUE)
  PROVE  OnceV(v, call)
<1>1. /\ ~PostAnswers(v, call)
      /\ \A t \in Thread : ~HeldBy(v, t, call) /\ ~TodoBy(v, t, call)
  BY DEF HasV, PostHas
<1> QED BY <1>1 DEF OnceV

LEMMA NowhereOnceQ ==
  ASSUME NEW q, NEW to, NEW call, ~HasQ(q, to, call, TRUE)
  PROVE  OnceQ(q, to, call)
BY DEF HasQ, OnceQ, MailHas

(* A service that quits has sent an error. *)
LEMMA TellsIt ==
  ASSUME NEW c \in Services, NEW k \in Sessions,
         <<c, k>> \in told', Awaited(c, k)' /\ <<c, k>> \notin lost' => Has(<<c, k>>, FALSE)'
  PROVE  Account(c, k)'
<1>1. (<<c, k>> \notin told)' = FALSE
  OBVIOUS
<1> QED BY <1>1 DEF Account

(* The answer to a call has come. *)
LEMMA Answers ==
  ASSUME NEW c \in Services, NEW k \in Sessions, vm'[c].lookup[k] = None,
         None \notin Thread \cup {Select},
         <<c, k>> \notin told' => Once(<<c, k>>)' /\ ~Has(<<c, k>>, TRUE)'
  PROVE  Account(c, k)'
<1>1. ~Awaited(c, k)'
  BY DEF Awaited
<1>2. (<<c, k>> \notin told)' = (<<c, k>> \notin told')
  OBVIOUS
<1> QED BY <1>1, <1>2 DEF Account

-----------------------------------------------------------------------------
(* What the service v becomes.                                             *)

(* w has the answers of v. *)
Quiet(v, w) ==
  \A c \in Services, k \in Sessions :
    /\ \A h \in BOOLEAN : HasV(w, <<c, k>>, h) <=> HasV(v, <<c, k>>, h)
    /\ OnceV(v, <<c, k>>) => OnceV(w, <<c, k>>)

(* w has the answers of v without those to the calls of drop. *)
Sheds(v, w, drop) ==
  \A c \in Services, k \in Sessions :
    LET call == <<c, k>>
    IN /\ call \notin told /\ OnceV(v, call) =>
            /\ HasV(w, call, TRUE) => HasV(v, call, TRUE) /\ call \notin drop
            /\ HasV(v, call, TRUE) => HasV(w, call, TRUE) \/ call \in drop
            /\ call \in drop => HasV(v, call, TRUE)
            /\ OnceV(w, call)
       /\ call \in told =>
            (HasV(v, call, FALSE) => HasV(w, call, FALSE) \/ call \in drop)

LEMMA QuietSheds ==
  ASSUME NEW v, NEW w, Quiet(v, w)
  PROVE  Sheds(v, w, {})
<1>1. ASSUME NEW c \in Services, NEW k \in Sessions
      PROVE  /\ HasV(w, <<c, k>>, TRUE) <=> HasV(v, <<c, k>>, TRUE)
             /\ HasV(w, <<c, k>>, FALSE) <=> HasV(v, <<c, k>>, FALSE)
             /\ OnceV(v, <<c, k>>) => OnceV(w, <<c, k>>)
  BY DEF Quiet
<1> QED BY <1>1, Zenon DEF Sheds

LEMMA ShedsTrans ==
  ASSUME NEW u, NEW v, NEW w, NEW D, NEW E, Sheds(u, v, D), Sheds(v, w, E)
  PROVE  Sheds(u, w, D \cup E)
<1> SUFFICES ASSUME NEW c \in Services, NEW k \in Sessions
             PROVE  LET call == <<c, k>>
                    IN /\ call \notin told /\ OnceV(u, call) =>
                            /\ HasV(w, call, TRUE) => HasV(u, call, TRUE) /\ call \notin D \cup E
                            /\ HasV(u, call, TRUE) => HasV(w, call, TRUE) \/ call \in D \cup E
                            /\ call \in D \cup E => HasV(u, call, TRUE)
                            /\ OnceV(w, call)
                       /\ call \in told =>
                            (HasV(u, call, FALSE) => HasV(w, call, FALSE) \/ call \in D \cup E)
  BY DEF Sheds
<1>1. CASE <<c, k>> \notin told
  BY <1>1 DEF Sheds
<1>2. CASE <<c, k>> \in told
  BY <1>2 DEF Sheds
<1> QED BY <1>1, <1>2

(* Of two that do the same for the coroutines. *)
LEMMA SameQuiet ==
  ASSUME NEW v, NEW w, w.from = v.from, w.session = v.session, w.todo = v.todo,
         w.job = v.job, w.post = v.post, v.post = None \/ w.run = v.run
  PROVE  Quiet(v, w)
<1>1. \A call : PostCarries(w, call) <=> PostCarries(v, call)
  BY DEF PostCarries
<1>2. \A call, h : PostHas(w, call, h) <=> PostHas(v, call, h)
  BY <1>1 DEF PostHas, PostAnswers
<1>3. \A call : \A t \in Thread :
        /\ HeldBy(w, t, call) <=> HeldBy(v, t, call)
        /\ TodoBy(w, t, call) <=> TodoBy(v, t, call)
  BY DEF HeldBy, TodoBy
<1>4. \A call : \A h \in BOOLEAN : HasV(w, call, h) <=> HasV(v, call, h)
  BY <1>2, <1>3 DEF HasV
<1>5. \A call : OnceV(v, call) => OnceV(w, call)
  BY <1>1, <1>3 DEF OnceV, PostAnswers
<1> QED BY <1>4, <1>5 DEF Quiet

(* A service that dies: the errors it has to send and the requests it executes
   are dropped. *)
LEMMA DieSheds ==
  ASSUME NEW s, NEW v \in VM, JobKept(s, v), v.post = None
  PROVE  Sheds(v, EmptyVM("dead"), (Held(v) \ told) \cup ToTell(v))
<1> DEFINE w == EmptyVM("dead")
           D == (Held(v) \ told) \cup ToTell(v)
<1>1. /\ w.from = [t \in Thread |-> None] /\ w.todo = [t \in Thread |-> {}]
      /\ w.post = None
  BY DEF EmptyVM
<1> HIDE DEF w
<1> SUFFICES ASSUME NEW c \in Services, NEW k \in Sessions
             PROVE  LET call == <<c, k>>
                    IN /\ call \notin told /\ OnceV(v, call) =>
                            /\ HasV(w, call, TRUE) => HasV(v, call, TRUE) /\ call \notin D
                            /\ HasV(v, call, TRUE) => HasV(w, call, TRUE) \/ call \in D
                            /\ call \in D => HasV(v, call, TRUE)
                            /\ OnceV(w, call)
                       /\ call \in told =>
                            (HasV(v, call, FALSE) => HasV(w, call, FALSE) \/ call \in D)
  BY Zenon DEF Sheds, w
<1> DEFINE call == <<c, k>>
<1>2. \A t \in Thread : ~HeldBy(w, t, call) /\ ~TodoBy(w, t, call)
  BY <1>1, NilAssumption DEF HeldBy, TodoBy
<1>3. ~HasV(w, call, TRUE)
  BY <1>1, <1>2 DEF HasV, PostHas, PostAnswers, PostCarries
<1>4. ~PostHas(v, call, TRUE) /\ ~PostHas(v, call, FALSE)
  BY DEF PostHas, PostAnswers, PostCarries
<1>5. \A t \in Thread : TodoBy(v, t, call) <=> call \in v.todo[t] /\ v.job[t] \in {"tell", "report"}
  <2>1. \A t \in Thread : v.job[t] \in Job
    BY VMFields
  <2> QED BY <2>1 DEF TodoBy, JobKept, Job
<1>6. (\E t \in Thread : TodoBy(v, t, call)) <=> call \in ToTell(v)
  BY <1>5 DEF ToTell
<1>7. (\E t \in Thread : HeldBy(v, t, call)) <=> call \in Held(v)
  <2>1. c # None /\ k \notin {Nil, 0}
    <3>1. MaxSession \in Nat /\ k \in 1..MaxSession
      BY SessionAssumption DEF Sessions
    <3> QED BY <3>1, NilAssumption
  <2> QED BY <2>1 DEF HeldBy, Held
<1>8. HasV(v, call, TRUE) <=> call \in Held(v) \/ call \in ToTell(v)
  BY <1>4, <1>6, <1>7 DEF HasV
<1>9. HasV(v, call, FALSE) => call \in ToTell(v)
  BY <1>4, <1>6 DEF HasV
<1>10. OnceV(w, call)
  BY <1>3, NowhereOnce
<1> QED BY <1>3, <1>8, <1>9, <1>10

LEMMA ChangeSheds ==
  ASSUME NEW s \in Services, NEW v \in VM, NEW drop, Change(s, v, drop),
         vm \in [Services -> VM], Sheds(vm[s], v, drop),
         v.state # "live" => JobKept(s, v) /\ v.post = None
  PROVE  \E D : /\ Sheds(vm[s], vm'[s], D) /\ lost' = lost \cup D
                /\ drop \subseteq D
                /\ v.state = "live" => D = drop
                /\ \A x \in Services : x # s => vm'[x] = vm[x]
                /\ vm'[s].state = "live" => v.state = "live" /\ vm'[s] = v
<1>1. \A x \in Services : vm'[x] = IF x # s THEN vm[x]
                                   ELSE IF v.state = "live" THEN v ELSE EmptyVM("dead")
  BY DEF Change
<1>2. EmptyVM("dead").state # "live"
  BY DEF EmptyVM
<1>3. CASE v.state = "live"
  <2>1. lost' = lost \cup drop /\ vm'[s] = v
    BY <1>1, <1>3 DEF Change
  <2> QED BY <1>1, <1>3, <2>1
<1>4. CASE v.state # "live"
  <2> DEFINE D == drop \cup ((Held(v) \ told) \cup ToTell(v))
  <2>1. lost' = lost \cup D
    BY <1>4 DEF Change
  <2>2. Sheds(v, EmptyVM("dead"), (Held(v) \ told) \cup ToTell(v))
    BY <1>4, DieSheds
  <2>3. Sheds(vm[s], EmptyVM("dead"), D)
    BY <2>2, ShedsTrans
  <2>4. vm'[s] = EmptyVM("dead")
    BY <1>1, <1>4
  <2> QED BY <1>1, <1>2, <1>4, <2>1, <2>3, <2>4
<1> QED BY <1>3, <1>4

-----------------------------------------------------------------------------
(* Sites. *)

LEMMA SiteOf ==
  ASSUME NEW x \in Sites
  PROVE  \E s \in Services : x = <<s, "vm">> \/ x = <<s, "queue">> \/ x = <<s, "timer">>
BY DEF Sites

LEMMA AtSite ==
  ASSUME NEW s \in Services, NEW call, NEW h \in BOOLEAN
  PROVE  /\ At(<<s, "vm">>, call, h) <=> HasV(vm[s], call, h)
         /\ At(<<s, "queue">>, call, h) <=> HasQ(queue[s], s, call, h)
         /\ At(<<s, "timer">>, call, h) <=> s = call[1] /\ call \in timers
         /\ <<s, "vm">> \in Sites /\ <<s, "queue">> \in Sites /\ <<s, "timer">> \in Sites
BY DEF At, Sites

LEMMA AtNext ==
  ASSUME NEW s \in Services, NEW call, NEW h \in BOOLEAN
  PROVE  /\ At(<<s, "vm">>, call, h)' <=> HasV(vm'[s], call, h)
         /\ At(<<s, "queue">>, call, h)' <=> HasQ(queue'[s], s, call, h)
         /\ At(<<s, "timer">>, call, h)' <=> s = call[1] /\ call \in timers'
BY DEF At

(* Where a step does nothing to a service, a queue or the timers. *)
LEMMA SameSite ==
  ASSUME NEW call, NEW x \in Sites,
         \/ x[2] = "vm" /\ vm'[x[1]] = vm[x[1]]
         \/ x[2] = "queue" /\ queue'[x[1]] = queue[x[1]]
         \/ x[2] = "timer" /\ (call \in timers' <=> call \in timers)
  PROVE  \A h \in BOOLEAN : At(x, call, h)' <=> At(x, call, h)
BY DEF At

LEMMA LiveOnce ==
  ASSUME AccountInv, ~aborted, NEW c \in Services, NEW k \in Sessions,
         vm[c].state = "live", <<c, k>> \notin told
  PROVE  /\ Once(<<c, k>>)
         /\ \A s \in Services : OnceV(vm[s], <<c, k>>) /\ OnceQ(queue[s], s, <<c, k>>)
<1>1. Once(<<c, k>>)
  BY DEF AccountInv, Accounts, Account
<1> QED BY <1>1 DEF Once

(* What is dropped was asked for. *)
LEMMA PastKept ==
  ASSUME AccountInv, ~aborted, NEW s \in Services,
         \A c \in Services, k \in Sessions :
           vm'[c].state = "live" =>
             /\ vm[c].state = "live" /\ (Asks(vm[c], k) => Asks(vm'[c], k))
             /\ <<c, k>> \in lost' \cup told' =>
                  <<c, k>> \in lost \cup told \/ HasV(vm[s], <<c, k>>, TRUE)
  PROVE  Past'
<1> SUFFICES ASSUME NEW c \in Services, NEW k \in Sessions, vm'[c].state = "live",
                    <<c, k>> \in lost' \cup told'
             PROVE  Asks(vm'[c], k)
  BY DEF Past
<1>1. CASE <<c, k>> \in lost \cup told
  BY <1>1 DEF AccountInv, Past
<1>2. CASE HasV(vm[s], <<c, k>>, TRUE)
  <2>1. PostOK(s, vm[s])
    BY DEF AccountInv, Inv, Good
  <2>2. Due(<<c, k>>)
    BY <1>2, <2>1, HasVDue DEF Due
  <2> QED BY <2>2 DEF AccountInv, Inv, Asked
<1> QED BY <1>1, <1>2

(* One service changes, and asks the timer service to answer the sessions of
   F. *)
LEMMA ServiceAccounts ==
  ASSUME AccountInv, ~aborted, NEW s \in Services, NEW D, NEW F \in SUBSET Sessions,
         Sheds(vm[s], vm'[s], D), lost' = lost \cup D,
         \A x \in Services : x # s => vm'[x] = vm[x],
         \A k \in Sessions \ F : WaitsOn(vm[s], vm'[s], k),
         vm'[s].state = "live" => vm[s].state = "live",
         \A k \in F : ~Asks(vm[s], k) /\ (vm'[s].state = "live" => vm'[s].lookup[k] # None),
         timers' = timers \cup {<<s, k>> : k \in F},
         UNCHANGED <<queue, told>>
  PROVE  Accounts' /\ Past'
<1>a. Past'
  <2>1. ASSUME NEW c \in Services, NEW k \in Sessions, vm'[c].state = "live",
               <<c, k>> \in lost' \cup told'
        PROVE  <<c, k>> \in lost \cup told \/ HasV(vm[s], <<c, k>>, TRUE)
    <3>1. vm[c].state = "live"
      BY <2>1
    <3>2. <<c, k>> \notin told => OnceV(vm[s], <<c, k>>)
      BY <3>1, LiveOnce
    <3> QED BY <2>1, <3>2 DEF Sheds
  <2>2. ASSUME NEW c \in Services, NEW k \in Sessions, vm'[c].state = "live"
        PROVE  vm[c].state = "live" /\ (Asks(vm[c], k) => Asks(vm'[c], k))
    <3>1. CASE c = s
      BY <2>2, <3>1 DEF WaitsOn
    <3>2. CASE c # s
      BY <2>2, <3>2
    <3> QED BY <3>1, <3>2
  <2> QED BY <2>1, <2>2, PastKept
<1> SUFFICES ASSUME NEW c \in Services, NEW k \in Sessions, vm'[c].state = "live"
             PROVE  Account(c, k)'
  BY <1>a DEF Accounts
<1> DEFINE call == <<c, k>>
           x == <<s, "vm">>
<1>1. x \in Sites
  BY DEF Sites
<1>2. CASE c = s /\ k \in F
  <2>1. /\ \A h \in BOOLEAN, z \in Sites : ~At(z, call, h)
        /\ call \notin lost \cup told
    BY <1>2, NothingYet
  <2>2. ~HasV(vm[s], call, TRUE)
    BY <2>1, AtSite
  <2>3. call \notin D /\ ~HasV(vm'[s], call, TRUE)
    BY <2>1, <2>2, NowhereOnce DEF Sheds
  <2>4. \A z \in Sites : z # <<s, "timer">> => ~At(z, call, TRUE)'
    <3> SUFFICES ASSUME NEW z \in Sites, z # <<s, "timer">>
                 PROVE  ~At(z, call, TRUE)'
      OBVIOUS
    <3>1. CASE z = x
      BY <2>3, <3>1, AtNext
    <3>2. CASE z # x
      <4>1. \/ z[2] = "vm" /\ vm'[z[1]] = vm[z[1]]
            \/ z[2] = "queue" /\ queue'[z[1]] = queue[z[1]]
            \/ z[2] = "timer" /\ z[1] # c
        BY <1>2, <3>2, SiteOf
      <4> QED BY <2>1, <4>1 DEF At
    <3> QED BY <3>1, <3>2
  <2>5. At(<<s, "timer">>, call, TRUE)' /\ <<s, "timer">> \in Sites
    <3>1. call \in timers' /\ s = call[1]
      BY <1>2
    <3> QED BY <3>1 DEF At, Sites
  <2>6. \A r \in Services : OnceV(vm'[r], call) /\ OnceQ(queue'[r], r, call)
    <3> SUFFICES ASSUME NEW r \in Services
                 PROVE  OnceV(vm'[r], call) /\ OnceQ(queue'[r], r, call)
      OBVIOUS
    <3>1. ~At(<<r, "vm">>, call, TRUE)' /\ ~At(<<r, "queue">>, call, TRUE)'
      BY <2>4, AtSite
    <3> QED BY <3>1, AtNext, NowhereOnce, NowhereOnceQ
  <2>7. vm'[c].lookup[k] # None /\ call \notin lost' \cup told'
    BY <1>2, <2>1, <2>3
  <2> QED BY <2>4, <2>5, <2>6, <2>7, Begins
<1>3. CASE ~(c = s /\ k \in F)
  <2>1. WaitsOn(vm[c], vm'[c], k)
    BY <1>3 DEF WaitsOn
  <2>2. vm[c].state = "live"
    BY <2>1 DEF WaitsOn
  <2>3. \A z \in Sites \ {x}, h \in BOOLEAN : At(z, call, h)' <=> At(z, call, h)
    <3> SUFFICES ASSUME NEW z \in Sites \ {x}, NEW h \in BOOLEAN
                 PROVE  At(z, call, h)' <=> At(z, call, h)
      OBVIOUS
    <3>1. call \in timers' <=> call \in timers
      BY <1>3
    <3>2. \/ z[2] = "vm" /\ vm'[z[1]] = vm[z[1]]
          \/ z[2] = "queue" /\ queue'[z[1]] = queue[z[1]]
          \/ z[2] = "timer"
      BY SiteOf
    <3> QED BY <3>1, <3>2, SameSite
  <2>4. /\ \A h \in BOOLEAN : At(x, call, h)' <=> HasV(vm'[s], call, h)
        /\ \A h \in BOOLEAN : At(x, call, h) <=> HasV(vm[s], call, h)
    BY DEF At
  <2>5. call \notin told =>
          /\ HasV(vm'[s], call, TRUE) => HasV(vm[s], call, TRUE) /\ call \notin D
          /\ HasV(vm[s], call, TRUE) => HasV(vm'[s], call, TRUE) \/ call \in D
          /\ call \in D => HasV(vm[s], call, TRUE)
          /\ OnceV(vm'[s], call)
    BY <2>2, LiveOnce DEF Sheds
  <2>6. call \in told => (HasV(vm[s], call, FALSE) => HasV(vm'[s], call, FALSE) \/ call \in D)
    BY DEF Sheds
  <2>7. Steps(call, x, x)
    <3>1. call \notin told =>
            /\ At(x, call, TRUE)' => At(x, call, TRUE)
            /\ call \in lost' \ lost => At(x, call, TRUE) /\ ~At(x, call, TRUE)'
      BY <2>4, <2>5
    <3>2. CASE call \notin told
      <4>1. (call \notin told) = TRUE
        BY <3>2
      <4> QED BY <2>3, <2>4, <2>5, <3>1, <3>2, <4>1 DEF Steps
    <3>3. CASE call \in told
      <4>1. (call \notin told) = FALSE
        BY <3>3
      <4> QED BY <2>3, <2>4, <2>6, <3>3, <4>1 DEF Steps
    <3> QED BY <3>2, <3>3
  <2>8. CASE call \notin told
    <3>1. Once(call) => \A r \in Services : OnceV(vm'[r], call) /\ OnceQ(queue'[r], r, call)
      BY <2>5, <2>8 DEF Once
    <3> QED BY <1>1, <2>1, <2>7, <3>1, Flow
  <2>9. CASE call \in told
    <3> QED BY <1>1, <2>1, <2>7, <2>9, Flow
  <2> QED BY <2>8, <2>9
<1> QED BY <1>2, <1>3

(* A dead service keeps all that has to be kept. *)
LEMMA EmptyKept ==
  ASSUME NEW s, NEW st
  PROVE  Kept(s, EmptyVM(st)) /\ Emptied(EmptyVM(st))
<1> DEFINE w == EmptyVM(st)
<1>1. /\ w.from = [t \in Thread |-> None] /\ w.todo = [t \in Thread |-> {}]
      /\ w.job = [t \in Thread |-> "free"] /\ w.lookup = [k \in 0..MaxSession |-> None]
      /\ w.post = None /\ w.state = st
  BY DEF EmptyVM
<1> HIDE DEF w
<1>2. Kept(s, w)
  BY <1>1 DEF Kept, JobKept, LookupKept, PostKept
<1>3. Emptied(w)
  BY <1>1 DEF Emptied, w
<1> QED BY <1>2, <1>3 DEF w

(* What w is to v that takes a quiet step: the sessions of F are new. *)
Onward(s, v, w, F) ==
  /\ v \in VM => w \in VM
  /\ Quiet(v, w)
  /\ Follows(v, w)
  /\ \A k \in Sessions \ F :
       w.state = "live" =>
         /\ AwaitedV(w, k) => AwaitedV(v, k)
         /\ Asks(v, k) /\ k < w.next /\ w.lookup[k] = None => k < v.next /\ v.lookup[k] = None
  /\ JobKept(s, v) => JobKept(s, w)
  /\ LookupKept(v) => LookupKept(w)

LEMMA OnwardTrans ==
  ASSUME NEW s, NEW u, NEW v, NEW w, NEW F, Onward(s, u, v, F), Onward(s, v, w, F)
  PROVE  Onward(s, u, w, F)
<1>1. Follows(u, w)
  BY FollowsTrans DEF Onward
<1>2. Quiet(u, w)
  BY DEF Onward, Quiet
<1>3. ASSUME NEW k \in Sessions \ F, w.state = "live"
      PROVE  /\ AwaitedV(w, k) => AwaitedV(u, k)
             /\ Asks(u, k) /\ k < w.next /\ w.lookup[k] = None => k < u.next /\ u.lookup[k] = None
  BY <1>3 DEF Onward, Follows
<1> QED BY <1>1, <1>2, <1>3 DEF Onward

LEMMA OnwardMore ==
  ASSUME NEW s, NEW v, NEW w, NEW F, Onward(s, v, w, {})
  PROVE  Onward(s, v, w, F)
BY DEF Onward

LEMMA AccountFacts ==
  ASSUME AccountInv, NEW s \in Services
  PROVE  /\ vm \in [Services -> VM] /\ vm[s] \in VM /\ Good(s, vm[s])
         /\ JobKept(s, vm[s]) /\ LookupKept(vm[s]) /\ PostKept(s, vm[s])
BY DEF AccountInv, Inv, TypeOK, Kept

(* The other services stay, and the mails. *)
LEMMA ServiceKept ==
  ASSUME AccountInv, NEW s \in Services, NEW v,
         vm'[s] = IF v.state = "live" THEN v ELSE EmptyVM("dead"),
         \A x \in Services : x # s => vm'[x] = vm[x],
         v.state = "live" => Kept(s, v)
  PROVE  \A x \in Services : Kept(x, vm'[x]) /\ Emptied(vm'[x])
<1>1. Kept(s, vm'[s]) /\ Emptied(vm'[s])
  BY EmptyKept DEF Emptied
<1> QED BY <1>1 DEF AccountInv

LEMMA QuietAccount ==
  ASSUME AccountInv, Inv', ~aborted, NEW s \in Services, NEW w, NEW F \in SUBSET Sessions,
         Change(s, w, {}), Onward(s, vm[s], w, F),
         \A k \in F : ~Asks(vm[s], k) /\ w.lookup[k] # None,
         timers' = timers \cup {<<s, k>> : k \in F},
         UNCHANGED <<queue, told>>,
         PostKept(s, w), w.state # "live" => w.post = None
  PROVE  AccountInv'
<1>1. /\ vm \in [Services -> VM] /\ JobKept(s, vm[s]) /\ LookupKept(vm[s])
      /\ w \in VM
  BY AccountFacts DEF Onward
<1>2. Kept(s, w)
  BY <1>1 DEF Onward, Kept
<1>3. Sheds(vm[s], w, {})
  BY QuietSheds DEF Onward
<1>4. PICK D : /\ Sheds(vm[s], vm'[s], D) /\ lost' = lost \cup D
               /\ \A x \in Services : x # s => vm'[x] = vm[x]
               /\ vm'[s].state = "live" => w.state = "live" /\ vm'[s] = w
  BY <1>1, <1>2, <1>3, ChangeSheds DEF Kept
<1>5. vm'[s] = IF w.state = "live" THEN w ELSE EmptyVM("dead")
  BY <1>1 DEF Change
<1>6. \A k \in Sessions \ F : WaitsOn(vm[s], vm'[s], k)
  BY <1>4 DEF Onward, WaitsOn, Follows
<1>7. vm'[s].state = "live" => vm[s].state = "live"
  BY <1>4 DEF Onward, Follows
<1>8. Accounts' /\ Past'
  BY <1>4, <1>6, <1>7, ServiceAccounts
<1>9. \A x \in Services : Kept(x, vm'[x]) /\ Emptied(vm'[x])
  BY <1>2, <1>4, <1>5, ServiceKept
<1>10. Letters'
  BY DEF AccountInv, Letters
<1> QED BY <1>8, <1>9, <1>10 DEF AccountInv

-----------------------------------------------------------------------------
(* The operators on the state of a service, one by one.                    *)

LEMMA SameOnward ==
  ASSUME NEW s, NEW v \in VM, NEW w \in VM, Follows(v, w),
         w.from = v.from, w.session = v.session, w.todo = v.todo, w.job = v.job,
         w.post = v.post, v.post = None \/ w.run = v.run,
         w.lookup = v.lookup, w.sel = v.sel, v.next <= w.next
  PROVE  Onward(s, v, w, {})
<1>1. Quiet(v, w)
  BY SameQuiet
<1>2. v.next \in Nat /\ w.next \in Nat /\ MaxSession \in Nat
  BY VMFields, SessionAssumption
<1>3. JobKept(s, v) => JobKept(s, w)
  BY DEF JobKept
<1>4. LookupKept(v) => LookupKept(w)
  BY <1>2 DEF LookupKept
<1>5. \A k \in Sessions : w.state = "live" /\ AwaitedV(w, k) => AwaitedV(v, k)
  BY DEF AwaitedV, Follows
<1>6. \A k \in Sessions : Asks(v, k) /\ w.lookup[k] = None => k < v.next /\ v.lookup[k] = None
  BY DEF Asks
<1> QED BY <1>1, <1>3, <1>4, <1>5, <1>6 DEF Onward

LEMMA DispatchOnward ==
  ASSUME NEW s, NEW v \in VM, v.post = None, NEW F
  PROVE  Onward(s, v, Dispatch(v), F) /\ Dispatch(v).post = None
<1> DEFINE w == Dispatch(v)
<1>1. /\ w.from = v.from /\ w.session = v.session /\ w.todo = v.todo /\ w.job = v.job
      /\ w.post = v.post /\ w.lookup = v.lookup /\ w.sel = v.sel /\ w.next = v.next
      /\ Follows(v, w)
  BY DispatchFollows DEF Dispatch, VM
<1>2. w \in VM
  <2>1. v.wakeups \in Seq(Thread) /\ v.quit \in BOOLEAN
    BY VMFields
  <2>2. CASE v.wakeups # <<>>
    <3> DEFINE h == Head(v.wakeups)
               r == Tail(v.wakeups)
    <3>1. w = [v EXCEPT !.run = h, !.wakeups = r] /\ h \in Thread /\ r \in Seq(Thread)
      BY <2>1, <2>2 DEF Dispatch, VM
    <3> HIDE DEF w, h, r
    <3> QED BY <3>1 DEF VM
  <2>3. CASE v.wakeups = <<>>
    <3> DEFINE st == IF v.quit THEN "dead" ELSE v.state
    <3>1. w = [v EXCEPT !.run = None, !.state = st]
      BY <2>3 DEF Dispatch, VM
    <3>2. st \in {"live", "dead", "signalled", "gone"}
      BY VMFields
    <3> HIDE DEF w, st
    <3> QED BY <3>1, <3>2, ZenonT(60) DEF VM
  <2> QED BY <2>2, <2>3
<1>3. w.next \in Nat
  BY <1>2, VMFields, SessionAssumption
<1> HIDE DEF w
<1> QED BY <1>1, <1>2, <1>3, SameOnward, OnwardMore DEF w

LEMMA WokenOnward ==
  ASSUME NEW s, NEW v \in VM, v.post = None, NEW x \in Keys
  PROVE  Onward(s, v, Woken(v, x), {})
<1> DEFINE w == Woken(v, x)
<1>1. w \in VM
  <2>1. CASE v.waiting[x] = None
    BY <2>1 DEF Woken
  <2>2. CASE v.waiting[x] # None
    <3> DEFINE a == Append(v.wakeups, v.waiting[x])
               b == [v.waiting EXCEPT ![x] = None]
    <3>1. w = [v EXCEPT !.wakeups = a, !.waiting = b]
      BY <2>2 DEF Woken, VM
    <3>2. a \in Seq(Thread) /\ b \in [Keys -> Thread \cup {None}]
      BY <2>2, VMFields
    <3> HIDE DEF w, a, b
    <3> QED BY <3>1, <3>2 DEF VM, Keys
  <2> QED BY <2>1, <2>2
<1>2. w.next \in Nat
  BY <1>1, VMFields, SessionAssumption
<1> HIDE DEF w
<1> QED BY <1>1, <1>2, WokenFields, WokenFollows, SameOnward DEF w

(* A new session whose answer is waited for or ignored. *)
LEMMA SuspendOnward ==
  ASSUME NEW s, NEW v \in VM, v.post = None, NEW h \in Sleepers \ {None},
         v.next <= MaxSession
  PROVE  /\ Onward(s, v, Suspend(v, h), {v.next}) /\ v.next \in Sessions
         /\ Suspend(v, h).lookup[v.next] = h /\ ~Asks(v, v.next)
         /\ Suspend(v, h).post = None
<1> DEFINE w == Suspend(v, h)
<1>1. /\ w \in VM /\ w.lookup = [v.lookup EXCEPT ![v.next] = h] /\ w.next = v.next + 1
      /\ w.job = v.job /\ w.from = v.from /\ w.session = v.session /\ w.todo = v.todo
      /\ w.sel = v.sel /\ w.post = v.post /\ w.state = v.state /\ w.run = v.run
  BY SuspendFields
<1>2. /\ v.next \in Nat /\ MaxSession \in Nat /\ v.next \in Sessions
      /\ v.lookup \in [0..MaxSession -> Sleepers]
  BY VMFields, SessionAssumption DEF Sessions
<1>3. Follows(v, w)
  BY SuspendFollows
<1> HIDE DEF w
<1>4. Quiet(v, w)
  BY <1>1, SameQuiet
<1>5. \A k \in 0..MaxSession : w.lookup[k] = IF k = v.next THEN h ELSE v.lookup[k]
  BY <1>1, <1>2
<1>6. JobKept(s, v) => JobKept(s, w)
  BY <1>1 DEF JobKept
<1>7. LookupKept(v) => LookupKept(w)
  BY <1>1, <1>2, <1>5 DEF LookupKept, Sessions
<1>8. \A k \in Sessions \ {v.next} :
        /\ AwaitedV(w, k) => AwaitedV(v, k)
        /\ k < w.next /\ w.lookup[k] = None => k < v.next /\ v.lookup[k] = None
  BY <1>1, <1>2, <1>5 DEF AwaitedV, Sessions
<1>9. ~Asks(v, v.next)
  BY <1>2 DEF Asks
<1>10. w.lookup[v.next] = h
  BY <1>2, <1>5 DEF Sessions
<1> QED BY <1>1, <1>2, <1>3, <1>4, <1>6, <1>7, <1>8, <1>9, <1>10 DEF Onward, w

(* A coroutine for which there is no request and no error to send begins
   anew, or ends. *)
Idle(v, t) == /\ v.from[t] = None \/ v.session[t] \in {Nil, 0}
              /\ v.todo[t] = {} \/ v.job[t] = "quitting"

LEMMA CreateOnward ==
  ASSUME NEW s, NEW v \in VM, v.post = None, NEW t \in Thread, NEW job \in Job, Idle(v, t)
  PROVE  /\ Onward(s, v, Create(v, t, job, None, Nil, {}), {})
         /\ Create(v, t, job, None, Nil, {}).post = None
<1> DEFINE w == Create(v, t, job, None, Nil, {})
<1>1. /\ w \in VM /\ w.post = None /\ w.lookup = v.lookup /\ w.sel = v.sel
      /\ w.next = v.next /\ w.state = v.state
      /\ w.from = [v.from EXCEPT ![t] = None]
      /\ w.session = [v.session EXCEPT ![t] = Nil]
      /\ w.todo = [v.todo EXCEPT ![t] = {}]
      /\ w.job = [v.job EXCEPT ![t] = job]
  BY DEF Create, VM
<1>2. /\ v.from \in [Thread -> Services \cup {None}]
      /\ v.session \in [Thread -> (0..MaxSession) \cup {Nil}]
      /\ v.todo \in [Thread -> SUBSET (Services \X ((0..MaxSession) \cup {Nil}))]
      /\ v.job \in [Thread -> Job]
  BY VMFields
<1>3. Follows(v, w)
  BY CreateFollows
<1> HIDE DEF w
<1>4. \A u \in Thread : /\ w.from[u] = IF u = t THEN None ELSE v.from[u]
                        /\ w.session[u] = IF u = t THEN Nil ELSE v.session[u]
                        /\ w.todo[u] = IF u = t THEN {} ELSE v.todo[u]
                        /\ w.job[u] = IF u = t THEN job ELSE v.job[u]
  BY <1>1, <1>2
<1>5. ASSUME NEW c \in Services, NEW k \in Sessions
      PROVE  /\ \A h \in BOOLEAN : HasV(w, <<c, k>>, h) <=> HasV(v, <<c, k>>, h)
             /\ OnceV(v, <<c, k>>) => OnceV(w, <<c, k>>)
  <2>1. k \notin {Nil, 0} /\ c # None
    BY SessionAssumption, NilAssumption DEF Sessions
  <2>2. ~HeldBy(v, t, <<c, k>>) /\ ~TodoBy(v, t, <<c, k>>)
    BY <2>1 DEF HeldBy, TodoBy, Idle
  <2>3. \A u \in Thread : /\ HeldBy(w, u, <<c, k>>) <=> HeldBy(v, u, <<c, k>>)
                          /\ TodoBy(w, u, <<c, k>>) <=> TodoBy(v, u, <<c, k>>)
    BY <1>4, <2>1, <2>2 DEF HeldBy, TodoBy
  <2>4. ~PostAnswers(v, <<c, k>>) /\ ~PostAnswers(w, <<c, k>>)
    BY <1>1 DEF PostAnswers, PostCarries
  <2> QED BY <2>3, <2>4 DEF HasV, OnceV, PostHas
<1>6. JobKept(s, v) => JobKept(s, w)
  BY <1>4 DEF JobKept
<1>7. LookupKept(v) => LookupKept(w)
  BY <1>1 DEF LookupKept
<1>8. \A k \in Sessions : /\ AwaitedV(w, k) => AwaitedV(v, k)
                          /\ k < w.next /\ w.lookup[k] = None => k < v.next /\ v.lookup[k] = None
  BY <1>1 DEF AwaitedV
<1>9. Quiet(v, w)
  BY <1>5 DEF Quiet
<1> QED BY <1>1, <1>3, <1>6, <1>7, <1>8, <1>9 DEF Onward, w

(* What is done to a select takes no coroutine out of the lookup. *)
LEMMA SelectOnward ==
  ASSUME NEW s, NEW v \in VM, NEW w \in VM, Follows(v, w),
         w.from = v.from, w.session = v.session, w.todo = v.todo, w.job = v.job,
         v.post = None, w.post = None, w.next = v.next,
         \A k \in 0..MaxSession : w.lookup[k] = None => v.lookup[k] = None,
         LookupKept(v) => LookupKept(w),
         \A k \in Sessions : AwaitedV(w, k) => AwaitedV(v, k)
  PROVE  Onward(s, v, w, {})
<1>1. Quiet(v, w)
  BY SameQuiet
<1>2. JobKept(s, v) => JobKept(s, w)
  BY DEF JobKept
<1>4. Sessions \subseteq 0..MaxSession
  BY SessionAssumption DEF Sessions
<1> QED BY <1>1, <1>2, <1>4 DEF Onward

LEMMA AbandonOnward ==
  ASSUME NEW s, NEW v, Settled(v), Unlisted(v, v.run), v.post = None
  PROVE  /\ Onward(s, v, Abandon(v), {}) /\ Abandon(v) \in VM /\ Abandon(v).post = None
         /\ Abandon(v).job = v.job /\ Abandon(v).from = v.from /\ Abandon(v).run = v.run
         /\ Abandon(v).session = v.session /\ Abandon(v).todo = v.todo
<1> DEFINE w == Abandon(v)
           l == [k \in DOMAIN v.lookup |->
                   IF v.lookup[k] = Select THEN Stale ELSE v.lookup[k]]
<1>1. /\ Settled(w) /\ w.post = None /\ w.job = v.job /\ w.from = v.from
      /\ w.session = v.session /\ w.todo = v.todo /\ w.run = v.run
  BY AbandonSettled
<1>2. v \in VM /\ w \in VM
  BY <1>1 DEF Settled
<1>3. Follows(v, w)
  BY <1>2, AbandonFollows
<1>4. CASE ~InSelect(v)
  <2>1. w = v
    BY <1>4 DEF Abandon
  <2>2. v.next \in Nat
    BY <1>2, VMFields, SessionAssumption
  <2> QED BY <1>1, <1>2, <1>3, <2>1, <2>2, SameOnward
<1>5. CASE InSelect(v)
  <2>1. w = [v EXCEPT !.sel = None, !.lookup = l]
    BY <1>2, <1>5 DEF Abandon, VM
  <2>2. v.lookup \in [0..MaxSession -> Sleepers]
    BY <1>2, VMFields
  <2>3. \A k \in 0..MaxSession : l[k] = IF v.lookup[k] = Select THEN Stale ELSE v.lookup[k]
    BY <2>2
  <2> HIDE DEF l
  <2>4. w.lookup = l /\ w.next = v.next /\ w.sel = None /\ w.state = v.state
    BY <1>2, <2>1 DEF VM
  <2>5. \A k \in 0..MaxSession : w.lookup[k] = None <=> v.lookup[k] = None
    BY <2>3, <2>4, NilAssumption
  <2>6. \A k \in Sessions : AwaitedV(w, k) => AwaitedV(v, k)
    BY <2>3, <2>4, NilAssumption, SessionAssumption DEF AwaitedV, Sessions
  <2>7. LookupKept(v) => LookupKept(w)
    BY <2>4, <2>5 DEF LookupKept
  <2> QED BY <1>1, <1>2, <1>3, <2>4, <2>5, <2>6, <2>7, SelectOnward
<1> QED BY <1>1, <1>2, <1>4, <1>5

LEMMA CloseOnward ==
  ASSUME NEW s, NEW v, Settled(v), Unlisted(v, v.run), InSelect(v), v.post = None
  PROVE  Onward(s, v, Close(v), {}) /\ Close(v).post = None /\ Close(v).state = v.state
<1> DEFINE open == IF v.sel.request > 0 THEN v.sel.sessions \ v.sel.resp ELSE {}
           ignored == IF v.sel.timer = None THEN open ELSE open \cup {v.sel.timer}
           l == [k \in DOMAIN v.lookup |->
                   IF k \in ignored THEN Ignore
                   ELSE IF v.lookup[k] = Select THEN Stale ELSE v.lookup[k]]
           w == Close(v)
<1>1. /\ Settled(w) /\ w.post = None /\ w.job = v.job /\ w.from = v.from
      /\ w.session = v.session /\ w.todo = v.todo
  BY CloseSettled
<1>2. v \in VM /\ w \in VM
  BY <1>1 DEF Settled
<1>3. Follows(v, w)
  BY <1>2, CloseFollows
<1>4. w = [v EXCEPT !.sel = None, !.lookup = l]
  BY <1>2 DEF Close, VM
<1>5. v.lookup \in [0..MaxSession -> Sleepers]
  BY <1>2, VMFields
<1>6. v.sel \in Selection
  BY <1>2, VMFields DEF InSelect
<1>7. \A k \in ignored : k \in 1..(v.next - 1)
  <2>1. /\ \A k \in v.sel.sessions : k \in Sessions /\ k < v.next
        /\ v.sel.timer # None => v.sel.timer \in Sessions /\ v.sel.timer < v.next
    BY <1>6, SelectionFields, NilAssumption DEF Settled, SelectOK, InSelect
  <2>2. v.next \in Nat /\ MaxSession \in Nat
    BY <1>2, VMFields, SessionAssumption
  <2> QED BY <2>1, <2>2 DEF Sessions
<1> HIDE DEF ignored
<1>8. \A k \in 0..MaxSession : l[k] = IF k \in ignored THEN Ignore
                                      ELSE IF v.lookup[k] = Select THEN Stale ELSE v.lookup[k]
  BY <1>5
<1> HIDE DEF l
<1>9. w.lookup = l /\ w.next = v.next /\ w.sel = None /\ w.state = v.state
  BY <1>2, <1>4 DEF VM
<1>10. \A k \in 0..MaxSession : w.lookup[k] = None => v.lookup[k] = None
  BY <1>8, <1>9, NilAssumption
<1>11. \A k \in Sessions : AwaitedV(w, k) => AwaitedV(v, k)
  BY <1>8, <1>9, NilAssumption, SessionAssumption DEF AwaitedV, Sessions
<1>12. LookupKept(v) => LookupKept(w)
  <2>1. \A k \in 0..MaxSession : v.lookup[k] = None /\ k \notin ignored => w.lookup[k] = None
    BY <1>8, <1>9, NilAssumption
  <2>2. v.next \in Nat /\ MaxSession \in Nat
    BY <1>2, VMFields, SessionAssumption
  <2>3. \A k \in 0..MaxSession : k = 0 \/ k >= v.next => k \notin ignored
    BY <1>7, <2>2
  <2> QED BY <1>9, <2>1, <2>3 DEF LookupKept
<1> HIDE DEF w
<1> QED BY <1>1, <1>2, <1>3, <1>9, <1>10, <1>11, <1>12, SelectOnward DEF w

(* The iterator takes an error or a response. *)
LEMMA PopOnward ==
  ASSUME NEW s, NEW v, Settled(v), Unlisted(v, v.run), InSelect(v), v.post = None,
         NEW w,
         \/ v.sel.errors > 0 /\ w = PopError(v)
         \/ \E k \in v.sel.resp : w = PopResponse(v, k)
  PROVE  Onward(s, v, w, {}) /\ w.post = None /\ w.state = v.state
<1>1. v \in VM /\ v.sel \in Selection /\ v.sel # None
  BY OwnerAwake, VMFields DEF Settled
<1>2. Settled(w) /\ Follows(v, w)
  BY PopErrorSettled, PopResponseSettled, PopErrorFollows, PopResponseFollows
<1>3. /\ w.from = v.from /\ w.session = v.session /\ w.todo = v.todo
      /\ w.post = v.post /\ w.lookup = v.lookup /\ w.next = v.next
      /\ w.state = v.state /\ w.job = v.job
  BY <1>1 DEF PopError, PopResponse, VM
<1>4. w.sel.timer = v.sel.timer /\ w.sel.sessions \subseteq v.sel.sessions
  <2>1. CASE w = PopError(v)
    <3>1. w.sel = [v.sel EXCEPT !.errors = @ - 1, !.at = "body"]
      BY <1>1, <2>1 DEF PopError, VM, Selection
    <3> QED BY <1>1, <3>1 DEF Selection
  <2>2. CASE \E k \in v.sel.resp : w = PopResponse(v, k)
    <3>1. PICK k \in v.sel.resp : w = PopResponse(v, k)
      BY <2>2
    <3>2. w.sel = [v.sel EXCEPT !.request = @ - 1, !.resp = @ \ {k},
                                !.sessions = @ \ {k}, !.at = "body"]
      BY <1>1, <3>1 DEF PopResponse, VM, Selection
    <3> QED BY <1>1, <3>2 DEF Selection
  <2> QED BY <2>1, <2>2
<1>5. \A k \in Sessions : AwaitedV(w, k) => AwaitedV(v, k)
  BY <1>1, <1>3, <1>4 DEF AwaitedV
<1>6. LookupKept(v) => LookupKept(w)
  BY <1>3 DEF LookupKept
<1> QED BY <1>1, <1>2, <1>3, <1>5, <1>6, SelectOnward DEF Settled

(* A coroutine is forked. *)
LEMMA FreeIdle ==
  ASSUME NEW s, NEW v, JobKept(s, v), FreeThreads(v) # {}
  PROVE  Idle(v, NewThread(v)) /\ NewThread(v) \in Thread
BY NewThreadFree DEF JobKept, Idle

LEMMA ForkOnward ==
  ASSUME NEW s, NEW v \in VM, v.post = None, JobKept(s, v), NEW job \in Job,
         FreeThreads(v) # {}
  PROVE  /\ Onward(s, v, Fork(v, job), {}) /\ Fork(v, job).post = None
         /\ Fork(v, job).state = v.state
<1> DEFINE t == NewThread(v)
           c == Create(v, t, job, None, Nil, {})
           w == Fork(v, job)
<1>1. t \in Thread /\ Idle(v, t)
  BY FreeIdle
<1>2. Onward(s, v, c, {}) /\ c.post = None
  BY <1>1, CreateOnward
<1>3. c \in VM /\ c.state = v.state
  BY <1>1 DEF Create, VM
<1>4. w = [c EXCEPT !.wakeups = Append(@, t)]
  BY DEF Fork
<1> HIDE DEF c, w
<1>5. /\ w.from = c.from /\ w.session = c.session /\ w.todo = c.todo /\ w.job = c.job
      /\ w.post = c.post /\ w.lookup = c.lookup /\ w.sel = c.sel /\ w.next = c.next
      /\ w.state = c.state
  BY <1>3, <1>4 DEF VM
<1>6. w \in VM
  <2>1. Append(c.wakeups, t) \in Seq(Thread)
    BY <1>1, <1>3, VMFields
  <2> QED BY <1>3, <1>4, <2>1, ZenonT(60) DEF VM
<1>7. Follows(c, w)
  BY <1>5, SameDue, SameAsks DEF Follows
<1>8. c.next \in Nat
  BY <1>3, VMFields, SessionAssumption
<1>9. Onward(s, c, w, {})
  BY <1>2, <1>3, <1>5, <1>6, <1>7, <1>8, SameOnward
<1>10. Onward(s, v, w, {})
  BY <1>2, <1>9, OnwardTrans
<1> QED BY <1>2, <1>3, <1>5, <1>10 DEF w

(* The turn of a coroutine ends with it. *)
LEMMA EndOnward ==
  ASSUME NEW s, NEW v \in VM, v.post = None, v.run \in Thread, Idle(v, v.run)
  PROVE  Onward(s, v, End(v), {}) /\ End(v).post = None
<1> DEFINE w == Finish(v, v.run)
<1>1. Onward(s, v, w, {}) /\ w.post = None
  BY CreateOnward DEF Finish, Job
<1>2. w \in VM
  BY <1>1 DEF Onward
<1> HIDE DEF w
<1>3. Onward(s, w, Dispatch(w), {}) /\ Dispatch(w).post = None
  BY <1>1, <1>2, DispatchOnward
<1>4. Onward(s, v, Dispatch(w), {})
  BY <1>1, <1>3, OnwardTrans
<1> QED BY <1>3, <1>4 DEF End, w

(* A coroutine that ends posts the answer to the request it has. *)
LEMMA PostHeld ==
  ASSUME NEW s, NEW v \in VM, v.post = None, NEW t \in Thread, NEW job \in Job,
         v.from[t] \in Services, v.session[t] \in 0..MaxSession,
         v.todo[t] = {} \/ v.job[t] = "quitting",
         NEW w \in VM, NEW type \in {"response", "error"}, NEW then \in {"response", "raised"},
         w.from = [v.from EXCEPT ![t] = None], w.session = [v.session EXCEPT ![t] = Nil],
         w.todo = [v.todo EXCEPT ![t] = {}], w.job = [v.job EXCEPT ![t] = job],
         w.lookup = v.lookup, w.next = v.next, w.sel = v.sel, w.state = v.state,
         w.post = Mail(v.from[t], type, v.session[t], None, then)
  PROVE  Onward(s, v, w, {})
<1>1. /\ v.from \in [Thread -> Services \cup {None}]
      /\ v.session \in [Thread -> (0..MaxSession) \cup {Nil}]
      /\ v.todo \in [Thread -> SUBSET (Services \X ((0..MaxSession) \cup {Nil}))]
      /\ v.job \in [Thread -> Job]
  BY VMFields
<1>2. \A u \in Thread : /\ w.from[u] = IF u = t THEN None ELSE v.from[u]
                        /\ w.session[u] = IF u = t THEN Nil ELSE v.session[u]
                        /\ w.todo[u] = IF u = t THEN {} ELSE v.todo[u]
                        /\ w.job[u] = IF u = t THEN job ELSE v.job[u]
  BY <1>1
<1>3. /\ w.post # None /\ w.post.report = None /\ w.post.type = type /\ w.post.then = then
      /\ w.post.to = v.from[t] /\ w.post.session = v.session[t]
  <2>1. w.post \in Post
    BY DEF Mail, Post
  <2> QED BY <2>1, NilAssumption DEF Mail
<1>4. ASSUME NEW c \in Services, NEW k \in Sessions
      PROVE  /\ \A h \in BOOLEAN : HasV(w, <<c, k>>, h) <=> HasV(v, <<c, k>>, h)
             /\ OnceV(v, <<c, k>>) => OnceV(w, <<c, k>>)
             /\ DueVM(w, <<c, k>>) => DueVM(v, <<c, k>>)
  <2> DEFINE call == <<c, k>>
  <2>1. c # None /\ call # None
    BY NilAssumption, NotACall
  <2>2. \A u \in Thread : /\ HeldBy(w, u, call) <=> u # t /\ HeldBy(v, u, call)
                          /\ TodoBy(w, u, call) <=> u # t /\ TodoBy(v, u, call)
    BY <1>2, <2>1 DEF HeldBy, TodoBy
  <2>3. ~TodoBy(v, t, call)
    BY DEF TodoBy
  <2>4. ~PostAnswers(v, call)
    BY DEF PostAnswers, PostCarries
  <2>5. PostAnswers(w, call) <=> HeldBy(v, t, call)
    BY <1>3 DEF PostAnswers, PostCarries, HeldBy
  <2>6. \A h \in BOOLEAN : HasV(w, call, h) <=> HasV(v, call, h)
    BY <1>3, <2>2, <2>3, <2>4, <2>5 DEF HasV, PostHas
  <2>7. OnceV(v, call) => OnceV(w, call)
    BY <2>2, <2>3, <2>4, <2>5 DEF OnceV
  <2>8. DueVM(w, call) => DueVM(v, call)
    <3>1. CASE \E u \in Thread : call = <<w.from[u], w.session[u]>>
      BY <1>2, <2>1, <3>1 DEF DueVM
    <3>2. CASE \E u \in Thread : call \in w.todo[u]
      BY <1>2, <3>2 DEF DueVM
    <3>3. CASE DuePost(w.post, call)
      BY <1>3, <2>1, <3>3 DEF DuePost, DueVM
    <3> QED BY <3>1, <3>2, <3>3 DEF DueVM
  <2> QED BY <2>6, <2>7, <2>8
<1>5. \A k \in Sessions : Asks(v, k) => Asks(w, k)
  BY SameAsks
<1>6. Follows(v, w)
  BY <1>4, <1>5 DEF Follows
<1>7. JobKept(s, v) => JobKept(s, w)
  BY <1>2 DEF JobKept
<1>8. LookupKept(v) => LookupKept(w)
  BY DEF LookupKept
<1>9. \A k \in Sessions : AwaitedV(w, k) => AwaitedV(v, k)
  BY DEF AwaitedV
<1>10. Quiet(v, w)
  BY <1>4 DEF Quiet
<1> QED BY <1>6, <1>7, <1>8, <1>9, <1>10 DEF Onward

(* The running coroutine raises an error. *)
LEMMA FailOnward ==
  ASSUME NEW s, NEW v, Settled(v), v.run \in Thread, Unlisted(v, v.run), v.post = None,
         JobKept(s, v), v.todo[v.run] = {} \/ v.job[v.run] = "quitting"
  PROVE  /\ Onward(s, v, Fail(v), {}) /\ PostKept(s, Fail(v))
         /\ Fail(v).state # "live" => Fail(v).post = None \/ v.state # "live"
<1> DEFINE t == v.run
           a == Abandon(v)
           w == Finish(a, t)
<1>1. /\ Onward(s, v, a, {}) /\ a \in VM /\ a.post = None /\ a.job = v.job
      /\ a.from = v.from /\ a.session = v.session /\ a.todo = v.todo
  BY AbandonOnward
<1>2. /\ v \in VM /\ v.from \in [Thread -> Services \cup {None}]
      /\ v.session \in [Thread -> (0..MaxSession) \cup {Nil}]
  BY VMFields DEF Settled
<1>3. Fail(v) = IF v.from[t] = None THEN Dispatch(w)
                ELSE IF v.session[t] = Nil
                THEN [w EXCEPT !.run = None, !.wakeups = <<>>, !.state = "dead"]
                ELSE [w EXCEPT !.run = None,
                               !.post = Mail(v.from[t], "error", v.session[t],
                                             None, "raised")]
  BY DEF Fail
<1>4. a.state = v.state
  BY <1>2 DEF Abandon, VM
<1> HIDE DEF a
<1>5. CASE v.from[t] = None \/ v.session[t] = Nil
  <2>1. Onward(s, a, w, {}) /\ w.post = None
    BY <1>1, <1>5, CreateOnward DEF Idle, Finish, Job
  <2>2. w \in VM
    BY <1>1, <2>1 DEF Onward
  <2> HIDE DEF w
  <2>3. Onward(s, v, w, {})
    BY <1>1, <2>1, OnwardTrans
  <2>4. CASE v.from[t] = None
    <3>1. Onward(s, w, Dispatch(w), {}) /\ Dispatch(w).post = None
      BY <2>1, <2>2, DispatchOnward
    <3> QED BY <1>3, <2>3, <2>4, <3>1, OnwardTrans DEF PostKept
  <2>5. CASE v.from[t] # None
    <3> DEFINE c == [w EXCEPT !.run = None, !.wakeups = <<>>, !.state = "dead"]
    <3>1. Fail(v) = c
      BY <1>3, <1>5, <2>5
    <3>2. /\ c \in VM /\ c.post = None /\ c.lookup = w.lookup /\ c.job = w.job
          /\ c.todo = w.todo /\ c.next = w.next /\ c.sel = w.sel /\ c.from = w.from
          /\ c.session = w.session /\ c.state = "dead"
      <4>1. <<>> \in Seq(Thread) /\ "dead" \in {"live", "dead", "signalled", "gone"}
            /\ None \in Thread \cup {None}
        OBVIOUS
      <4> QED BY <2>1, <2>2, <4>1 DEF VM
    <3> HIDE DEF c
    <3>3. Follows(w, c)
      BY <3>2, SameDue, SameAsks DEF Follows
    <3>4. c.next \in Nat
      BY <3>2, VMFields, SessionAssumption
    <3>5. Onward(s, w, c, {})
      BY <2>1, <2>2, <3>2, <3>3, <3>4, SameOnward
    <3> QED BY <2>3, <3>1, <3>2, <3>5, OnwardTrans DEF PostKept
  <2> QED BY <2>4, <2>5
<1>6. CASE v.from[t] # None /\ v.session[t] # Nil
  <2> DEFINE m == Mail(v.from[t], "error", v.session[t], None, "raised")
             c == [w EXCEPT !.run = None, !.post = m]
  <2>1. Fail(v) = c
    BY <1>3, <1>6
  <2>2. v.from[t] \in Services /\ v.session[t] \in 0..MaxSession
    BY <1>2, <1>6
  <2>3. m \in Post /\ m.then = "raised" /\ m.type = "error" /\ m.session = v.session[t]
    BY <2>2 DEF Mail, Post
  <2>4. /\ w \in VM /\ w.lookup = a.lookup /\ w.next = a.next /\ w.sel = a.sel
        /\ w.state = a.state /\ w.from = [a.from EXCEPT ![t] = None]
        /\ w.session = [a.session EXCEPT ![t] = Nil] /\ w.todo = [a.todo EXCEPT ![t] = {}]
        /\ w.job = [a.job EXCEPT ![t] = "free"]
    BY <1>1 DEF Finish, Create, VM, Job
  <2> HIDE DEF w, m
  <2>5. /\ c \in VM /\ c.lookup = w.lookup /\ c.next = w.next /\ c.sel = w.sel
        /\ c.state = w.state /\ c.from = w.from /\ c.session = w.session
        /\ c.todo = w.todo /\ c.job = w.job /\ c.post = m /\ c.run = None
    BY <2>3, <2>4 DEF VM
  <2> HIDE DEF c
  <2>6. Onward(s, a, c, {})
    BY <1>1, <2>2, <2>4, <2>5, PostHeld DEF Job, m
  <2>7. PostKept(s, c)
    <3>1. s # Root => v.session[t] # 0
      BY <1>6 DEF JobKept
    <3> QED BY <2>3, <2>5, <3>1 DEF PostKept
  <2> QED BY <1>1, <1>4, <2>1, <2>4, <2>5, <2>6, <2>7, OnwardTrans
<1> QED BY <1>5, <1>6

-----------------------------------------------------------------------------
(* What the running coroutine does.                                        *)

LEMMA LocalQuiet ==
  ASSUME AccountInv, Inv', NEW s \in Services, NEW ops, Running(s, ops), NEW w, Local(s, w),
         Onward(s, vm[s], w, {}), PostKept(s, w), w.state # "live" => w.post = None
  PROVE  AccountInv'
<1>1. ~aborted /\ Change(s, w, {}) /\ UNCHANGED <<queue, timers, told>>
  BY DEF Running, Local
<1>2. timers' = timers \cup {<<s, k>> : k \in {}}
  BY <1>1
<1>3. {} \in SUBSET Sessions
  OBVIOUS
<1> QED BY <1>1, <1>2, <1>3, QuietAccount

LEMMA LocalSilent ==
  ASSUME AccountInv, Inv', NEW s \in Services, NEW ops, Running(s, ops), NEW w, Local(s, w),
         Onward(s, vm[s], w, {}), w.post = None
  PROVE  AccountInv'
BY LocalQuiet DEF PostKept

LEMMA RunFacts ==
  ASSUME AccountInv, NEW s \in Services, NEW ops, Running(s, ops)
  PROVE  /\ ~aborted /\ Settled(vm[s]) /\ vm[s] \in VM /\ Unlisted(vm[s], vm[s].run)
         /\ vm[s].run \in Thread /\ vm[s].job[vm[s].run] \in ops
         /\ vm[s].post = None /\ vm[s].state = "live"
         /\ JobKept(s, vm[s]) /\ LookupKept(vm[s])
<1>1. Inv
  BY DEF AccountInv
<1> QED BY <1>1, RunningFacts, AccountFacts DEF Running

(* The message it posts is no answer. *)
LEMMA AskingQuiet ==
  ASSUME NEW s, NEW v \in VM, v.post = None, NEW m \in Post,
         m.then \in {"call", "send", "sleep", "timeout", "select", "report"},
         \A c \in Services, k \in Sessions : m.report = <<c, k>> => DueVM(v, <<c, k>>)
  PROVE  Onward(s, v, [v EXCEPT !.post = m], {})
<1> DEFINE w == [v EXCEPT !.post = m]
<1>1. /\ w \in VM /\ w.from = v.from /\ w.session = v.session /\ w.todo = v.todo
      /\ w.job = v.job /\ w.lookup = v.lookup /\ w.sel = v.sel /\ w.next = v.next
      /\ w.post = m /\ w.state = v.state
  BY DEF VM
<1> HIDE DEF w
<1>2. \A call : ~PostAnswers(v, call) /\ ~PostAnswers(w, call)
  BY <1>1 DEF PostAnswers, PostCarries
<1>3. \A call : \A t \in Thread : /\ HeldBy(w, t, call) <=> HeldBy(v, t, call)
                                  /\ TodoBy(w, t, call) <=> TodoBy(v, t, call)
  BY <1>1 DEF HeldBy, TodoBy
<1>4. Quiet(v, w)
  BY <1>2, <1>3, ZenonT(60) DEF Quiet, HasV, OnceV, PostHas
<1>5. \A c \in Services, k \in Sessions : DueVM(w, <<c, k>>) => DueVM(v, <<c, k>>)
  BY <1>1 DEF DueVM, DuePost
<1>6. Follows(v, w)
  BY <1>1, <1>5, SameAsks DEF Follows
<1>7. (JobKept(s, v) => JobKept(s, w)) /\ (LookupKept(v) => LookupKept(w))
  BY <1>1 DEF JobKept, LookupKept
<1>8. \A k \in Sessions : AwaitedV(w, k) => AwaitedV(v, k)
  BY <1>1 DEF AwaitedV
<1> QED BY <1>1, <1>4, <1>6, <1>7, <1>8 DEF Onward, w

LEMMA AskingAccount ==
  ASSUME AccountInv, Inv', NEW s \in Services, NEW ops, Running(s, ops),
         NEW m, m \in Post, PostMail(s, m),
         m.then \in {"call", "send", "sleep", "timeout", "select", "report"},
         IF m.then = "report" THEN vm[s].job[vm[s].run] = "report" /\ vm[s].todo[vm[s].run] = {m.report}
                              ELSE vm[s].job[vm[s].run] = "user" /\ m.report = None
  PROVE  AccountInv'
<1> DEFINE v == vm[s]
           w == [v EXCEPT !.post = m]
<1>1. v \in VM /\ v.post = None /\ v.run \in Thread /\ v.state = "live"
  BY RunFacts
<1>2. \A c \in Services, k \in Sessions : m.report = <<c, k>> => DueVM(v, <<c, k>>)
  BY <1>1, NotACall DEF DueVM
<1>3. Onward(s, v, w, {})
  BY <1>1, <1>2, AskingQuiet
<1>4. w.post = m /\ w.run = v.run /\ w.job = v.job /\ w.todo = v.todo /\ w.state = v.state
  BY <1>1 DEF VM
<1>5. PostKept(s, w)
  BY <1>1, <1>4 DEF PostKept
<1>6. Local(s, w)
  BY DEF PostMail, Local
<1> HIDE DEF w
<1> QED BY <1>1, <1>3, <1>4, <1>5, <1>6, LocalQuiet

LEMMA SendAccount ==
  ASSUME AccountInv, Inv', NEW s \in Users, NEW to \in Users, NEW op \in {"call", "send"},
         SendRequest(s, to, op)
  PROVE  AccountInv'
<1> DEFINE v == vm[s]
           m == Mail(to, "request", v.next, None, op)
<1>1. s \in Services /\ Running(s, {"user"}) /\ PostMail(s, m) /\ v.next <= MaxSession
  BY DEF Services, SendRequest, May, SessionLeft
<1>2. v \in VM /\ v.job[v.run] = "user"
  BY <1>1, RunFacts
<1>3. v.next \in 0..MaxSession
  BY <1>1, <1>2, VMFields, SessionAssumption
<1>4. m \in Post /\ m.then = op /\ m.report = None
  BY <1>3 DEF Mail, Post, Services
<1> HIDE DEF m
<1> QED BY <1>1, <1>2, <1>4, AskingAccount

LEMMA WakeSelfAccount ==
  ASSUME AccountInv, Inv', NEW s \in Users, NEW op \in {"sleep", "timeout"}, WakeSelf(s, op)
  PROVE  AccountInv'
<1> DEFINE v == vm[s]
           m == Mail(s, "response", v.next, None, op)
<1>1. s \in Services /\ Running(s, {"user"}) /\ PostMail(s, m) /\ v.next <= MaxSession
  BY DEF Services, WakeSelf, May, SessionLeft
<1>2. v \in VM /\ v.job[v.run] = "user"
  BY <1>1, RunFacts
<1>3. v.next \in 0..MaxSession
  BY <1>1, <1>2, VMFields, SessionAssumption
<1>4. m \in Post /\ m.then = op /\ m.report = None
  BY <1>1, <1>3 DEF Mail, Post
<1> HIDE DEF m
<1> QED BY <1>1, <1>2, <1>4, AskingAccount

LEMMA ReportAccount ==
  ASSUME AccountInv, Inv', NEW s \in Services, Report(s)
  PROVE  AccountInv'
<1> DEFINE v == vm[s]
           call == CHOOSE c \in v.todo[v.run] : TRUE
           m == Mail(Root, "request", 0, call, "report")
<1>1. Running(s, {"report"}) /\ PostMail(s, m)
  BY DEF Report
<1>2. Settled(v) /\ v.run \in Thread /\ v.job[v.run] = "report"
  BY <1>1, RunFacts
<1>3. call \in Call /\ v.todo[v.run] = {call}
  <2>1. PICK c \in Call : v.todo[v.run] = {c}
    BY <1>2 DEF Settled, JobOK
  <2> QED BY <2>1
<1> HIDE DEF call
<1>4. m \in Post /\ m.report = call /\ m.then = "report"
  BY <1>3, SessionAssumption DEF Mail, Post, Services
<1> HIDE DEF m
<1> QED BY <1>1, <1>2, <1>3, <1>4, AskingAccount

(* ltask.sleep: the timer service will answer. *)
LEMMA SleepTimeAccount ==
  ASSUME AccountInv, Inv', NEW s \in Users, SleepTime(s)
  PROVE  AccountInv'
<1> DEFINE v == vm[s]
           c == Suspend(v, v.run)
           w == Dispatch(c)
           k == v.next
<1>1. s \in Services /\ Running(s, {"user"}) /\ v.next <= MaxSession
  BY DEF Services, SleepTime, May, SessionLeft
<1>2. v \in VM /\ v.run \in Thread /\ v.post = None /\ ~aborted
  BY <1>1, RunFacts
<1>3. v.run \in Sleepers \ {None}
  BY <1>2, NilAssumption DEF Sleepers
<1>4. /\ Onward(s, v, c, {k}) /\ k \in Sessions /\ c.lookup[k] = v.run /\ ~Asks(v, k)
      /\ c.post = None
  BY <1>1, <1>2, <1>3, SuspendOnward
<1>5. c \in VM
  BY <1>2, <1>4 DEF Onward
<1>6. Onward(s, c, w, {k}) /\ w.post = None
  BY <1>4, <1>5, DispatchOnward
<1>7. w.lookup = c.lookup
  BY <1>5 DEF Dispatch, VM
<1>8. /\ timers' = timers \cup {<<s, v.next>>} /\ Change(s, w, {})
      /\ UNCHANGED <<queue, told, aborted>>
  BY DEF SleepTime
<1> HIDE DEF c, w, k
<1>9. Onward(s, v, w, {k})
  BY <1>4, <1>6, OnwardTrans
<1>10. \A j \in {k} : ~Asks(vm[s], j) /\ w.lookup[j] # None
  BY <1>3, <1>4, <1>7
<1>11. timers' = timers \cup {<<s, j>> : j \in {k}}
  BY <1>8 DEF k
<1> QED BY <1>1, <1>2, <1>4, <1>6, <1>8, <1>9, <1>10, <1>11, QuietAccount DEF PostKept

LEMMA ForkAccount ==
  ASSUME AccountInv, Inv', NEW s \in Users, ForkUser(s) \/ Quit(s)
  PROVE  AccountInv'
<1>1. s \in Services /\ Running(s, {"user"})
  BY DEF Services, ForkUser, Quit, May
<1>2. PICK job \in {"user", "quit"} : Local(s, Fork(vm[s], job)) /\ FreeThreads(vm[s]) # {}
  BY DEF ForkUser, Quit
<1>3. vm[s] \in VM /\ vm[s].post = None /\ JobKept(s, vm[s]) /\ job \in Job
  BY <1>1, RunFacts DEF Job
<1> QED BY <1>1, <1>2, <1>3, ForkOnward, LocalSilent

(* A session is handed out that nobody answers. *)
LEMMA HandOut ==
  ASSUME NEW s, NEW v \in VM, v.post = None, v.next <= MaxSession, NEW w,
         NEW key \in Keys, NEW x \in Selection \cup {None},
         x = v.sel \/ (x # None /\ v.sel # None /\ x.sessions = v.sel.sessions /\ x.timer = v.sel.timer),
         v.run \in Thread,
         w = [v EXCEPT !.waiting[key] = v.run, !.next = @ + 1, !.sel = x]
  PROVE  Onward(s, v, Dispatch(w), {}) /\ Dispatch(w).post = None
<1>1. v.next \in Nat /\ v.next + 1 \in 1..(MaxSession + 1)
  BY VMFields, SessionAssumption
<1>2. [v.waiting EXCEPT ![key] = v.run] \in [Keys -> Thread \cup {None}]
  BY VMFields
<1>3. w \in VM
  BY <1>1, <1>2 DEF VM, Keys
<1>4. /\ w.from = v.from /\ w.session = v.session /\ w.todo = v.todo /\ w.job = v.job
      /\ w.post = None /\ w.lookup = v.lookup /\ w.next = v.next + 1 /\ w.sel = x
      /\ w.state = v.state
  BY DEF VM
<1>5. \A k \in Sessions : Asks(v, k) => Asks(w, k)
  BY <1>1, <1>4 DEF Asks, Sessions
<1>6. Follows(v, w)
  BY <1>4, <1>5, SameDue DEF Follows
<1>7. Quiet(v, w)
  BY <1>4, SameQuiet
<1>8. JobKept(s, v) => JobKept(s, w)
  BY <1>4 DEF JobKept
<1>9. LookupKept(v) => LookupKept(w)
  BY <1>1, <1>4, SessionAssumption DEF LookupKept
<1>10. \A k \in Sessions : /\ AwaitedV(w, k) => AwaitedV(v, k)
                           /\ Asks(v, k) => k < v.next
  BY <1>4 DEF AwaitedV, Asks
<1>11. Onward(s, v, w, {})
  BY <1>3, <1>4, <1>6, <1>7, <1>8, <1>9, <1>10 DEF Onward
<1>12. Onward(s, w, Dispatch(w), {}) /\ Dispatch(w).post = None
  BY <1>3, <1>4, DispatchOnward
<1> QED BY <1>11, <1>12, OnwardTrans

LEMMA WaitAccount ==
  ASSUME AccountInv, Inv', NEW s \in Users, NEW token \in Tokens, Wait(s, token)
  PROVE  AccountInv'
<1> DEFINE v == vm[s]
           w == [v EXCEPT !.waiting[token] = v.run, !.next = @ + 1]
<1>1. s \in Services /\ Running(s, {"user"}) /\ v.next <= MaxSession /\ Local(s, Dispatch(w))
  BY DEF Services, Wait, May, SessionLeft
<1>2. v \in VM /\ v.run \in Thread /\ v.post = None
  BY <1>1, RunFacts
<1>3. w = [v EXCEPT !.waiting[token] = v.run, !.next = @ + 1, !.sel = v.sel]
  BY <1>2 DEF VM
<1>4. token \in Keys /\ v.sel \in Selection \cup {None}
  BY <1>2, VMFields DEF Keys
<1> HIDE DEF w
<1>5. Onward(s, v, Dispatch(w), {}) /\ Dispatch(w).post = None
  BY <1>1, <1>2, <1>3, <1>4, HandOut
<1> QED BY <1>1, <1>5, LocalSilent

LEMMA WakeupAccount ==
  ASSUME AccountInv, Inv', NEW s \in Users, NEW token \in Tokens, Wakeup(s, token)
  PROVE  AccountInv'
<1>1. s \in Services /\ Running(s, {"user"}) /\ Local(s, Woken(vm[s], token)) /\ token \in Keys
  BY DEF Services, Wakeup, May, Keys
<1>2. vm[s] \in VM /\ vm[s].post = None
  BY <1>1, RunFacts
<1>3. Woken(vm[s], token).post = None
  BY <1>2, WokenFields
<1> QED BY <1>1, <1>2, <1>3, WokenOnward, LocalSilent

LEMMA RaiseAccount ==
  ASSUME AccountInv, Inv', NEW s \in Users, Raise(s)
  PROVE  AccountInv'
<1> DEFINE v == vm[s]
<1>1. s \in Services /\ Running(s, {"user"}) /\ Local(s, Fail(v))
  BY DEF Services, Raise, May
<1>2. /\ Settled(v) /\ v.run \in Thread /\ Unlisted(v, v.run) /\ v.post = None
      /\ JobKept(s, v) /\ v.job[v.run] = "user" /\ v.state = "live"
  BY <1>1, RunFacts
<1>3. v.todo[v.run] = {}
  BY <1>2 DEF JobKept
<1>4. /\ Onward(s, v, Fail(v), {}) /\ PostKept(s, Fail(v))
      /\ Fail(v).state # "live" => Fail(v).post = None
  BY <1>2, <1>3, FailOnward
<1> QED BY <1>1, <1>4, LocalQuiet

LEMMA ReturnAccount ==
  ASSUME AccountInv, Inv', NEW s \in Users, Return(s)
  PROVE  AccountInv'
<1> DEFINE v == vm[s]
           t == v.run
           m == Mail(v.from[t], "response", v.session[t], None, "response")
           c == Create(v, t, "user", None, Nil, {})
           w == [c EXCEPT !.post = m]
<1>1. s \in Services /\ Running(s, {"user"})
  BY DEF Services, Return
<1>2. /\ v \in VM /\ t \in Thread /\ v.post = None /\ JobKept(s, v) /\ v.job[t] = "user"
      /\ v.state = "live"
  BY <1>1, RunFacts
<1>3. v.todo[t] = {}
  BY <1>2 DEF JobKept
<1>4. CASE v.from[t] = None \/ v.session[t] \in {Nil, 0}
  <2>1. Local(s, End(v))
    BY <1>4 DEF Return
  <2>2. Onward(s, v, End(v), {}) /\ End(v).post = None
    BY <1>2, <1>3, <1>4, EndOnward DEF Idle
  <2> QED BY <1>1, <2>1, <2>2, LocalSilent
<1>5. CASE ~(v.from[t] = None \/ v.session[t] \in {Nil, 0})
  <2>1. Local(s, w)
    BY <1>5 DEF Return
  <2>2. /\ v.from \in [Thread -> Services \cup {None}]
        /\ v.session \in [Thread -> (0..MaxSession) \cup {Nil}]
        /\ v.job \in [Thread -> Job]
    BY <1>2, VMFields
  <2>3. v.from[t] \in Services /\ v.session[t] \in 0..MaxSession /\ v.session[t] # 0
    BY <1>2, <1>5, <2>2
  <2>4. m \in Post /\ m.then = "response" /\ m.type = "response" /\ m.session = v.session[t]
    BY <2>3 DEF Mail, Post
  <2>5. /\ c \in VM /\ c.from = [v.from EXCEPT ![t] = None]
        /\ c.session = [v.session EXCEPT ![t] = Nil] /\ c.todo = [v.todo EXCEPT ![t] = {}]
        /\ c.job = [v.job EXCEPT ![t] = "user"] /\ c.lookup = v.lookup /\ c.next = v.next
        /\ c.sel = v.sel /\ c.state = v.state /\ c.run = t
    BY <1>2 DEF Create, VM, Job
  <2> HIDE DEF c, m
  <2>6. /\ w \in VM /\ w.from = c.from /\ w.session = c.session /\ w.todo = c.todo
        /\ w.job = c.job /\ w.lookup = c.lookup /\ w.next = c.next /\ w.sel = c.sel
        /\ w.state = c.state /\ w.run = c.run /\ w.post = m
    BY <2>4, <2>5 DEF VM
  <2> HIDE DEF w
  <2>7. Onward(s, v, w, {})
    <3>1. /\ w.from = [v.from EXCEPT ![t] = None] /\ w.session = [v.session EXCEPT ![t] = Nil]
          /\ w.todo = [v.todo EXCEPT ![t] = {}] /\ w.job = [v.job EXCEPT ![t] = "user"]
          /\ w.lookup = v.lookup /\ w.next = v.next /\ w.sel = v.sel /\ w.state = v.state
      BY <2>5, <2>6
    <3>2. w.post = Mail(v.from[t], "response", v.session[t], None, "response")
      BY <2>6 DEF m
    <3>3. "user" \in Job /\ w \in VM
      BY <2>6 DEF Job
    <3> QED BY <1>2, <1>3, <2>3, <3>1, <3>2, <3>3, PostHeld, ZenonT(60)
  <2>8. w.job[t] = "user" /\ w.from[t] = None
    BY <1>2, <2>2, <2>5, <2>6
  <2>9. PostKept(s, w)
    BY <1>2, <2>3, <2>4, <2>5, <2>6, <2>8 DEF PostKept
  <2> QED BY <1>1, <1>2, <2>1, <2>5, <2>6, <2>7, <2>9, LocalQuiet
<1> QED BY <1>4, <1>5

(* The coroutine that ltask.quit forks finds out whom it has to tell: those
   are still the requests the others hold. *)
LEMMA BeginQuitAccount ==
  ASSUME AccountInv, Inv', NEW s \in Services, BeginQuit(s)
  PROVE  AccountInv'
<1> DEFINE v == vm[s]
           t == v.run
           callers == {<<v.from[u], v.session[u]>> :
                         u \in {x \in Thread : v.from[x] # None}}
           w == [v EXCEPT !.job[v.run] = "quitting", !.todo[v.run] = callers]
<1>1. Running(s, {"quit"}) /\ Local(s, w)
  BY DEF BeginQuit
<1>2. /\ v \in VM /\ t \in Thread /\ v.post = None /\ JobKept(s, v) /\ v.job[t] = "quit"
      /\ v.state = "live"
  BY <1>1, RunFacts
<1>3. /\ v.from \in [Thread -> Services \cup {None}]
      /\ v.session \in [Thread -> (0..MaxSession) \cup {Nil}]
      /\ v.job \in [Thread -> Job]
      /\ v.todo \in [Thread -> SUBSET (Services \X ((0..MaxSession) \cup {Nil}))]
  BY <1>2, VMFields
<1>4. callers \subseteq Services \X ((0..MaxSession) \cup {Nil})
  BY <1>3
<1>5. /\ \A call \in callers : \E u \in Thread : call = <<v.from[u], v.session[u]>>
      /\ s # Root => \A call \in callers : call[2] # 0
  BY <1>2 DEF JobKept
<1> HIDE DEF callers
<1>6. /\ w \in VM /\ w.job = [v.job EXCEPT ![t] = "quitting"]
      /\ w.todo = [v.todo EXCEPT ![t] = callers]
      /\ w.lookup = v.lookup /\ w.next = v.next /\ w.sel = v.sel /\ w.run = v.run
      /\ w.from = v.from /\ w.session = v.session /\ w.post = v.post /\ w.state = v.state
  BY <1>2, <1>4 DEF VM, Job
<1> HIDE DEF w
<1>7. \A u \in Thread : /\ w.job[u] = IF u = t THEN "quitting" ELSE v.job[u]
                        /\ w.todo[u] = IF u = t THEN callers ELSE v.todo[u]
  BY <1>2, <1>3, <1>6
<1>8. v.todo[t] = {}
  BY <1>2 DEF JobKept
<1>9. \A call : \A u \in Thread : /\ HeldBy(w, u, call) <=> HeldBy(v, u, call)
                                  /\ TodoBy(w, u, call) <=> TodoBy(v, u, call)
  BY <1>6, <1>7, <1>8 DEF HeldBy, TodoBy
<1>10. \A call : ~PostAnswers(v, call) /\ ~PostAnswers(w, call)
  BY <1>2, <1>6 DEF PostAnswers, PostCarries
<1>11. Quiet(v, w)
  BY <1>9, <1>10 DEF Quiet, HasV, OnceV, PostHas
<1>12. JobKept(s, w)
  BY <1>2, <1>5, <1>6, <1>7 DEF JobKept
<1>13. (LookupKept(v) => LookupKept(w)) /\ \A k \in Sessions : AwaitedV(w, k) => AwaitedV(v, k)
  BY <1>6 DEF LookupKept, AwaitedV
<1>14. ASSUME NEW c \in Services, NEW k \in Sessions, DueVM(w, <<c, k>>)
       PROVE  DueVM(v, <<c, k>>)
  BY <1>2, <1>5, <1>6, <1>7, <1>14 DEF DueVM
<1>15. Follows(v, w)
  BY <1>6, <1>14, SameAsks DEF Follows
<1>16. Onward(s, v, w, {})
  BY <1>6, <1>11, <1>12, <1>13, <1>15 DEF Onward
<1> QED BY <1>1, <1>2, <1>6, <1>16, LocalSilent

(* An error is sent to one of the callers. *)
LEMMA TellAccount ==
  ASSUME AccountInv, Inv', NEW s \in Services, NEW call, Tell(s, call)
  PROVE  AccountInv'
<1> DEFINE v == vm[s]
           t == v.run
           m == Mail(call[1], "error", call[2], None, "tell")
           w == [v EXCEPT !.todo[v.run] = @ \ {call}, !.post = m]
<1>1. Running(s, {"tell", "quitting"}) /\ call \in v.todo[t]
      /\ Local(s, IF call[2] = Nil THEN Fail(v) ELSE w)
  BY DEF Tell
<1>2. /\ v \in VM /\ Settled(v) /\ t \in Thread /\ v.post = None /\ JobKept(s, v)
      /\ Unlisted(v, t) /\ v.job[t] \in {"tell", "quitting"} /\ v.state = "live"
  BY <1>1, RunFacts
<1>3. /\ v.todo \in [Thread -> SUBSET (Services \X ((0..MaxSession) \cup {Nil}))]
      /\ v.todo[t] \subseteq Services \X ((0..MaxSession) \cup {Nil})
  BY <1>2, VMFields
<1>4. call[1] \in Services /\ call[2] \in (0..MaxSession) \cup {Nil} /\ call = <<call[1], call[2]>>
  BY <1>1, <1>3
<1>5. CASE call[2] = Nil
  <2>1. v.job[t] # "tell"
    <3>1. v.job[t] = "tell" => call \in Call
      BY <1>1, <1>2 DEF Settled, JobOK
    <3> QED BY <1>4, <1>5, <3>1, NilAssumption DEF Call
  <2>2. /\ Onward(s, v, Fail(v), {}) /\ PostKept(s, Fail(v))
        /\ Fail(v).state # "live" => Fail(v).post = None
    BY <1>2, <2>1, FailOnward
  <2> QED BY <1>1, <1>5, <2>2, LocalQuiet
<1>6. CASE call[2] # Nil
  <2>1. call[2] \in 0..MaxSession
    BY <1>4, <1>6
  <2>2. /\ m \in Post /\ m.then = "tell" /\ m.type = "error" /\ m.report = None
        /\ m.to = call[1] /\ m.session = call[2] /\ m # None
    BY <1>4, <2>1, NilAssumption DEF Mail, Post
  <2> HIDE DEF m
  <2>3. /\ w \in VM /\ w.todo = [v.todo EXCEPT ![t] = @ \ {call}]
        /\ w.lookup = v.lookup /\ w.next = v.next /\ w.sel = v.sel /\ w.run = v.run
        /\ w.from = v.from /\ w.session = v.session /\ w.post = m /\ w.state = v.state
        /\ w.job = v.job
    BY <1>2, <1>3, <2>2 DEF VM
  <2> HIDE DEF w
  <2>4. \A u \in Thread : w.todo[u] = IF u = t THEN v.todo[t] \ {call} ELSE v.todo[u]
    BY <1>2, <1>3, <2>3
  <2>5. \A x : \A u \in Thread : /\ HeldBy(w, u, x) <=> HeldBy(v, u, x)
                                 /\ TodoBy(w, u, x) <=> TodoBy(v, u, x) /\ ~(u = t /\ x = call)
    BY <2>3, <2>4 DEF HeldBy, TodoBy
  <2>6. \A x : ~PostAnswers(v, x) /\ (PostAnswers(w, x) <=> x = call /\ TodoBy(v, t, x))
    BY <1>1, <1>2, <1>4, <2>2, <2>3 DEF PostAnswers, PostCarries, TodoBy
  <2>7. Quiet(v, w)
    <3>1. ASSUME NEW c \in Services, NEW k \in Sessions
          PROVE  /\ \A h \in BOOLEAN : HasV(w, <<c, k>>, h) <=> HasV(v, <<c, k>>, h)
                 /\ OnceV(v, <<c, k>>) => OnceV(w, <<c, k>>)
      <4> DEFINE x == <<c, k>>
      <4>1. \A h \in BOOLEAN : PostHas(w, x, h) <=> PostAnswers(w, x)
        BY <2>2, <2>3 DEF PostHas
      <4>2. \A h \in BOOLEAN : HasV(w, x, h) <=> HasV(v, x, h)
        BY <1>2, <2>5, <2>6, <4>1 DEF HasV, PostHas
      <4>3. OnceV(v, x) => OnceV(w, x)
        BY <1>2, <2>5, <2>6 DEF OnceV
      <4> QED BY <4>2, <4>3
    <3> QED BY <3>1 DEF Quiet
  <2>8. JobKept(s, w)
    BY <1>2, <2>3, <2>4 DEF JobKept
  <2>9. (LookupKept(v) => LookupKept(w)) /\ \A k \in Sessions : AwaitedV(w, k) => AwaitedV(v, k)
    BY <2>3 DEF LookupKept, AwaitedV
  <2>10. ASSUME NEW c \in Services, NEW k \in Sessions, DueVM(w, <<c, k>>)
         PROVE  DueVM(v, <<c, k>>)
    <3>1. CASE \E u \in Thread : <<c, k>> \in w.todo[u]
      BY <1>2, <2>4, <3>1 DEF DueVM
    <3>2. CASE DuePost(m, <<c, k>>)
      BY <1>1, <1>2, <1>4, <2>2, <3>2, NotACall DEF DuePost, DueVM
    <3> QED BY <2>3, <2>10, <3>1, <3>2 DEF DueVM
  <2>11. Follows(v, w)
    BY <2>3, <2>10, SameAsks DEF Follows
  <2>12. Onward(s, v, w, {})
    BY <2>3, <2>7, <2>8, <2>9, <2>11 DEF Onward
  <2>13. PostKept(s, w)
    <3>1. s # Root => call[2] # 0
      BY <1>1, <1>2 DEF JobKept
    <3> QED BY <1>2, <2>2, <2>3, <3>1 DEF PostKept
  <2>14. Local(s, w)
    BY <1>1, <1>6 DEF w, m
  <2> QED BY <1>1, <1>2, <2>3, <2>12, <2>13, <2>14, LocalQuiet
<1> QED BY <1>5, <1>6

LEMMA TellEndAccount ==
  ASSUME AccountInv, Inv', NEW s \in Services, TellEnd(s)
  PROVE  AccountInv'
<1> DEFINE v == vm[s]
           q == v.quit \/ v.job[v.run] = "quitting"
           w == [v EXCEPT !.quit = q]
<1>1. Running(s, {"tell", "quitting"}) /\ Local(s, End(w)) /\ v.todo[v.run] = {}
  BY DEF TellEnd
<1>2. /\ v \in VM /\ v.run \in Thread /\ v.post = None /\ JobKept(s, v)
      /\ v.job[v.run] \in {"tell", "quitting"}
  BY <1>1, RunFacts
<1>3. q \in BOOLEAN
  OBVIOUS
<1> HIDE DEF q
<1>4. /\ w \in VM /\ w.lookup = v.lookup /\ w.job = v.job /\ w.todo = v.todo
      /\ w.next = v.next /\ w.sel = v.sel /\ w.run = v.run /\ w.from = v.from
      /\ w.session = v.session /\ w.post = v.post /\ w.state = v.state
  BY <1>2, <1>3 DEF VM
<1> HIDE DEF w
<1>5. Follows(v, w)
  BY <1>4, SameDue, SameAsks DEF Follows
<1>6. v.next \in Nat
  BY <1>2, VMFields, SessionAssumption
<1>7. Onward(s, v, w, {})
  BY <1>2, <1>4, <1>5, <1>6, SameOnward
<1>8. Idle(w, w.run)
  BY <1>1, <1>2, <1>4 DEF JobKept, Idle
<1>9. Onward(s, w, End(w), {}) /\ End(w).post = None
  BY <1>2, <1>4, <1>8, EndOnward
<1>10. Onward(s, v, End(w), {})
  BY <1>7, <1>9, OnwardTrans
<1> QED BY <1>1, <1>9, <1>10, LocalSilent DEF w, q

(* ltask.no_response: the request will not be answered. *)
LEMMA NoResponseAccount ==
  ASSUME AccountInv, Inv', NEW s \in Users, NoResponse(s)
  PROVE  AccountInv'
<1> DEFINE v == vm[s]
           t == v.run
           w == [v EXCEPT !.session[v.run] = Nil]
           gone == <<v.from[t], v.session[t]>>
           D == {gone} \ told
<1>1. s \in Services /\ Running(s, {"user"})
  BY DEF Services, NoResponse, May
<1>2. /\ v \in VM /\ t \in Thread /\ v.post = None /\ JobKept(s, v) /\ LookupKept(v)
      /\ v.job[t] = "user" /\ v.state = "live" /\ ~aborted
  BY <1>1, RunFacts
<1>3. /\ v.from \in [Thread -> Services \cup {None}]
      /\ v.session \in [Thread -> (0..MaxSession) \cup {Nil}]
  BY <1>2, VMFields
<1>4. /\ w \in VM /\ w.session = [v.session EXCEPT ![t] = Nil]
      /\ w.lookup = v.lookup /\ w.job = v.job /\ w.todo = v.todo /\ w.next = v.next
      /\ w.sel = v.sel /\ w.run = v.run /\ w.from = v.from /\ w.post = v.post
      /\ w.state = v.state
  BY <1>2, <1>3 DEF VM
<1>5. Change(s, w, D) /\ UNCHANGED <<queue, timers, told, aborted>>
  BY DEF NoResponse
<1> HIDE DEF w
<1>6. \A u \in Thread : w.session[u] = IF u = t THEN Nil ELSE v.session[u]
  BY <1>3, <1>4
<1>7. Sheds(v, w, D)
  <2> SUFFICES ASSUME NEW c \in Services, NEW k \in Sessions
               PROVE  LET call == <<c, k>>
                      IN /\ call \notin told /\ OnceV(v, call) =>
                              /\ HasV(w, call, TRUE) => HasV(v, call, TRUE) /\ call \notin D
                              /\ HasV(v, call, TRUE) => HasV(w, call, TRUE) \/ call \in D
                              /\ call \in D => HasV(v, call, TRUE)
                              /\ OnceV(w, call)
                         /\ call \in told =>
                              (HasV(v, call, FALSE) => HasV(w, call, FALSE) \/ call \in D)
    BY Zenon DEF Sheds
  <2> DEFINE call == <<c, k>>
  <2>1. k # Nil
    BY NilAssumption, SessionAssumption DEF Sessions
  <2>2. \A u \in Thread : /\ HeldBy(w, u, call) <=> u # t /\ HeldBy(v, u, call)
                          /\ TodoBy(w, u, call) <=> TodoBy(v, u, call)
    BY <1>4, <1>6, <2>1 DEF HeldBy, TodoBy
  <2>3. ~PostAnswers(v, call) /\ ~PostAnswers(w, call)
    BY <1>2, <1>4 DEF PostAnswers, PostCarries
  <2>4. call = gone <=> HeldBy(v, t, call)
    BY DEF HeldBy
  <2>5. /\ HasV(v, call, TRUE) <=> \E u \in Thread : HeldBy(v, u, call) \/ TodoBy(v, u, call)
        /\ HasV(w, call, TRUE) <=> \E u \in Thread : HeldBy(w, u, call) \/ TodoBy(w, u, call)
        /\ HasV(v, call, FALSE) <=> \E u \in Thread : TodoBy(v, u, call)
        /\ HasV(w, call, FALSE) <=> \E u \in Thread : TodoBy(w, u, call)
    BY <2>3 DEF HasV, PostHas
  <2>6. call \in D <=> call \notin told /\ HeldBy(v, t, call)
    BY <2>4
  <2>7. CASE call \notin told /\ OnceV(v, call)
    <3>1. OnceV(w, call)
      BY <2>2, <2>3, <2>7 DEF OnceV
    <3>2. HeldBy(v, t, call) => ~HasV(w, call, TRUE)
      BY <1>2, <2>2, <2>5, <2>7 DEF OnceV
    <3> QED BY <1>2, <2>2, <2>5, <2>6, <2>7, <3>1, <3>2
  <2>8. CASE call \in told
    BY <2>2, <2>5, <2>8
  <2> QED BY <2>7, <2>8
<1>8. /\ lost' = lost \cup D /\ vm' = [vm EXCEPT ![s] = w]
  BY <1>2, <1>4, <1>5 DEF Change
<1>9. vm'[s] = w /\ \A x \in Services : x # s => vm'[x] = vm[x]
  BY <1>1, <1>8, AccountFacts
<1>10. \A k \in Sessions : WaitsOn(v, w, k)
  BY <1>4 DEF WaitsOn, Asks, AwaitedV
<1>11. timers' = timers \cup {<<s, k>> : k \in {}} /\ {} \in SUBSET Sessions
  BY <1>5
<1> HIDE DEF D
<1>12. Accounts' /\ Past'
  <2>1. Sheds(vm[s], vm'[s], D) /\ lost' = lost \cup D
    BY <1>7, <1>8, <1>9
  <2>2. \A k \in Sessions \ {} : WaitsOn(vm[s], vm'[s], k)
    BY <1>9, <1>10
  <2>3. vm'[s].state = "live" => vm[s].state = "live"
    BY <1>2
  <2>4. UNCHANGED <<queue, told>>
    BY <1>5
  <2> HIDE DEF v
  <2> QED BY <1>1, <1>2, <1>9, <1>11, <2>1, <2>2, <2>3, <2>4, ServiceAccounts
<1>13. Kept(s, w)
  <2>1. JobKept(s, w)
    BY <1>2, <1>4, <1>6, NilAssumption, SessionAssumption DEF JobKept
  <2> QED BY <1>2, <1>4, <2>1 DEF Kept, LookupKept, PostKept
<1>14. \A x \in Services : Kept(x, vm'[x]) /\ Emptied(vm'[x])
  BY <1>1, <1>2, <1>4, <1>9, <1>13, ServiceKept
<1>15. Letters'
  BY <1>5 DEF AccountInv, Letters
<1> QED BY <1>12, <1>14, <1>15 DEF AccountInv
LEMMA BeginSelectAccount ==
  ASSUME AccountInv, Inv', NEW s \in Users, BeginSelect(s)
  PROVE  AccountInv'
<1> DEFINE v == vm[s]
           x == [owner |-> v.run, left |-> SelectList[s], sessions |-> {},
                 resp |-> {}, errors |-> 0, request |-> 0, timer |-> None,
                 timeout |-> FALSE, at |-> "sending"]
           w == [v EXCEPT !.sel = x]
<1>1. s \in Services /\ Running(s, {"user"})
  BY DEF Services, BeginSelect, May
<1>2. v \in VM /\ Settled(v) /\ v.run \in Thread /\ v.post = None
  BY <1>1, RunFacts
<1>3. v.sel = None /\ Local(s, w) /\ SelectList[s] \in Seq(Users)
  BY SessionAssumption DEF BeginSelect
<1>4. Settled(w)
  BY <1>2, <1>3, BeginSettled
<1>5. w \in VM
  BY <1>4 DEF Settled
<1>6. /\ w.lookup = v.lookup /\ w.next = v.next /\ w.run = v.run
      /\ w.job = v.job /\ w.from = v.from /\ w.session = v.session
      /\ w.todo = v.todo /\ w.post = v.post /\ w.state = v.state
  BY <1>2 DEF VM
<1> HIDE DEF w
<1>7. Follows(v, w)
  BY <1>2, <1>3, <1>6, SameDue DEF Follows, Asks
<1>8. \A k \in 0..MaxSession : v.lookup[k] # Select
  BY <1>2, <1>3 DEF Settled, SelectOK
<1>9. \A k \in Sessions : AwaitedV(w, k) => AwaitedV(v, k)
  BY <1>6, <1>8, SessionAssumption DEF AwaitedV, Sessions
<1>10. LookupKept(v) => LookupKept(w)
  BY <1>6 DEF LookupKept
<1>11. Onward(s, v, w, {})
  BY <1>2, <1>5, <1>6, <1>7, <1>9, <1>10, SelectOnward
<1> QED BY <1>1, <1>2, <1>3, <1>6, <1>11, LocalSilent

(* send_requests: the session of the select is known before its request is
   sent. *)
LEMMA SelectSendAccount ==
  ASSUME AccountInv, Inv', NEW s \in Users, SelectSend(s)
  PROVE  AccountInv'
<1> DEFINE v == vm[s]
           m == Mail(Head(v.sel.left), "request", v.next, None, "select")
           c == Suspend(v, Select)
           x == [v.sel EXCEPT !.left = Tail(@)]
           y == [c EXCEPT !.sel = x]
           w == [c EXCEPT !.sel.left = Tail(@), !.post = m]
<1>1. s \in Services /\ Running(s, {"user"})
  BY DEF Services, SelectSend, Selecting
<1>2. /\ v \in VM /\ Settled(v) /\ v.run \in Thread /\ v.post = None
      /\ v.job[v.run] = "user" /\ v.state = "live"
  BY <1>1, RunFacts
<1>3. /\ v.sel # None /\ v.sel.left # <<>> /\ v.next <= MaxSession
      /\ v.sel.at = "sending" /\ Local(s, w)
  BY DEF SelectSend, Selecting, SessionLeft, InSelect
<1>4. v.sel \in Selection /\ Select \in Sleepers \ {None}
  BY <1>2, <1>3, VMFields, NilAssumption DEF Sleepers
<1>5. /\ x \in Selection /\ x.sessions = v.sel.sessions /\ x.timer = v.sel.timer
      /\ Head(v.sel.left) \in Users
  <2>1. Tail(v.sel.left) \in Seq(Users) /\ Head(v.sel.left) \in Users
    BY <1>3, <1>4, SelectionFields
  <2> QED BY <1>4, <2>1 DEF Selection
<1>6. /\ Onward(s, v, c, {v.next}) /\ c.lookup[v.next] = Select /\ ~Asks(v, v.next)
      /\ c.post = None /\ v.next \in Sessions
  BY <1>2, <1>3, <1>4, SuspendOnward
<1>7. c \in VM /\ c.sel = v.sel /\ c.run = v.run /\ c.job = v.job
  BY <1>2, <1>3, <1>4, SuspendFields
<1>8. c \in VM
  BY <1>7
<1>9. w = [y EXCEPT !.post = m]
  BY <1>4, <1>7 DEF VM, Selection
<1>10. m \in Post /\ m.then = "select" /\ m.report = None
  <2>1. v.next \in 0..MaxSession
    BY <1>6, SessionAssumption DEF Sessions
  <2> QED BY <1>5, <2>1 DEF Mail, Post, Services
<1>11. \A k \in v.sel.sessions \cup {v.sel.timer} : k # v.next
  <2>1. v.next # None /\ v.next \in Nat
    BY <1>2, <1>6, VMFields, NilAssumption, SessionAssumption
  <2>2. /\ v.sel.timer = None /\ \A k \in v.sel.sessions : k \in Sessions /\ k < v.next
    BY <1>2, <1>3, <1>4, SelectionFields DEF Settled, SelectOK
  <2> QED BY <2>1, <2>2 DEF Sessions
<1>12. c.state = "live"
  BY <1>2, <1>3, <1>4, SuspendFields
<1> HIDE DEF c, x, m
<1>13. /\ y \in VM /\ y.from = c.from /\ y.session = c.session /\ y.todo = c.todo
       /\ y.job = c.job /\ y.post = None /\ y.lookup = c.lookup /\ y.next = c.next
       /\ y.sel = x /\ y.run = c.run /\ y.state = c.state
  BY <1>5, <1>6, <1>7 DEF VM
<1> HIDE DEF y
<1>14. Follows(c, y)
  <2>1. x # None
    BY <1>5, SelectionFields
  <2> QED BY <1>5, <1>7, <1>13, <2>1, SameDue DEF Follows, Asks
<1>15. \A k \in Sessions : AwaitedV(y, k) => AwaitedV(c, k)
  BY <1>3, <1>5, <1>7, <1>13 DEF AwaitedV
<1>16. Onward(s, c, y, {})
  <2>1. LookupKept(c) => LookupKept(y)
    BY <1>13 DEF LookupKept
  <2> QED BY <1>6, <1>7, <1>13, <1>14, <1>15, <2>1, SelectOnward
<1>17. Onward(s, y, w, {})
  <2>1. \A b \in Services, k \in Sessions : m.report = <<b, k>> => DueVM(y, <<b, k>>)
    BY <1>10, NotACall
  <2> QED BY <1>9, <1>10, <1>13, <2>1, AskingQuiet
<1>18. Onward(s, v, w, {v.next})
  BY <1>6, <1>16, <1>17, OnwardMore, OnwardTrans
<1>19. /\ w.post = m /\ w.run = v.run /\ w.job = v.job /\ w.lookup = c.lookup /\ w.sel = x
       /\ w.state = "live"
  BY <1>7, <1>9, <1>12, <1>13 DEF VM
<1>20. Onward(s, v, w, {})
  <2>1. ~AwaitedV(w, v.next)
    BY <1>5, <1>6, <1>11, <1>19, NilAssumption DEF AwaitedV
  <2>2. \A k \in Sessions \ {v.next} :
          w.state = "live" =>
            /\ AwaitedV(w, k) => AwaitedV(v, k)
            /\ Asks(v, k) /\ k < w.next /\ w.lookup[k] = None => k < v.next /\ v.lookup[k] = None
    BY <1>18 DEF Onward
  <2>3. \A k \in Sessions :
          w.state = "live" =>
            /\ AwaitedV(w, k) => AwaitedV(v, k)
            /\ Asks(v, k) /\ k < w.next /\ w.lookup[k] = None => k < v.next /\ v.lookup[k] = None
    BY <1>6, <2>1, <2>2
  <2>4. Sessions \ {} = Sessions
    OBVIOUS
  <2> HIDE DEF v, w
  <2> QED BY <1>18, <2>3, <2>4 DEF Onward
<1>21. PostKept(s, w)
  BY <1>2, <1>10, <1>19 DEF PostKept
<1>22. Local(s, w)
  BY <1>3 DEF w, c, m
<1> HIDE DEF w
<1> QED BY <1>1, <1>19, <1>20, <1>21, <1>22, LocalQuiet

(* All requests of the select are sent, and its timeout asked for. *)
LEMMA SelectSentAccount ==
  ASSUME AccountInv, Inv', NEW s \in Users, SelectSent(s)
  PROVE  AccountInv'
<1> DEFINE v == vm[s]
           w == Suspend(v, Select)
           x == [v.sel EXCEPT !.timer = v.next, !.at = "body"]
           z == [v.sel EXCEPT !.at = "body"]
           c == [w EXCEPT !.sel.timer = v.next, !.sel.at = "body"]
           b == [v EXCEPT !.sel.at = "body"]
<1>1. s \in Services /\ Running(s, {"user"})
  BY DEF Services, SelectSent, Selecting
<1>2. /\ v \in VM /\ Settled(v) /\ v.run \in Thread /\ v.post = None
      /\ v.state = "live" /\ ~aborted
  BY <1>1, RunFacts
<1>3. /\ v.sel # None
      /\ UNCHANGED <<queue, told, aborted>>
      /\ \/ /\ v.next <= MaxSession
            /\ timers' = timers \cup {<<s, v.next>>}
            /\ Change(s, c, {})
         \/ Change(s, b, {}) /\ UNCHANGED timers
  BY DEF SelectSent, Selecting, InSelect, SessionLeft
<1>4. v.sel \in Selection /\ Select \in Sleepers \ {None}
  BY <1>2, <1>3, VMFields, NilAssumption DEF Sleepers
<1>5. CASE v.next <= MaxSession /\ timers' = timers \cup {<<s, v.next>>} /\ Change(s, c, {})
  <2>1. /\ Onward(s, v, w, {v.next}) /\ w.lookup[v.next] = Select /\ ~Asks(v, v.next)
        /\ w.post = None /\ v.next \in Sessions
    BY <1>2, <1>4, <1>5, SuspendOnward
  <2>2. w \in VM /\ w.sel = v.sel /\ w.state = v.state /\ w.next = v.next + 1
    BY <1>2, <1>4, <1>5, SuspendFields
  <2>3. x \in Selection /\ x.sessions = v.sel.sessions /\ x.timer = v.next /\ x # None
    <3>1. x \in Selection
      BY <1>4, <2>1 DEF Selection
    <3> QED BY <1>4, <3>1, SelectionFields DEF Selection
  <2>4. c = [w EXCEPT !.sel = x]
    BY <1>4, <2>2 DEF VM, Selection
  <2>5. v.sel.timer = None /\ MaxSession \in Nat /\ v.next \in Nat
    <3>1. v.sel.at = "sending" \/ v.sel.at # "sending"
      OBVIOUS
    <3>2. v.sel.at = "sending"
      BY DEF SelectSent, Selecting
    <3> QED BY <1>2, <1>3, <3>2, VMFields, SessionAssumption DEF Settled, SelectOK
  <2> HIDE DEF w, x, c
  <2>6. /\ c \in VM /\ c.from = w.from /\ c.session = w.session /\ c.todo = w.todo
        /\ c.job = w.job /\ c.post = None /\ c.lookup = w.lookup /\ c.next = w.next
        /\ c.sel = x /\ c.state = w.state /\ c.run = w.run
    BY <2>1, <2>2, <2>3, <2>4 DEF VM
  <2>7. Quiet(w, c)
    BY <2>1, <2>6, SameQuiet
  <2>8. \A k \in Sessions : Asks(w, k) => Asks(c, k)
    BY <2>2, <2>3, <2>5, <2>6, NilAssumption DEF Asks
  <2>9. Follows(w, c)
    BY <2>6, <2>8, SameDue DEF Follows
  <2>10. /\ JobKept(s, w) => JobKept(s, c)
         /\ LookupKept(w) => LookupKept(c)
    BY <2>6 DEF JobKept, LookupKept
  <2>11. \A k \in Sessions \ {v.next} :
           c.state = "live" =>
             /\ AwaitedV(c, k) => AwaitedV(w, k)
             /\ Asks(w, k) /\ k < c.next /\ c.lookup[k] = None => k < w.next /\ w.lookup[k] = None
    BY <1>3, <2>2, <2>3, <2>6 DEF AwaitedV
  <2>12. Onward(s, w, c, {v.next})
    BY <2>6, <2>7, <2>9, <2>10, <2>11 DEF Onward
  <2>13. Onward(s, v, c, {v.next})
    BY <2>1, <2>12, OnwardTrans
  <2>14. \A k \in {v.next} : ~Asks(vm[s], k) /\ c.lookup[k] # None
    BY <2>1, <2>6, NilAssumption
  <2>15. timers' = timers \cup {<<s, k>> : k \in {v.next}}
    BY <1>5
  <2>16. {v.next} \in SUBSET Sessions /\ PostKept(s, c) /\ UNCHANGED <<queue, told>>
    BY <1>3, <2>1, <2>6 DEF PostKept
  <2> QED BY <1>1, <1>2, <1>5, <2>6, <2>13, <2>14, <2>15, <2>16, QuietAccount
<1>6. CASE Change(s, b, {}) /\ UNCHANGED timers
  <2>1. z \in Selection /\ z.sessions = v.sel.sessions /\ z.timer = v.sel.timer /\ z # None
    <3>1. z \in Selection
      BY <1>4 DEF Selection
    <3> QED BY <1>4, <3>1, SelectionFields DEF Selection
  <2>2. b = [v EXCEPT !.sel = z]
    BY <1>2, <1>4 DEF VM, Selection
  <2> HIDE DEF z, b
  <2>3. /\ b \in VM /\ b.from = v.from /\ b.session = v.session /\ b.todo = v.todo
        /\ b.job = v.job /\ b.post = None /\ b.lookup = v.lookup /\ b.next = v.next
        /\ b.sel = z /\ b.state = v.state
    BY <1>2, <2>1, <2>2 DEF VM
  <2>4. Follows(v, b)
    BY <1>3, <2>1, <2>3, SameDue DEF Follows, Asks
  <2>5. (LookupKept(v) => LookupKept(b)) /\ \A k \in Sessions : AwaitedV(b, k) => AwaitedV(v, k)
    BY <1>3, <2>1, <2>3 DEF LookupKept, AwaitedV
  <2>6. Onward(s, v, b, {})
    BY <1>2, <2>3, <2>4, <2>5, SelectOnward
  <2>7. Local(s, b)
    BY <1>3, <1>6 DEF Local
  <2> QED BY <1>1, <2>3, <2>6, <2>7, LocalSilent
<1> QED BY <1>3, <1>5, <1>6

(* The loop over a select goes on with what there is, or ends. *)
LEMMA IterateAccount ==
  ASSUME AccountInv, Inv', NEW s \in Users, Running(s, {"user"}), InSelect(vm[s]),
         \/ vm[s].sel.errors > 0 /\ Local(s, PopError(vm[s]))
         \/ \E k \in vm[s].sel.resp : Local(s, PopResponse(vm[s], k))
         \/ Local(s, Close(vm[s]))
  PROVE  AccountInv'
<1> DEFINE v == vm[s]
<1>1. s \in Services
  BY DEF Services
<1>2. Settled(v) /\ v.post = None /\ Unlisted(v, v.run)
  BY <1>1, RunFacts
<1>3. PICK w : /\ Local(s, w)
               /\ \/ v.sel.errors > 0 /\ w = PopError(v)
                  \/ \E k \in v.sel.resp : w = PopResponse(v, k)
                  \/ w = Close(v)
  OBVIOUS
<1>4. Onward(s, v, w, {}) /\ w.post = None
  BY <1>2, <1>3, PopOnward, CloseOnward
<1> QED BY <1>1, <1>3, <1>4, LocalSilent

LEMMA SelectNextAccount ==
  ASSUME AccountInv, Inv', NEW s \in Users, SelectNext(s)
  PROVE  AccountInv'
<1> DEFINE v == vm[s]
           x == [v.sel EXCEPT !.at = "woken"]
           c == [v EXCEPT !.waiting[Select] = v.run, !.next = @ + 1,
                          !.sel.at = "woken"]
<1>1. s \in Services /\ Running(s, {"user"}) /\ InSelect(v)
  BY DEF Services, SelectNext, Selecting
<1>2. \/ v.sel.errors > 0 /\ Local(s, PopError(v))
      \/ \E k \in v.sel.resp : Local(s, PopResponse(v, k))
      \/ Local(s, Close(v))
      \/ v.next <= MaxSession /\ Local(s, Dispatch(c))
  BY DEF SelectNext, SessionLeft
<1>3. CASE v.next <= MaxSession /\ Local(s, Dispatch(c))
  <2>1. v \in VM /\ v.run \in Thread /\ v.post = None /\ v.sel # None
    BY <1>1, RunFacts DEF InSelect
  <2>2. v.sel \in Selection
    BY <2>1, VMFields
  <2>3. x \in Selection /\ x.sessions = v.sel.sessions /\ x.timer = v.sel.timer /\ x # None
    <3>1. x \in Selection
      BY <2>2 DEF Selection
    <3> QED BY <2>2, <3>1, SelectionFields DEF Selection
  <2>4. c = [v EXCEPT !.waiting[Select] = v.run, !.next = @ + 1, !.sel = x]
    BY <2>1, <2>2 DEF VM, Selection
  <2>5. Select \in Keys /\ x \in Selection \cup {None}
    BY <2>3 DEF Keys
  <2> HIDE DEF c, x
  <2>6. Onward(s, v, Dispatch(c), {}) /\ Dispatch(c).post = None
    BY <1>3, <2>1, <2>3, <2>4, <2>5, HandOut
  <2> QED BY <1>1, <1>3, <2>6, LocalSilent
<1> HIDE DEF c
<1> QED BY <1>1, <1>2, <1>3, IterateAccount

LEMMA SelectWokenAccount ==
  ASSUME AccountInv, Inv', NEW s \in Users, SelectWoken(s) \/ SelectClose(s)
  PROVE  AccountInv'
<1>1. Running(s, {"user"}) /\ InSelect(vm[s])
  BY DEF SelectWoken, SelectClose, Selecting
<1>2. \/ vm[s].sel.errors > 0 /\ Local(s, PopError(vm[s]))
      \/ \E k \in vm[s].sel.resp : Local(s, PopResponse(vm[s], k))
      \/ Local(s, Close(vm[s]))
  BY DEF SelectWoken, SelectClose
<1> QED BY <1>1, <1>2, IterateAccount
LEMMA UserAccount ==
  ASSUME AccountInv, Inv', NEW s \in Users, UserStep(s)
  PROVE  AccountInv'
<1>1. CASE \E to \in Users, op \in {"call", "send"} : SendRequest(s, to, op)
  BY <1>1, SendAccount
<1>2. CASE \E op \in {"sleep", "timeout"} : WakeSelf(s, op)
  BY <1>2, WakeSelfAccount
<1>3. CASE SleepTime(s) \/ ForkUser(s) \/ Quit(s) \/ NoResponse(s)
  BY <1>3, SleepTimeAccount, ForkAccount, NoResponseAccount
<1>4. CASE Raise(s) \/ Return(s)
  BY <1>4, RaiseAccount, ReturnAccount
<1>5. CASE \E w \in Tokens : Wait(s, w) \/ Wakeup(s, w)
  BY <1>5, WaitAccount, WakeupAccount
<1>6. CASE BeginSelect(s) \/ SelectSend(s) \/ SelectSent(s)
  BY <1>6, BeginSelectAccount, SelectSendAccount, SelectSentAccount
<1>7. CASE SelectNext(s) \/ SelectWoken(s) \/ SelectClose(s)
  BY <1>7, SelectNextAccount, SelectWokenAccount
<1> QED BY <1>1, <1>2, <1>3, <1>4, <1>5, <1>6, <1>7 DEF UserStep

-----------------------------------------------------------------------------
(* A message arrives, or not.                                              *)

LEMMA AppendHas ==
  ASSUME NEW S, NEW q \in Seq(S), NEW m \in S, NEW to, NEW call
  PROVE  /\ \A h \in BOOLEAN : HasQ(Append(q, m), to, call, h) <=>
                                 HasQ(q, to, call, h) \/ MailHas(m, to, call, h)
         /\ OnceQ(q, to, call) /\ ~(MailCarries(m, to, call) /\ HasQ(q, to, call, TRUE))
              => OnceQ(Append(q, m), to, call)
<1> DEFINE a == Append(q, m)
           n == Len(q) + 1
<1>1. /\ DOMAIN a = 1..n /\ DOMAIN q = 1..Len(q) /\ Len(q) \in Nat
      /\ \A i \in 1..Len(q) : a[i] = q[i]
      /\ a[n] = m
  OBVIOUS
<1> HIDE DEF a, n
<1>2. \A i \in DOMAIN a : i \in DOMAIN q \/ i = n
  BY <1>1 DEF n
<1>3. n \in DOMAIN a /\ DOMAIN q \subseteq DOMAIN a
  BY <1>1 DEF n
<1>4. \A h \in BOOLEAN : HasQ(a, to, call, h) <=> HasQ(q, to, call, h) \/ MailHas(m, to, call, h)
  BY <1>1, <1>2, <1>3 DEF HasQ
<1>5. ASSUME OnceQ(q, to, call), ~(MailCarries(m, to, call) /\ HasQ(q, to, call, TRUE))
      PROVE  OnceQ(a, to, call)
  <2>1. ASSUME NEW i \in DOMAIN a, NEW j \in DOMAIN a,
               MailCarries(a[i], to, call), MailCarries(a[j], to, call)
        PROVE  i = j
    <3>1. MailCarries(m, to, call) => \A x \in DOMAIN q : ~MailCarries(q[x], to, call)
      BY <1>5 DEF HasQ, MailHas
    <3>2. CASE i \in DOMAIN q /\ j \in DOMAIN q
      BY <1>1, <1>5, <2>1, <3>2 DEF OnceQ
    <3>3. CASE i = n /\ j \in DOMAIN q
      BY <1>1, <2>1, <3>1, <3>3
    <3>4. CASE i \in DOMAIN q /\ j = n
      BY <1>1, <2>1, <3>1, <3>4
    <3> QED BY <1>2, <3>2, <3>3, <3>4
  <2> QED BY <2>1 DEF OnceQ
<1> QED BY <1>4, <1>5 DEF a

(* From v to w the answer to one call is shed if it is in drop. *)
Gives(v, w, drop, call) ==
  /\ call \notin told /\ OnceV(v, call) =>
       /\ HasV(w, call, TRUE) => HasV(v, call, TRUE) /\ call \notin drop
       /\ HasV(v, call, TRUE) => HasV(w, call, TRUE) \/ call \in drop
       /\ call \in drop => HasV(v, call, TRUE)
       /\ OnceV(w, call)
  /\ call \in told =>
       (HasV(v, call, FALSE) => HasV(w, call, FALSE) \/ call \in drop)

LEMMA ShedsGives ==
  ASSUME NEW v, NEW w, NEW D, Sheds(v, w, D), NEW c \in Services, NEW k \in Sessions
  PROVE  Gives(v, w, D, <<c, k>>)
BY DEF Sheds, Gives

LEMMA GivesTrans ==
  ASSUME NEW u, NEW v, NEW w, NEW D, NEW E, NEW call, Gives(u, v, D, call), Gives(v, w, E, call)
  PROVE  Gives(u, w, D \cup E, call)
<1>1. CASE call \notin told
  BY <1>1 DEF Gives
<1>2. CASE call \in told
  BY <1>2 DEF Gives
<1> QED BY <1>1, <1>2

(* What was lost or told was due. *)
LEMMA PastDue ==
  ASSUME AccountInv, ~aborted,
         \A c \in Services, k \in Sessions :
           vm'[c].state = "live" =>
             /\ vm[c].state = "live" /\ (Asks(vm[c], k) => Asks(vm'[c], k))
             /\ <<c, k>> \in lost' \cup told' =>
                  <<c, k>> \in lost \cup told \/ Due(<<c, k>>)
  PROVE  Past'
<1> SUFFICES ASSUME NEW c \in Services, NEW k \in Sessions, vm'[c].state = "live",
                    <<c, k>> \in lost' \cup told'
             PROVE  Asks(vm'[c], k)
  BY DEF Past
<1>1. CASE <<c, k>> \in lost \cup told
  BY <1>1 DEF AccountInv, Past
<1>2. CASE Due(<<c, k>>)
  BY <1>2 DEF AccountInv, Inv, Asked
<1> QED BY <1>1, <1>2

(* A message of s gets a receipt from `to'; s has become w, and before that
   v, without the answers in C which the message brings.  J is the session
   the message begins, T what a service that quits has told. *)
Brings(s, to, mail, receipt, v, w, C, J, T) ==
  /\ \A c \in Services, k \in Sessions :
       vm[c].state = "live" /\ <<c, k>> \notin T =>
         /\ Gives(vm[s], v, C, <<c, k>>)
         /\ receipt # "done" => <<c, k>> \notin C
         /\ receipt = "done" /\ ~(c = s /\ k \in J) =>
              /\ MailCarries(mail, to, <<c, k>>) <=> <<c, k>> \in C
              /\ <<c, k>> \in C => MailHas(mail, to, <<c, k>>, FALSE)
  /\ \A j \in J : /\ receipt = "done" /\ MailHas(mail, to, <<s, j>>, TRUE)
                  /\ ~Asks(vm[s], j) /\ w.lookup[j] # None
  /\ \A c \in Services, k \in Sessions :
       <<c, k>> \in T =>
         /\ Due(<<c, k>>)
         /\ \/ w.state = "live" /\ HasV(w, <<c, k>>, FALSE)
            \/ receipt = "done" /\ MailHas(mail, to, <<c, k>>, FALSE)

(* One call after a message: it was told, or begins, or goes on. *)
LEMMA BringsOne ==
  ASSUME AccountInv, ~aborted, NEW s \in Services, NEW to \in Services,
         NEW mail \in Message, NEW receipt,
         NEW v, NEW w, NEW C, NEW J \in SUBSET Sessions, NEW T, NEW D,
         Brings(s, to, mail, receipt, v, w, C, J, T),
         Sheds(v, vm'[s], D), lost' = lost \cup D, told' = told \cup T,
         \A x \in Services : x # s => vm'[x] = vm[x],
         vm'[s].state = "live" => vm[s].state = "live" /\ vm'[s] = w,
         w.state = "live" => vm'[s] = w,
         \A k \in Sessions \ J : WaitsOn(vm[s], vm'[s], k),
         queue' = IF receipt = "done" THEN [queue EXCEPT ![to] = Append(@, mail)] ELSE queue,
         UNCHANGED timers,
         NEW c \in Services, NEW k \in Sessions, vm'[c].state = "live"
  PROVE  Account(c, k)'
<1> DEFINE call == <<c, k>>
           x == <<s, "vm">>
           y == <<to, "queue">>
<1>1. vm[c].state = "live" /\ x \in Sites /\ y \in Sites /\ x # y
  BY DEF Sites
<1>2. queue \in [Services -> Seq(Message)]
  BY DEF AccountInv, Inv, TypeOK
<1>3. /\ \A r \in Services, h \in BOOLEAN :
           HasQ(queue'[r], r, call, h) <=>
             HasQ(queue[r], r, call, h) \/ (receipt = "done" /\ r = to /\ MailHas(mail, r, call, h))
      /\ \A r \in Services :
           OnceQ(queue[r], r, call)
           /\ ~(receipt = "done" /\ r = to /\ MailCarries(mail, r, call) /\ HasQ(queue[r], r, call, TRUE))
             => OnceQ(queue'[r], r, call)
  <2> SUFFICES ASSUME NEW r \in Services
               PROVE  /\ \A h \in BOOLEAN :
                           HasQ(queue'[r], r, call, h) <=>
                             HasQ(queue[r], r, call, h) \/ (receipt = "done" /\ r = to /\ MailHas(mail, r, call, h))
                      /\ OnceQ(queue[r], r, call)
                         /\ ~(receipt = "done" /\ r = to /\ MailCarries(mail, r, call) /\ HasQ(queue[r], r, call, TRUE))
                           => OnceQ(queue'[r], r, call)
    OBVIOUS
  <2>1. CASE receipt = "done" /\ r = to
    <3>1. queue'[r] = Append(queue[r], mail) /\ queue[r] \in Seq(Message)
      BY <1>2, <2>1
    <3>2. /\ \A h \in BOOLEAN : HasQ(Append(queue[r], mail), r, call, h) <=>
                                  HasQ(queue[r], r, call, h) \/ MailHas(mail, r, call, h)
          /\ OnceQ(queue[r], r, call) /\ ~(MailCarries(mail, r, call) /\ HasQ(queue[r], r, call, TRUE))
               => OnceQ(Append(queue[r], mail), r, call)
      BY <3>1, AppendHas
    <3> QED BY <2>1, <3>1, <3>2
  <2>2. CASE ~(receipt = "done" /\ r = to)
    <3>1. queue'[r] = queue[r]
      BY <1>2, <2>2
    <3> QED BY <2>2, <3>1
  <2> QED BY <2>1, <2>2
<1>4. CASE call \in T
  <2>1. call \in told'
    BY <1>4
  <2>2. \/ w.state = "live" /\ HasV(w, call, FALSE)
        \/ receipt = "done" /\ MailHas(mail, to, call, FALSE)
    BY <1>4 DEF Brings
  <2>3. Has(call, FALSE)'
    <3>1. CASE w.state = "live" /\ HasV(w, call, FALSE)
      <4>1. At(x, call, FALSE)'
        BY <3>1 DEF At
      <4> QED BY <1>1, <4>1 DEF Has
    <3>2. CASE receipt = "done" /\ MailHas(mail, to, call, FALSE)
      <4>1. At(y, call, FALSE)'
        BY <1>3, <3>2 DEF At
      <4> QED BY <1>1, <4>1 DEF Has
    <3> QED BY <2>2, <3>1, <3>2
  <2> QED BY <2>1, <2>3, TellsIt
<1>5. ASSUME call \notin T
      PROVE  Gives(vm[s], v, C, call) /\ Gives(v, vm'[s], D, call)
  BY <1>1, <1>5, ShedsGives DEF Brings
<1>6. \A h \in BOOLEAN : /\ At(x, call, h)' <=> HasV(vm'[s], call, h)
                         /\ At(x, call, h) <=> HasV(vm[s], call, h)
                         /\ At(y, call, h)' <=> HasQ(queue'[to], to, call, h)
                         /\ At(y, call, h) <=> HasQ(queue[to], to, call, h)
  BY DEF At
<1>7. \A z \in Sites \ {x, y}, h \in BOOLEAN : At(z, call, h)' <=> At(z, call, h)
  <2> SUFFICES ASSUME NEW z \in Sites \ {x, y}, NEW h \in BOOLEAN
               PROVE  At(z, call, h)' <=> At(z, call, h)
    OBVIOUS
  <2>1. \/ z[2] = "vm" /\ vm'[z[1]] = vm[z[1]]
        \/ z[2] = "queue" /\ queue'[z[1]] = queue[z[1]]
        \/ z[2] = "timer"
    BY <1>2, SiteOf
  <2> QED BY <2>1, SameSite
<1>8. CASE call \notin T /\ c = s /\ k \in J
  <2>1. /\ \A h \in BOOLEAN, z \in Sites : ~At(z, call, h)
        /\ call \notin lost \cup told
    BY <1>1, <1>8, NothingYet DEF Brings
  <2>2. ~HasV(vm[s], call, TRUE) /\ \A r \in Services : ~HasV(vm[r], call, TRUE) /\ ~HasQ(queue[r], r, call, TRUE)
    BY <2>1, AtSite
  <2>3. OnceV(vm[s], call)
    BY <2>2, NowhereOnce
  <2>4. ~HasV(v, call, TRUE) /\ OnceV(v, call)
    BY <1>5, <1>8, <2>1, <2>2, <2>3 DEF Gives
  <2>5. ~HasV(vm'[s], call, TRUE) /\ OnceV(vm'[s], call) /\ call \notin D
    BY <1>5, <1>8, <2>1, <2>4 DEF Gives
  <2>6. vm'[s].lookup[k] # None /\ At(y, call, TRUE)'
    BY <1>3, <1>6, <1>8 DEF Brings
  <2>7. \A z \in Sites : z # y => ~At(z, call, TRUE)'
    BY <1>6, <1>7, <2>1, <2>5
  <2>8. \A r \in Services : OnceV(vm'[r], call) /\ OnceQ(queue'[r], r, call)
    BY <1>3, <2>2, <2>5, NowhereOnce, NowhereOnceQ
  <2>9. call \notin lost' \cup told' /\ vm'[c].lookup[k] # None
    BY <1>8, <2>1, <2>5, <2>6
  <2> QED BY <1>1, <2>6, <2>7, <2>8, <2>9, Begins
<1>9. CASE call \notin T /\ ~(c = s /\ k \in J)
  <2>1. /\ receipt # "done" => call \notin C
        /\ receipt = "done" =>
             /\ MailCarries(mail, to, call) <=> call \in C
             /\ call \in C => MailHas(mail, to, call, FALSE)
    BY <1>1, <1>9 DEF Brings
  <2>2. WaitsOn(vm[c], vm'[c], k)
    BY <1>9 DEF WaitsOn
  <2>3. call \in told' <=> call \in told
    BY <1>9
  <2>4. MailHas(mail, to, call, TRUE) <=> MailCarries(mail, to, call)
    BY DEF MailHas
  <2> DEFINE comes == receipt = "done"
  <2>a. \A h \in BOOLEAN :
          HasQ(queue'[to], to, call, h) <=>
            HasQ(queue[to], to, call, h) \/ (comes /\ MailHas(mail, to, call, h))
    BY <1>3
  <2>b. \A r \in Services :
          OnceQ(queue[r], r, call)
          /\ ~(r = to /\ comes /\ MailCarries(mail, to, call) /\ HasQ(queue[to], to, call, TRUE))
            => OnceQ(queue'[r], r, call)
    BY <1>3
  <2>c. /\ ~comes => call \notin C
        /\ comes /\ MailCarries(mail, to, call) => call \in C
        /\ call \in C => MailCarries(mail, to, call) /\ MailHas(mail, to, call, FALSE)
    BY <2>1
  <2> HIDE DEF comes
  <2>5. CASE call \notin told
    <3>1. Once(call) /\ \A r \in Services : OnceV(vm[r], call) /\ OnceQ(queue[r], r, call)
      BY <1>1, <2>5, LiveOnce
    <3>2. /\ HasV(v, call, TRUE) => HasV(vm[s], call, TRUE) /\ call \notin C
          /\ HasV(vm[s], call, TRUE) => HasV(v, call, TRUE) \/ call \in C
          /\ call \in C => HasV(vm[s], call, TRUE)
          /\ OnceV(v, call)
      BY <1>5, <1>9, <2>5, <3>1 DEF Gives
    <3>3. /\ HasV(vm'[s], call, TRUE) => HasV(v, call, TRUE) /\ call \notin D
          /\ HasV(v, call, TRUE) => HasV(vm'[s], call, TRUE) \/ call \in D
          /\ call \in D => HasV(v, call, TRUE)
          /\ OnceV(vm'[s], call)
      BY <1>5, <1>9, <2>5, <3>2 DEF Gives
    <3>4. ~(HasV(vm[s], call, TRUE) /\ HasQ(queue[to], to, call, TRUE))
      BY <1>1, <1>6, <3>1 DEF Once
    <3>5. HasQ(queue'[to], to, call, TRUE) <=> HasQ(queue[to], to, call, TRUE) \/ call \in C
      BY <2>a, <2>c, <2>4
    <3>6. (call \notin told) = TRUE /\ (call \notin told)' = TRUE
      BY <2>3, <2>5
    <3>7. /\ At(x, call, TRUE)' \/ At(y, call, TRUE)' => At(x, call, TRUE) \/ At(y, call, TRUE)
          /\ At(x, call, TRUE)' /\ At(y, call, TRUE)' =>
               x = y \/ (At(x, call, TRUE) /\ At(y, call, TRUE))
          /\ call \in lost' \ lost =>
               /\ At(x, call, TRUE) \/ At(y, call, TRUE)
               /\ ~At(x, call, TRUE)' /\ ~At(y, call, TRUE)'
          /\ At(x, call, TRUE) \/ At(y, call, TRUE) =>
               At(x, call, TRUE)' \/ At(y, call, TRUE)' \/ call \in lost'
      BY <1>6, <3>2, <3>3, <3>4, <3>5
    <3>8. Steps(call, x, y)
      BY <1>7, <2>5, <3>6, <3>7 DEF Steps
    <3>9. \A r \in Services : OnceV(vm'[r], call) /\ OnceQ(queue'[r], r, call)
      BY <2>b, <2>c, <3>1, <3>2, <3>3, <3>4
    <3>10. lost \subseteq lost'
      OBVIOUS
    <3> HIDE DEF x, y
    <3> QED BY <1>1, <2>2, <2>3, <3>8, <3>9, <3>10, Flow
  <2>6. CASE call \in told
    <3>1. HasV(vm[s], call, FALSE) => HasV(v, call, FALSE) \/ call \in C
      BY <1>5, <1>9, <2>6 DEF Gives
    <3>2. HasV(v, call, FALSE) => HasV(vm'[s], call, FALSE) \/ call \in D
      BY <1>5, <1>9, <2>6 DEF Gives
    <3>3. HasQ(queue'[to], to, call, FALSE) <=>
            HasQ(queue[to], to, call, FALSE) \/ (comes /\ MailHas(mail, to, call, FALSE))
      BY <2>a
    <3>4. (call \notin told) = FALSE
      BY <2>6
    <3>5. At(x, call, FALSE) \/ At(y, call, FALSE) =>
            At(x, call, FALSE)' \/ At(y, call, FALSE)' \/ call \in lost'
      BY <1>6, <2>c, <3>1, <3>2, <3>3
    <3>6. Steps(call, x, y)
      BY <1>7, <2>6, <3>4, <3>5 DEF Steps
    <3>7. lost \subseteq lost'
      OBVIOUS
    <3> HIDE DEF x, y
    <3> QED BY <1>1, <2>2, <2>3, <2>6, <3>6, <3>7, Flow
  <2> QED BY <2>5, <2>6
<1> QED BY <1>4, <1>8, <1>9

(* The callers a dead service drops. *)
LEMMA ChangeDrops ==
  ASSUME NEW s \in Services, NEW v \in VM, Change(s, v, {}), vm \in [Services -> VM],
         v.state # "live" => JobKept(s, v) /\ v.post = None
  PROVE  \E D : /\ Sheds(v, vm'[s], D) /\ lost' = lost \cup D
                /\ \A x \in Services : x # s => vm'[x] = vm[x]
                /\ vm'[s].state = "live" => vm'[s] = v
                /\ v.state = "live" => vm'[s] = v
<1>1. \A x \in Services : vm'[x] = IF x # s THEN vm[x]
                                   ELSE IF v.state = "live" THEN v ELSE EmptyVM("dead")
  BY DEF Change
<1>2. EmptyVM("dead").state # "live"
  BY DEF EmptyVM
<1>3. CASE v.state = "live"
  <2>1. lost' = lost \cup {} /\ vm'[s] = v
    BY <1>1, <1>3 DEF Change
  <2>2. Quiet(v, v)
    BY DEF Quiet
  <2>3. Sheds(v, vm'[s], {})
    BY <2>1, <2>2, QuietSheds
  <2> QED BY <1>1, <1>3, <2>1, <2>3
<1>4. CASE v.state # "live"
  <2> DEFINE D == (Held(v) \ told) \cup ToTell(v)
  <2>1. lost' = lost \cup D
    BY <1>4 DEF Change
  <2>2. Sheds(v, EmptyVM("dead"), D)
    BY <1>4, DieSheds
  <2>3. vm'[s] = EmptyVM("dead")
    BY <1>1, <1>4
  <2> HIDE DEF D
  <2> QED BY <1>1, <1>2, <1>4, <2>1, <2>2, <2>3
<1> QED BY <1>3, <1>4

LEMMA MailAccount ==
  ASSUME AccountInv, Inv', ~aborted, NEW s \in Services, NEW to \in Services,
         NEW mail \in Message, NEW receipt,
         NEW v, NEW w \in VM, NEW C, NEW J \in SUBSET Sessions, NEW T,
         Brings(s, to, mail, receipt, v, w, C, J, T),
         Change(s, w, {}), told' = told \cup T, Quiet(v, w),
         w.state = "live" => vm[s].state = "live",
         \A k \in Sessions \ J : WaitsOn(vm[s], w, k),
         queue' = IF receipt = "done" THEN [queue EXCEPT ![to] = Append(@, mail)] ELSE queue,
         UNCHANGED timers, receipt = "done" => LetterOK(to, mail),
         Kept(s, w), w.state # "live" => w.post = None
  PROVE  AccountInv'
<1>1. vm \in [Services -> VM] /\ queue \in [Services -> Seq(Message)]
  BY DEF AccountInv, Inv, TypeOK
<1>2. PICK D : /\ Sheds(w, vm'[s], D) /\ lost' = lost \cup D
               /\ \A x \in Services : x # s => vm'[x] = vm[x]
               /\ vm'[s].state = "live" => vm'[s] = w
               /\ w.state = "live" => vm'[s] = w
  BY <1>1, ChangeDrops DEF Kept
<1>3. Sheds(v, vm'[s], {} \cup D) /\ {} \cup D = D
  BY <1>2, QuietSheds, ShedsTrans
<1>4. Sheds(v, vm'[s], D)
  BY <1>3
<1>5. \A k \in Sessions \ J : WaitsOn(vm[s], vm'[s], k)
  BY <1>2 DEF WaitsOn
<1>6. vm'[s].state = "live" => vm[s].state = "live" /\ vm'[s] = w
  BY <1>2
<1>7. Accounts'
  <2>1. ASSUME NEW c \in Services, NEW k \in Sessions, vm'[c].state = "live"
        PROVE  Account(c, k)'
    <3>1. lost' = lost \cup D /\ (\A x \in Services : x # s => vm'[x] = vm[x])
          /\ (w.state = "live" => vm'[s] = w)
      BY <1>2
    <3> HIDE <1>2
    <3> QED BY <1>4, <1>5, <1>6, <2>1, <3>1, BringsOne, ZenonT(40)
  <2> QED BY <2>1 DEF Accounts
<1>8. Past'
  <2>1. ASSUME NEW c \in Services, NEW k \in Sessions, vm'[c].state = "live"
        PROVE  /\ vm[c].state = "live" /\ (Asks(vm[c], k) => Asks(vm'[c], k))
               /\ <<c, k>> \in lost' \cup told' =>
                    <<c, k>> \in lost \cup told \/ Due(<<c, k>>)
    <3>1. vm[c].state = "live"
      BY <1>2, <1>6, <2>1
    <3>2. Asks(vm[c], k) => Asks(vm'[c], k)
      <4>1. CASE c # s
        BY <1>2, <4>1
      <4>2. CASE c = s /\ k \in J
        BY <4>2 DEF Brings
      <4>3. CASE c = s /\ k \notin J
        BY <1>5, <2>1, <4>3 DEF WaitsOn
      <4> QED BY <4>1, <4>2, <4>3
    <3>3. <<c, k>> \in T => Due(<<c, k>>)
      BY DEF Brings
    <3>4. ASSUME <<c, k>> \in D, <<c, k>> \notin T \cup told
          PROVE  Due(<<c, k>>)
      <4>1. OnceV(vm[s], <<c, k>>)
        BY <3>1, <3>4, LiveOnce
      <4>2. Gives(vm[s], v, C, <<c, k>>) /\ Gives(v, vm'[s], D, <<c, k>>)
        BY <1>4, <3>1, <3>4, ShedsGives DEF Brings
      <4>3. HasV(vm[s], <<c, k>>, TRUE)
        BY <3>4, <4>1, <4>2 DEF Gives
      <4>4. PostOK(s, vm[s])
        BY DEF AccountInv, Inv, Good
      <4>5. DueVM(vm[s], <<c, k>>)
        BY <4>3, <4>4, HasVDue
      <4> QED BY <4>5 DEF Due
    <3> QED BY <1>2, <3>1, <3>2, <3>3, <3>4
  <2> QED BY <2>1, PastDue
<1>9. Letters'
  <2>1. ASSUME NEW r \in Services, NEW i \in DOMAIN queue'[r]
        PROVE  LetterOK(r, queue'[r][i])
    <3>1. CASE receipt = "done" /\ r = to
      <4>1. queue'[r] = Append(queue[r], mail) /\ queue[r] \in Seq(Message)
        BY <1>1, <3>1
      <4>2. \/ i \in DOMAIN queue[r] /\ queue'[r][i] = queue[r][i]
            \/ queue'[r][i] = mail
        BY <4>1, Appended
      <4> QED BY <3>1, <4>2 DEF AccountInv, Letters
    <3>2. CASE ~(receipt = "done" /\ r = to)
      <4>1. queue'[r] = queue[r]
        BY <1>1, <3>2
      <4> QED BY <4>1 DEF AccountInv, Letters
    <3> QED BY <3>1, <3>2
  <2> QED BY <2>1 DEF Letters
<1>10. \A x \in Services : Kept(x, vm'[x]) /\ Emptied(vm'[x])
  <2>1. vm'[s] = IF w.state = "live" THEN w ELSE EmptyVM("dead")
    BY <1>1 DEF Change
  <2> QED BY <1>2, <2>1, ServiceKept
<1> QED BY <1>7, <1>8, <1>9, <1>10 DEF AccountInv

(* The same for the step of a service that brings nothing, but may drop. *)
LEMMA ShedsAccount ==
  ASSUME AccountInv, Inv', ~aborted, NEW s \in Services, NEW w \in VM, NEW drop,
         Change(s, w, drop), Sheds(vm[s], w, drop),
         w.state = "live" => vm[s].state = "live",
         \A k \in Sessions : WaitsOn(vm[s], w, k),
         UNCHANGED <<queue, timers, told>>,
         Kept(s, w), w.state # "live" => w.post = None
  PROVE  AccountInv'
<1>1. vm \in [Services -> VM]
  BY DEF AccountInv, Inv, TypeOK
<1>2. PICK D : /\ Sheds(vm[s], vm'[s], D) /\ lost' = lost \cup D
               /\ \A x \in Services : x # s => vm'[x] = vm[x]
               /\ vm'[s].state = "live" => w.state = "live" /\ vm'[s] = w
  BY <1>1, ChangeSheds DEF Kept
<1>3. vm'[s] = IF w.state = "live" THEN w ELSE EmptyVM("dead")
  BY <1>1 DEF Change
<1>4. \A k \in Sessions \ {} : WaitsOn(vm[s], vm'[s], k)
  BY <1>2 DEF WaitsOn
<1>5. timers' = timers \cup {<<s, k>> : k \in {}} /\ {} \in SUBSET Sessions
  OBVIOUS
<1>6. vm'[s].state = "live" => vm[s].state = "live"
  BY <1>2
<1>7. \A k \in {} : ~Asks(vm[s], k) /\ (vm'[s].state = "live" => vm'[s].lookup[k] # None)
  OBVIOUS
<1>8. Accounts' /\ Past'
  BY <1>2, <1>4, <1>5, <1>6, <1>7, ServiceAccounts
<1>9. \A x \in Services : Kept(x, vm'[x]) /\ Emptied(vm'[x])
  BY <1>2, <1>3, ServiceKept
<1>10. Letters'
  BY DEF AccountInv, Letters
<1> QED BY <1>8, <1>9, <1>10 DEF AccountInv

(* The coroutine of s goes on with the receipt. *)
LEMMA DeliverFacts ==
  ASSUME AccountInv, NEW s \in Services, Deliver(s)
  PROVE  LET u == vm[s]
             m == vm[s].post
             v == Taken(vm[s])
         IN /\ ~aborted /\ m # None /\ Arrives(s)
            /\ u \in VM /\ Good(s, u) /\ PostOK(s, u) /\ PostKept(s, u) /\ u.state = "live"
            /\ m \in Post /\ m.to \in Services /\ m.session \in 0..MaxSession
            /\ v \in VM /\ Settled(v) /\ Runs(v) /\ v.post = None
            /\ v.run = u.run /\ v.next = u.next /\ v.lookup = u.lookup /\ v.sel = u.sel
            /\ v.job = u.job /\ v.todo = u.todo /\ v.from = u.from
            /\ v.session = u.session /\ v.state = u.state /\ Follows(u, v)
            /\ FreeThreads(v) = FreeThreads(u)
            /\ (u.run # None => Unlisted(v, u.run))
            /\ JobKept(s, u) /\ JobKept(s, v) /\ LookupKept(u) /\ LookupKept(v)
            /\ Posted(s) \in Message
            /\ \/ /\ Sent(s, v, m, Receipt(m.to))
                  /\ UNCHANGED <<timers, told, aborted>>
               \/ Told(s, v, m, Receipt(m.to))
<1> DEFINE u == vm[s]
           m == vm[s].post
           v == Taken(vm[s])
<1>1. ~aborted /\ m # None /\ Arrives(s)
  BY DEF Deliver, Arrives, Posted
<1>2. /\ u \in VM /\ Good(s, u) /\ PostOK(s, u) /\ PostKept(s, u)
      /\ JobKept(s, u) /\ LookupKept(u)
  BY AccountFacts DEF Good
<1>3. /\ m \in Post /\ m.to \in Services /\ m.session \in 0..MaxSession
      /\ Posted(s) \in Message
  <2>1. Inv
    BY DEF AccountInv
  <2>2. m \in Post
    BY <1>1, <1>2, VMFields
  <2> QED BY <1>1, <2>1, <2>2, PostFields, MailFields
<1>4. u.state = "live"
  <2>1. Emptied(u) /\ (u.state # "live" => EmptyVM(u.state).post = None)
    BY DEF AccountInv, EmptyVM
  <2> QED BY <1>1, <2>1 DEF Emptied
<1>5. /\ v \in VM /\ Settled(v) /\ Runs(v) /\ v.post = None
      /\ v.run = u.run /\ v.next = u.next /\ v.lookup = u.lookup /\ v.sel = u.sel
      /\ v.job = u.job /\ v.todo = u.todo /\ v.from = u.from
      /\ v.session = u.session /\ v.state = u.state /\ Follows(u, v)
      /\ FreeThreads(v) = FreeThreads(u)
      /\ (u.run # None => Unlisted(v, u.run))
  BY <1>2, TakenGood
<1>6. \/ /\ Sent(s, v, m, Receipt(m.to))
         /\ UNCHANGED <<timers, told, aborted>>
      \/ Told(s, v, m, Receipt(m.to))
  BY DEF Deliver, Taken
<1> HIDE DEF v
<1>7. JobKept(s, v) /\ LookupKept(v)
  BY <1>2, <1>5 DEF JobKept, LookupKept
<1> QED BY <1>1, <1>2, <1>3, <1>4, <1>5, <1>6, <1>7 DEF v

(* A message on its way that is no answer. *)
LEMMA TakenOnward ==
  ASSUME AccountInv, NEW s \in Services, Deliver(s),
         ~(vm[s].post.then \in {"response", "raised", "tell", "later"})
  PROVE  Onward(s, vm[s], Taken(vm[s]), {})
<1> DEFINE u == vm[s]
           v == Taken(vm[s])
<1>1. /\ v \in VM /\ v.post = None /\ v.run = u.run /\ v.next = u.next /\ v.lookup = u.lookup
      /\ v.sel = u.sel /\ v.job = u.job /\ v.todo = u.todo /\ v.from = u.from
      /\ v.session = u.session /\ v.state = u.state /\ Follows(u, v)
  BY DeliverFacts
<1> HIDE DEF v
<1>2. \A call : ~PostAnswers(u, call) /\ ~PostAnswers(v, call)
  BY <1>1 DEF PostAnswers, PostCarries
<1>3. \A call : \A t \in Thread : /\ HeldBy(v, t, call) <=> HeldBy(u, t, call)
                                  /\ TodoBy(v, t, call) <=> TodoBy(u, t, call)
  BY <1>1 DEF HeldBy, TodoBy
<1>4. Quiet(u, v)
  BY <1>2, <1>3 DEF Quiet, HasV, OnceV, PostHas
<1>5. (JobKept(s, u) => JobKept(s, v)) /\ (LookupKept(u) => LookupKept(v))
  BY <1>1 DEF JobKept, LookupKept
<1>6. \A k \in Sessions : AwaitedV(v, k) => AwaitedV(u, k)
  BY <1>1 DEF AwaitedV
<1> QED BY <1>1, <1>4, <1>5, <1>6 DEF Onward, v

(* What the message is in the queue. *)
LEMMA LetterKept ==
  ASSUME AccountInv, NEW s \in Services, Deliver(s)
  PROVE  LetterOK(vm[s].post.to, Posted(s))
<1> DEFINE u == vm[s]
           m == vm[s].post
           mail == Posted(s)
<1>1. /\ PostOK(s, u) /\ PostKept(s, u) /\ m # None /\ m \in Post /\ u \in VM
  BY DeliverFacts
<1>2. /\ mail.from = s /\ mail.session = m.session /\ mail.type = m.type
      /\ mail.report = IF m.type = "request" THEN m.report ELSE None
  BY DEF Posted
<1>3. /\ m.type \in {"request", "response", "error"} /\ Root \notin Users
      /\ m.then \in {"call", "send", "sleep", "timeout", "select",
                     "response", "raised", "tell", "later", "report"}
      /\ u.next \in Nat \ {0}
  BY <1>1, VMFields, SessionAssumption DEF Post
<1>4. ASSUME mail.type = "request", m.report = None, m.to # Root, m.session # 0
      PROVE  LetterOK(m.to, mail)
  BY <1>2, <1>4 DEF LetterOK
<1>5. ASSUME mail.type # "request", m.session # 0 \/ s = Root
      PROVE  LetterOK(m.to, mail)
  BY <1>2, <1>5 DEF LetterOK
<1>6. CASE m.then \in {"call", "send"}
  <2>1. m.type = "request" /\ m.report = None /\ m.to \in Users /\ m.session = u.next
    BY <1>1, <1>6 DEF PostOK
  <2> QED BY <1>2, <1>3, <1>4, <2>1
<1>7. CASE m.then = "select"
  <2>1. m.type = "request" /\ m.report = None /\ m.to \in Users /\ m.session \in Sessions
    BY <1>1, <1>7 DEF PostOK
  <2>2. m.session # 0
    BY <2>1 DEF Sessions
  <2> QED BY <1>2, <1>3, <1>4, <2>1, <2>2
<1>8. CASE m.then \in {"sleep", "timeout", "later"}
  <2>1. m.type = "response" /\ m.session = u.next
    BY <1>1, <1>8 DEF PostOK
  <2> QED BY <1>2, <1>3, <1>5, <2>1
<1>9. CASE m.then \in {"response", "raised", "tell"}
  <2>1. m.type \in {"response", "error"}
    BY <1>1, <1>9 DEF PostOK
  <2>2. s # Root => m.session # 0
    BY <1>1, <1>9 DEF PostKept
  <2> QED BY <1>2, <1>3, <1>5, <2>1, <2>2
<1>10. CASE m.then = "report"
  <2>1. m.type = "request" /\ m.report \in Call /\ m.to = Root /\ m.session = 0
    BY <1>1, <1>10 DEF PostOK
  <2> QED BY <1>2, <2>1 DEF LetterOK
<1> QED BY <1>3, <1>6, <1>7, <1>8, <1>9, <1>10

(* A message that asks for an answer arrives, and its session begins. *)
LEMMA AskArrives ==
  ASSUME AccountInv, Inv', NEW s \in Services, Deliver(s),
         vm[s].post.then \in {"call", "send", "sleep", "timeout", "select"},
         Receipt(vm[s].post.to) = "done",
         NEW j \in Sessions, j = vm[s].post.session, ~Asks(vm[s], j),
         NEW w, Onward(s, Taken(vm[s]), w, {j}), w.lookup[j] # None, w.post = None,
         Change(s, w, {}), UNCHANGED <<timers, told>>
  PROVE  AccountInv'
<1> DEFINE u == vm[s]
           v == Taken(vm[s])
           m == vm[s].post
           to == m.to
           mail == Posted(s)
           r == Receipt(to)
<1>1. /\ ~aborted /\ Arrives(s) /\ PostOK(s, u) /\ m # None /\ m \in Post /\ to \in Services
      /\ v \in VM /\ JobKept(s, v) /\ LookupKept(v) /\ mail \in Message
  BY DeliverFacts
<1>2. LetterOK(to, mail)
  BY LetterKept
<1>3. Onward(s, u, v, {j})
  BY TakenOnward, OnwardMore
<1>4. Onward(s, u, w, {j})
  BY <1>3, OnwardTrans
<1>5. /\ mail.from = s /\ mail.session = j /\ mail.type = m.type /\ mail.report = None
  BY <1>1 DEF Posted, PostOK
<1>6. m.type = "request" \/ (m.type = "response" /\ to = s)
  BY <1>1 DEF PostOK
<1>7. /\ \A call : MailCarries(mail, to, call) <=> call = <<s, j>>
      /\ MailHas(mail, to, <<s, j>>, TRUE)
  BY <1>5, <1>6 DEF MailCarries, MailHas
<1>8. Arrives(s) /\ queue' = IF r = "done" THEN [queue EXCEPT ![to] = Append(@, mail)] ELSE queue
  BY <1>1 DEF Arrives
<1> HIDE DEF v, mail, r
<1>9. \A c \in Services, k \in Sessions : Gives(u, v, {}, <<c, k>>)
  BY <1>3, QuietSheds, ShedsGives DEF Onward
<1>10. Brings(s, to, mail, r, v, w, {}, {j}, {})
  <2>1. \A c \in Services, k \in Sessions :
          ~(c = s /\ k \in {j}) => ~MailCarries(mail, to, <<c, k>>)
    BY <1>7
  <2>2. r = "done"
    BY DEF r
  <2> QED BY <1>7, <1>9, <2>1, <2>2 DEF Brings
<1>11. Quiet(v, w) /\ w \in VM /\ (w.state = "live" => vm[s].state = "live")
  BY <1>1, <1>4 DEF Onward, Follows, v
<1>12. \A k \in Sessions \ {j} : WaitsOn(vm[s], w, k)
  BY <1>4 DEF Onward, WaitsOn, Follows
<1>13. Kept(s, w)
  BY <1>1 DEF Onward, Kept, PostKept, v
<1>14. told' = told \cup {} /\ {j} \in SUBSET Sessions
  OBVIOUS
<1> HIDE DEF to
<1> QED BY <1>1, <1>2, <1>8, <1>10, <1>11, <1>12, <1>13, <1>14, MailAccount

(* A message that does not arrive, and is no answer. *)
LEMMA NotArrived ==
  ASSUME AccountInv, Inv', NEW s \in Services, Deliver(s), Receipt(vm[s].post.to) # "done",
         NEW w, Onward(s, vm[s], w, {}), Change(s, w, {}), UNCHANGED <<timers, told>>,
         PostKept(s, w), w.state # "live" => w.post = None
  PROVE  AccountInv'
<1>1. ~aborted /\ UNCHANGED queue
  BY DeliverFacts DEF Arrives
<1>2. timers' = timers \cup {<<s, k>> : k \in {}} /\ {} \in SUBSET Sessions
  OBVIOUS
<1>3. \A k \in {} : ~Asks(vm[s], k) /\ w.lookup[k] # None
  OBVIOUS
<1> QED BY <1>1, <1>2, <1>3, QuietAccount

(* An answer leaves its coroutine. *)
LEMMA TakenSheds ==
  ASSUME AccountInv, NEW s \in Services, Deliver(s),
         vm[s].post.then \in {"response", "raised", "tell"},
         vm[s].post.then = "tell" => vm[s].job[vm[s].run] = "tell"
  PROVE  LET d == <<vm[s].post.to, vm[s].post.session>>
         IN /\ Sheds(vm[s], Taken(vm[s]), {d})
            /\ vm[s].post.then # "tell" => Sheds(vm[s], Taken(vm[s]), {d} \ told)
<1> DEFINE u == vm[s]
           v == Taken(vm[s])
           m == vm[s].post
           d == <<vm[s].post.to, vm[s].post.session>>
<1>1. /\ v.post = None /\ m # None /\ PostOK(s, u)
      /\ v.job = u.job /\ v.todo = u.todo /\ v.from = u.from /\ v.session = u.session
  BY DeliverFacts
<1>2. m.report = None /\ m.type # "request"
  BY <1>1 DEF PostOK
<1> HIDE DEF v
<1>3. \A call : \A t \in Thread : /\ HeldBy(v, t, call) <=> HeldBy(u, t, call)
                                  /\ TodoBy(v, t, call) <=> TodoBy(u, t, call)
  BY <1>1 DEF HeldBy, TodoBy
<1>4. \A call : ~PostAnswers(v, call) /\ (PostAnswers(u, call) <=> d = call)
  BY <1>1, <1>2 DEF PostAnswers, PostCarries
<1>5. ASSUME NEW call
      PROVE  /\ HasV(u, call, TRUE) <=> call = d \/ \E t \in Thread : HeldBy(u, t, call) \/ TodoBy(u, t, call)
             /\ HasV(v, call, TRUE) <=> \E t \in Thread : HeldBy(u, t, call) \/ TodoBy(u, t, call)
             /\ HasV(v, call, FALSE) <=> \E t \in Thread : TodoBy(u, t, call)
             /\ HasV(u, call, FALSE) <=>
                  (m.then = "tell" /\ call = d) \/ \E t \in Thread : TodoBy(u, t, call)
  BY <1>3, <1>4 DEF HasV, PostHas
<1>6. \A call : OnceV(u, call) =>
        OnceV(v, call) /\ (call = d => \A t \in Thread : ~HeldBy(u, t, call) /\ ~TodoBy(u, t, call))
  BY <1>3, <1>4 DEF OnceV
<1>7. ASSUME NEW D, D = {d} \/ (m.then # "tell" /\ D = {d} \ told)
      PROVE  Sheds(u, v, D)
  <2> SUFFICES ASSUME NEW c \in Services, NEW k \in Sessions
               PROVE  LET call == <<c, k>>
                      IN /\ call \notin told /\ OnceV(u, call) =>
                              /\ HasV(v, call, TRUE) => HasV(u, call, TRUE) /\ call \notin D
                              /\ HasV(u, call, TRUE) => HasV(v, call, TRUE) \/ call \in D
                              /\ call \in D => HasV(u, call, TRUE)
                              /\ OnceV(v, call)
                         /\ call \in told =>
                              (HasV(u, call, FALSE) => HasV(v, call, FALSE) \/ call \in D)
    BY Zenon DEF Sheds
  <2> DEFINE call == <<c, k>>
  <2> HIDE DEF d
  <2>1. call \in D => call = d
    BY <1>7
  <2>2. call \notin told /\ call = d => call \in D
    BY <1>7
  <2>3. m.then = "tell" /\ call = d => call \in D
    BY <1>7
  <2> HIDE DEF call
  <2>4. call \notin told /\ OnceV(u, call) =>
             /\ HasV(v, call, TRUE) => HasV(u, call, TRUE) /\ call \notin D
             /\ HasV(u, call, TRUE) => HasV(v, call, TRUE) \/ call \in D
             /\ call \in D => HasV(u, call, TRUE)
             /\ OnceV(v, call)
    BY <1>5, <1>6, <2>1, <2>2
  <2>5. call \in told => (HasV(u, call, FALSE) => HasV(v, call, FALSE) \/ call \in D)
    BY <1>5, <2>3
  <2> QED BY <2>4, <2>5 DEF call
<1>8. Sheds(u, v, {d}) /\ (m.then # "tell" => Sheds(u, v, {d} \ told))
  BY <1>7
<1> QED BY <1>8 DEF v

(* An answer arrives, or finds its receiver dead. *)
LEMMA AnswerArrives ==
  ASSUME AccountInv, Inv', NEW s \in Services, Deliver(s),
         vm[s].post.then \in {"response", "raised", "tell"},
         vm[s].post.then = "tell" => vm[s].job[vm[s].run] = "tell",
         Receipt(vm[s].post.to) # "block",
         NEW w, Onward(s, Taken(vm[s]), w, {}), w.post = None,
         Change(s, w, {}), UNCHANGED <<timers, told>>
  PROVE  AccountInv'
<1> DEFINE u == vm[s]
           v == Taken(vm[s])
           m == vm[s].post
           to == m.to
           mail == Posted(s)
           r == Receipt(to)
           d == <<vm[s].post.to, vm[s].post.session>>
<1>1. /\ ~aborted /\ Arrives(s) /\ PostOK(s, u) /\ m # None /\ m \in Post /\ to \in Services
      /\ v \in VM /\ JobKept(s, v) /\ LookupKept(v) /\ mail \in Message
      /\ Follows(u, v) /\ v.lookup = u.lookup /\ v.next = u.next /\ v.sel = u.sel
      /\ v.state = u.state
  BY DeliverFacts
<1>2. LetterOK(to, mail)
  BY LetterKept
<1>3. Sheds(u, v, {d})
  BY TakenSheds
<1>4. \A c \in Services, k \in Sessions : Gives(u, v, {d}, <<c, k>>)
  BY <1>3, ShedsGives
<1>5. /\ mail.session = m.session /\ mail.type = m.type /\ mail.report = None
      /\ m.type \in {"response", "error"}
  BY <1>1 DEF Posted, PostOK
<1>6. \A call : /\ MailCarries(mail, to, call) <=> call \in {d}
                /\ call \in {d} => MailHas(mail, to, call, FALSE)
  BY <1>5 DEF MailCarries, MailHas
<1>7. r # "done" => vm[to].state # "live"
  BY DEF Receipt
<1>8. queue' = IF r = "done" THEN [queue EXCEPT ![to] = Append(@, mail)] ELSE queue
  BY <1>1 DEF Arrives
<1>9. \A c \in Services, k \in Sessions : vm[c].state = "live" /\ r # "done" => <<c, k>> \notin {d}
  BY <1>7
<1> HIDE DEF v, mail, r, d
<1>10. Brings(s, to, mail, r, v, w, {d}, {}, {})
  <2>1. ASSUME NEW c \in Services, NEW k \in Sessions, vm[c].state = "live"
        PROVE  /\ Gives(vm[s], v, {d}, <<c, k>>)
               /\ r # "done" => <<c, k>> \notin {d}
               /\ MailCarries(mail, to, <<c, k>>) <=> <<c, k>> \in {d}
               /\ <<c, k>> \in {d} => MailHas(mail, to, <<c, k>>, FALSE)
    BY <1>4, <1>6, <1>9, <2>1
  <2> QED BY <2>1 DEF Brings
<1>11. Quiet(v, w) /\ w \in VM /\ (w.state = "live" => vm[s].state = "live")
  BY <1>1 DEF Onward, Follows, v
<1>12. \A k \in Sessions \ {} : WaitsOn(vm[s], w, k)
  <2>1. \A k \in Sessions : WaitsOn(v, w, k)
    BY DEF Onward, WaitsOn, Follows, v
  <2>2. \A k \in Sessions : WaitsOn(u, v, k)
    BY <1>1 DEF WaitsOn, Asks, AwaitedV
  <2> QED BY <2>1, <2>2 DEF WaitsOn
<1>13. Kept(s, w)
  BY <1>1 DEF Onward, Kept, PostKept, v
<1>14. told' = told \cup {} /\ {} \in SUBSET Sessions
  OBVIOUS
<1> HIDE DEF to
<1> QED BY <1>1, <1>2, <1>8, <1>10, <1>11, <1>12, <1>13, <1>14, MailAccount

(* The coroutine waits for the answer, or the message comes back. *)
LEMMA SuspendRunOnward ==
  ASSUME NEW s, NEW v \in VM, v.post = None, v.run \in Thread, v.next <= MaxSession
  PROVE  LET w == Dispatch(Suspend(v, v.run))
         IN /\ Onward(s, v, w, {v.next}) /\ w.lookup[v.next] # None /\ w.post = None
            /\ v.next \in Sessions /\ ~Asks(v, v.next)
<1> DEFINE a == Suspend(v, v.run)
           w == Dispatch(a)
<1>1. v.run \in Sleepers \ {None}
  BY NilAssumption DEF Sleepers
<1>2. /\ Onward(s, v, a, {v.next}) /\ v.next \in Sessions
      /\ a.lookup[v.next] = v.run /\ ~Asks(v, v.next) /\ a.post = None
  BY <1>1, SuspendOnward
<1>3. a \in VM
  BY <1>2 DEF Onward
<1> HIDE DEF a
<1>4. Onward(s, a, w, {v.next}) /\ w.post = None
  BY <1>2, <1>3, DispatchOnward
<1>5. w.lookup = a.lookup
  BY <1>3 DEF Dispatch, VM
<1> HIDE DEF w
<1>6. Onward(s, v, w, {v.next})
  BY <1>2, <1>4, OnwardTrans
<1> QED BY <1>1, <1>2, <1>4, <1>5, <1>6 DEF w, a

LEMMA SentAskAccount ==
  ASSUME AccountInv, Inv', NEW s \in Services, Deliver(s),
         Sent(s, Taken(vm[s]), vm[s].post, Receipt(vm[s].post.to)),
         vm[s].post.then \in {"call", "sleep", "send", "timeout"},
         UNCHANGED <<timers, told, aborted>>
  PROVE  AccountInv'
<1> DEFINE u == vm[s]
           m == vm[s].post
           r == Receipt(vm[s].post.to)
           v == Taken(vm[s])
           t == NewThread(v)
           c == Create(v, t, "user", None, Nil, {})
           w == IF m.then \in {"call", "sleep"} THEN Dispatch(Suspend(v, v.run))
                ELSE IF m.then = "send" THEN Suspend(v, Ignore)
                ELSE Suspend(c, t)
<1>1. /\ PostOK(s, u) /\ m # None /\ v \in VM /\ v.post = None /\ v.run = u.run
      /\ v.next = u.next /\ JobKept(s, v) /\ FreeThreads(v) = FreeThreads(u)
      /\ v.lookup = u.lookup /\ v.sel = u.sel
  BY DeliverFacts
<1>2. m.session = v.next /\ v.next <= MaxSession /\ v.run \in Thread
      /\ (m.then = "timeout" => FreeThreads(v) # {})
  BY <1>1 DEF PostOK
<1>3. Change(s, IF r = "done" THEN w ELSE v, {})
  <2>1. CASE m.then = "call"
    BY <2>1 DEF Sent
  <2>2. CASE m.then = "sleep"
    BY <2>2 DEF Sent
  <2>3. CASE m.then = "send"
    BY <2>3 DEF Sent
  <2>4. CASE m.then = "timeout"
    BY <2>4 DEF Sent
  <2> QED BY <2>1, <2>2, <2>3, <2>4
<1> HIDE DEF v, t, c
<1>4. /\ Onward(s, v, w, {v.next}) /\ w.lookup[v.next] # None /\ w.post = None
      /\ v.next \in Sessions /\ ~Asks(v, v.next)
  <2>1. CASE m.then \in {"call", "sleep"}
    BY <1>1, <1>2, <2>1, SuspendRunOnward
  <2>2. CASE m.then = "send"
    <3>1. Ignore \in Sleepers \ {None} /\ Ignore # None
      BY NilAssumption DEF Sleepers
    <3>2. w = Suspend(v, Ignore)
      BY <2>2
    <3> QED BY <1>1, <1>2, <3>1, <3>2, SuspendOnward
  <2>3. CASE m.then = "timeout"
    <3>1. Idle(v, t) /\ t \in Thread
      BY <1>1, <1>2, <2>3, FreeIdle DEF t
    <3>2. Onward(s, v, c, {}) /\ c.post = None
      BY <1>1, <3>1, CreateOnward DEF c, Job
    <3>3. c \in VM /\ c.next = v.next
      BY <1>1, <3>1, <3>2 DEF Onward, c, Create, VM
    <3>4. t \in Sleepers \ {None} /\ t # None
      BY <3>1, NilAssumption DEF Sleepers
    <3>5. /\ Onward(s, c, Suspend(c, t), {v.next}) /\ v.next \in Sessions
          /\ Suspend(c, t).lookup[v.next] = t /\ Suspend(c, t).post = None
      BY <1>2, <3>2, <3>3, <3>4, SuspendOnward
    <3>6. Onward(s, v, c, {v.next})
      BY <3>2, OnwardMore
    <3>7. Onward(s, v, Suspend(c, t), {v.next})
      BY <3>5, <3>6, OnwardTrans
    <3>8. ~Asks(v, v.next)
      <4>1. v.next \in Nat
        BY <1>1, VMFields, SessionAssumption
      <4> QED BY <4>1 DEF Asks
    <3>9. w = Suspend(c, t)
      BY <2>3
    <3> QED BY <3>4, <3>5, <3>7, <3>8, <3>9
  <2> QED BY <2>1, <2>2, <2>3
<1> HIDE DEF w
<1>5. CASE r = "done"
  <2>1. Change(s, w, {})
    BY <1>3, <1>5
  <2>2. v.next = m.session /\ ~Asks(u, v.next)
    BY <1>1, <1>2, <1>4 DEF Asks
  <2>3. Onward(s, Taken(vm[s]), w, {v.next})
    BY <1>4 DEF v
  <2> QED BY <1>4, <1>5, <2>1, <2>2, <2>3, AskArrives
<1>6. CASE r # "done"
  <2>1. Change(s, v, {})
    BY <1>3, <1>6
  <2>2. Onward(s, vm[s], v, {})
    BY TakenOnward DEF v
  <2>3. PostKept(s, v)
    BY <1>1 DEF PostKept
  <2> QED BY <1>1, <1>6, <2>1, <2>2, <2>3, NotArrived
<1> QED BY <1>5, <1>6

LEMMA SentSelectAccount ==
  ASSUME AccountInv, Inv', NEW s \in Services, Deliver(s),
         Sent(s, Taken(vm[s]), vm[s].post, Receipt(vm[s].post.to)),
         vm[s].post.then = "select", UNCHANGED <<timers, told, aborted>>
  PROVE  AccountInv'
<1> DEFINE u == vm[s]
           m == vm[s].post
           k == m.session
           r == Receipt(vm[s].post.to)
           v == Taken(vm[s])
           w == [v EXCEPT !.sel.sessions = @ \cup {m.session}, !.sel.request = @ + 1]
           x == [v EXCEPT !.sel.errors = @ + 1]
<1>1. /\ PostOK(s, u) /\ m # None /\ v \in VM /\ Settled(v) /\ v.post = None
      /\ v.run = u.run /\ v.next = u.next /\ JobKept(s, v)
      /\ v.lookup = u.lookup /\ v.sel = u.sel /\ (u.run # None => Unlisted(v, u.run))
      /\ LookupKept(v)
  BY DeliverFacts
<1>2. Change(s, CASE r = "done" -> w [] r = "error" -> x [] r = "block" -> Abandon(v), {})
  BY DEF Sent
<1>3. /\ k \in Sessions /\ v.lookup[k] = Select /\ v.sel # None
      /\ k \notin v.sel.sessions /\ k # v.sel.timer /\ v.run \in Thread
  BY <1>1 DEF PostOK
<1>4. Onward(s, vm[s], v, {})
  BY TakenOnward
<1>5. r \in {"done", "error", "block"}
  BY DEF Receipt
<1>6. Unlisted(v, v.run)
  BY <1>1, <1>3, NilAssumption
<1> HIDE DEF v, r
<1>7. CASE r = "done"
  <2>1. /\ Settled(w) /\ w.next = v.next /\ w.lookup = v.lookup
        /\ w.sel.sessions = v.sel.sessions \cup {k} /\ w.sel.timer = v.sel.timer
        /\ w.sel # None
    BY <1>1, <1>3, SelectTakenSettled
  <2>2. /\ w.from = v.from /\ w.session = v.session /\ w.todo = v.todo
        /\ w.post = v.post /\ w.state = v.state /\ w.run = v.run
        /\ w.job = v.job
    BY <1>1 DEF VM
  <2>3. Change(s, w, {})
    BY <1>2, <1>7
  <2> HIDE DEF w
  <2>4. w \in VM
    BY <2>1 DEF Settled
  <2>5. Follows(v, w)
    BY <2>1, <2>2, SameDue DEF Follows, Asks
  <2>6. Quiet(v, w)
    BY <1>1, <2>2, SameQuiet
  <2>7. \A j \in Sessions \ {k} : AwaitedV(w, j) => AwaitedV(v, j)
    BY <1>3, <2>1, <2>2 DEF AwaitedV
  <2>8. Onward(s, v, w, {k})
    BY <2>1, <2>2, <2>4, <2>5, <2>6, <2>7 DEF Onward, JobKept, LookupKept
  <2>9. ~Asks(u, k) /\ w.lookup[k] # None
    BY <1>1, <1>3, <2>1, NilAssumption DEF Asks
  <2>10. Onward(s, Taken(vm[s]), w, {k})
    BY <2>8 DEF v
  <2>11. w.post = None
    BY <1>1, <2>2
  <2> QED BY <1>3, <1>7, <2>3, <2>9, <2>10, <2>11, AskArrives DEF r
<1>8. CASE r = "error"
  <2>1. /\ Settled(x) /\ x.next = v.next /\ x.lookup = v.lookup
        /\ x.sel.sessions = v.sel.sessions /\ x.sel.timer = v.sel.timer
        /\ x.sel # None
    BY <1>1, <1>3, SelectRefusedSettled
  <2>2. /\ x.from = v.from /\ x.session = v.session /\ x.todo = v.todo
        /\ x.post = v.post /\ x.state = v.state /\ x.run = v.run
        /\ x.job = v.job
    BY <1>1 DEF VM
  <2>3. Change(s, x, {})
    BY <1>2, <1>8
  <2> HIDE DEF x
  <2>4. x \in VM /\ x.post = None
    BY <1>1, <2>1, <2>2 DEF Settled
  <2>5. Follows(v, x)
    BY <2>1, <2>2, SameDue DEF Follows, Asks
  <2>6. \A j \in Sessions : AwaitedV(x, j) => AwaitedV(v, j)
    BY <1>3, <2>1, <2>2 DEF AwaitedV
  <2>7. LookupKept(v) => LookupKept(x)
    BY <2>1 DEF LookupKept
  <2>8. Onward(s, v, x, {})
    BY <1>1, <2>1, <2>2, <2>4, <2>5, <2>6, <2>7, SelectOnward
  <2>9. Onward(s, vm[s], x, {})
    BY <1>4, <2>8, OnwardTrans
  <2>10. PostKept(s, x)
    BY <2>4 DEF PostKept
  <2> QED BY <1>8, <2>3, <2>4, <2>9, <2>10, NotArrived DEF r
<1>9. CASE r = "block"
  <2>1. Change(s, Abandon(v), {})
    BY <1>2, <1>9
  <2>2. Onward(s, v, Abandon(v), {}) /\ Abandon(v).post = None
    BY <1>1, <1>6, AbandonOnward
  <2>3. Onward(s, vm[s], Abandon(v), {})
    BY <1>4, <2>2, OnwardTrans
  <2>4. PostKept(s, Abandon(v))
    BY <2>2 DEF PostKept
  <2> QED BY <1>9, <2>1, <2>2, <2>3, <2>4, NotArrived DEF r
<1> QED BY <1>5, <1>7, <1>8, <1>9

LEMMA SentResponseAccount ==
  ASSUME AccountInv, Inv', NEW s \in Services, Deliver(s),
         Sent(s, Taken(vm[s]), vm[s].post, Receipt(vm[s].post.to)),
         vm[s].post.then = "response", UNCHANGED <<timers, told, aborted>>
  PROVE  AccountInv'
<1> DEFINE u == vm[s]
           m == vm[s].post
           d == <<vm[s].post.to, vm[s].post.session>>
           r == Receipt(vm[s].post.to)
           v == Taken(vm[s])
           w == End(v)
<1>1. /\ PostKept(s, u) /\ m # None /\ v \in VM /\ v.post = None
      /\ v.run = u.run /\ v.job = u.job /\ v.from = u.from
      /\ JobKept(s, v) /\ LookupKept(v) /\ ~aborted
      /\ Follows(u, v) /\ v.lookup = u.lookup /\ v.next = u.next /\ v.sel = u.sel
      /\ v.state = u.state /\ Arrives(s)
  BY DeliverFacts
<1>2. Change(s, w, IF r = "block" THEN {d} \ told ELSE {})
  BY DEF Sent
<1>3. v.run \in Thread /\ v.job[v.run] = "user" /\ v.from[v.run] = None
  BY <1>1 DEF PostKept
<1>4. Idle(v, v.run)
  BY <1>1, <1>3 DEF JobKept, Idle
<1> HIDE DEF v, r, d
<1>5. Onward(s, v, w, {}) /\ w.post = None
  BY <1>1, <1>3, <1>4, EndOnward
<1> HIDE DEF w
<1>6. CASE r # "block"
  <2>1. Change(s, w, {})
    BY <1>2, <1>6
  <2>2. Onward(s, Taken(vm[s]), w, {})
    BY <1>5 DEF v
  <2> QED BY <1>5, <1>6, <2>1, <2>2, AnswerArrives DEF r
<1>7. CASE r = "block"
  <2>1. Change(s, w, {d} \ told)
    BY <1>2, <1>7
  <2>2. Sheds(u, v, {d} \ told)
    BY TakenSheds DEF v, d
  <2>3. Sheds(v, w, {})
    BY <1>5, QuietSheds DEF Onward
  <2>4. Sheds(u, w, ({d} \ told) \cup {}) /\ ({d} \ told) \cup {} = {d} \ told
    BY <2>2, <2>3, ShedsTrans
  <2>5. Sheds(u, w, {d} \ told)
    BY <2>4
  <2>6. \A k \in Sessions : WaitsOn(u, w, k)
    <3>1. \A k \in Sessions : WaitsOn(v, w, k)
      BY <1>5 DEF Onward, WaitsOn, Follows
    <3>2. \A k \in Sessions : WaitsOn(u, v, k)
      BY <1>1 DEF WaitsOn, Asks, AwaitedV
    <3> QED BY <3>1, <3>2 DEF WaitsOn
  <2>7. Kept(s, w) /\ w \in VM /\ (w.state = "live" => u.state = "live")
    BY <1>1, <1>5 DEF Onward, Kept, PostKept, Follows
  <2>8. UNCHANGED <<queue, timers, told>>
    BY <1>1, <1>7 DEF Arrives, r
  <2> QED BY <1>1, <1>5, <2>1, <2>5, <2>6, <2>7, <2>8, ShedsAccount
<1> QED BY <1>6, <1>7

LEMMA SentAccount ==
  ASSUME AccountInv, Inv', NEW s \in Services, Deliver(s),
         Sent(s, Taken(vm[s]), vm[s].post, Receipt(vm[s].post.to)),
         UNCHANGED <<timers, told, aborted>>
  PROVE  AccountInv'
<1>1. vm[s].post.then \in {"call", "send", "sleep", "timeout", "select", "response"}
  BY DEF Sent
<1> QED BY <1>1, SentAskAccount, SentSelectAccount, SentResponseAccount

(* The errors a coroutine has to send are dropped, or given away. *)
LEMMA ClearSheds ==
  ASSUME NEW s, NEW v \in VM, Settled(v), v.post = None, NEW t \in Thread,
         v.job[t] \in {"tell", "report"}, JobKept(s, v)
  PROVE  LET w == [v EXCEPT !.todo[t] = {}]
         IN /\ w \in VM /\ Sheds(v, w, v.todo[t]) /\ Follows(v, w)
            /\ JobKept(s, w) /\ w.todo[t] = {}
            /\ w.lookup = v.lookup /\ w.next = v.next /\ w.sel = v.sel /\ w.state = v.state
            /\ w.run = v.run /\ w.job = v.job /\ w.from = v.from /\ w.session = v.session
            /\ w.post = None
            /\ v.job[t] = "tell" => Settled(w) /\ \A u : Unlisted(v, u) => Unlisted(w, u)
<1> DEFINE w == [v EXCEPT !.todo[t] = {}]
           E == v.todo[t]
<1>1. v.todo \in [Thread -> SUBSET (Services \X ((0..MaxSession) \cup {Nil}))]
  BY VMFields
<1>2. /\ w \in VM /\ w.todo = [v.todo EXCEPT ![t] = {}]
      /\ w.lookup = v.lookup /\ w.next = v.next /\ w.sel = v.sel /\ w.run = v.run
      /\ w.from = v.from /\ w.session = v.session /\ w.post = None /\ w.state = v.state
      /\ w.job = v.job /\ w.wakeups = v.wakeups /\ w.waiting = v.waiting
  BY <1>1 DEF VM
<1>3. \A u \in Thread : w.todo[u] = IF u = t THEN {} ELSE v.todo[u]
  BY <1>1, <1>2
<1> HIDE DEF w
<1>4. \A x : \A u \in Thread : /\ HeldBy(w, u, x) <=> HeldBy(v, u, x)
                               /\ TodoBy(w, u, x) <=> TodoBy(v, u, x) /\ u # t
  BY <1>2, <1>3 DEF HeldBy, TodoBy
<1>5. \A x : TodoBy(v, t, x) <=> x \in E
  BY DEF TodoBy
<1>6. \A x : ~PostAnswers(v, x) /\ ~PostAnswers(w, x)
  BY <1>2 DEF PostAnswers, PostCarries
<1>7. Sheds(v, w, E)
  <2> SUFFICES ASSUME NEW c \in Services, NEW k \in Sessions
               PROVE  LET call == <<c, k>>
                      IN /\ call \notin told /\ OnceV(v, call) =>
                              /\ HasV(w, call, TRUE) => HasV(v, call, TRUE) /\ call \notin E
                              /\ HasV(v, call, TRUE) => HasV(w, call, TRUE) \/ call \in E
                              /\ call \in E => HasV(v, call, TRUE)
                              /\ OnceV(w, call)
                         /\ call \in told =>
                              (HasV(v, call, FALSE) => HasV(w, call, FALSE) \/ call \in E)
    BY Zenon DEF Sheds
  <2> DEFINE call == <<c, k>>
  <2> HIDE DEF E, call
  <2>1. HasV(v, call, FALSE) => HasV(w, call, FALSE) \/ call \in E
    BY <1>4, <1>5, <1>6 DEF HasV, PostHas
  <2>2. HasV(w, call, TRUE) => HasV(v, call, TRUE)
    BY <1>4, <1>6 DEF HasV, PostHas
  <2>3. HasV(v, call, TRUE) => HasV(w, call, TRUE) \/ call \in E
    BY <1>4, <1>5, <1>6 DEF HasV, PostHas
  <2>4. call \in E => HasV(v, call, TRUE)
    BY <1>5 DEF HasV
  <2>5. OnceV(v, call) => OnceV(w, call)
    BY <1>4, <1>6 DEF OnceV
  <2>6. OnceV(v, call) /\ call \in E => ~HasV(w, call, TRUE)
    BY <1>4, <1>5, <1>6 DEF OnceV, HasV, PostHas
  <2> QED BY <2>1, <2>2, <2>3, <2>4, <2>5, <2>6 DEF call
<1>8. ASSUME NEW c \in Services, NEW k \in Sessions, DueVM(w, <<c, k>>)
      PROVE  DueVM(v, <<c, k>>)
  BY <1>2, <1>3, <1>8 DEF DueVM
<1>9. Follows(v, w)
  BY <1>2, <1>8, SameAsks DEF Follows
<1>10. JobKept(s, w)
  BY <1>2, <1>3 DEF JobKept
<1>11. v.job[t] = "tell" => Settled(w) /\ \A u : Unlisted(v, u) => Unlisted(w, u)
  <2>1. \A u : Unlisted(v, u) <=> Unlisted(w, u)
    BY <1>2 DEF Unlisted
  <2>2. Tables(w) /\ Rested(w) /\ SelectOK(w)
    BY <1>2, <2>1 DEF Settled, Tables, Rested, SelectOK, Open
  <2>3. v.job[t] = "tell" => JobOK(w)
    BY <1>2, <1>3 DEF Settled, JobOK
  <2> QED BY <1>2, <2>1, <2>2, <2>3 DEF Settled
<1> QED BY <1>2, <1>3, <1>7, <1>9, <1>10, <1>11 DEF w

LEMMA RaisedAccount ==
  ASSUME AccountInv, Inv', NEW s \in Services, Deliver(s),
         Told(s, Taken(vm[s]), vm[s].post, Receipt(vm[s].post.to)),
         vm[s].post.then = "raised"
  PROVE  AccountInv'
<1> DEFINE m == vm[s].post
           r == Receipt(vm[s].post.to)
           v == Taken(vm[s])
<1>1. /\ v \in VM /\ v.post = None /\ JobKept(s, v) /\ LookupKept(v) /\ Arrives(s)
  BY DeliverFacts
<1>2. /\ Change(s, IF r = "block" THEN v ELSE Dispatch(v), {})
      /\ aborted' = (r = "block") /\ UNCHANGED <<timers, told>>
  BY DEF Told
<1>3. CASE r # "block"
  <2>1. Change(s, Dispatch(v), {})
    BY <1>2, <1>3
  <2>2. Onward(s, Taken(vm[s]), Dispatch(v), {}) /\ Dispatch(v).post = None
    BY <1>1, DispatchOnward
  <2> QED BY <1>2, <1>3, <2>1, <2>2, AnswerArrives
<1>4. CASE r = "block"
  <2>1. Change(s, v, {}) /\ aborted'
    BY <1>2, <1>4
  <2>2. vm \in [Services -> VM]
    BY AccountFacts
  <2>3. /\ vm'[s] = IF v.state = "live" THEN v ELSE EmptyVM("dead")
        /\ \A x \in Services : x # s => vm'[x] = vm[x]
    BY <2>1, <2>2 DEF Change
  <2> HIDE DEF v
  <2>4. Kept(s, v)
    BY <1>1 DEF Kept, PostKept
  <2>5. \A x \in Services : Kept(x, vm'[x]) /\ Emptied(vm'[x])
    BY <2>3, <2>4, ServiceKept
  <2>6. Letters'
    BY <1>1, <1>4 DEF Arrives, AccountInv, Letters
  <2> QED BY <2>1, <2>5, <2>6 DEF AccountInv
<1> QED BY <1>3, <1>4

(* ltask.error by a coroutine that the service was not asked to quit for. *)
LEMMA TellBlockAccount ==
  ASSUME AccountInv, Inv', NEW s \in Services, Deliver(s),
         Told(s, Taken(vm[s]), vm[s].post, Receipt(vm[s].post.to)),
         vm[s].post.then = "tell", Receipt(vm[s].post.to) = "block"
  PROVE  AccountInv'
<1> DEFINE u == vm[s]
           m == vm[s].post
           v == Taken(vm[s])
           call == <<m.to, m.session>>
           p == Mail(s, "response", v.next, call, "later")
           w == [v EXCEPT !.post = p]
<1>1. /\ PostOK(s, u) /\ PostKept(s, u) /\ m # None /\ v \in VM /\ v.post = None
      /\ m.to \in Services /\ m.session \in 0..MaxSession
      /\ v.run = u.run /\ v.next = u.next /\ v.lookup = u.lookup /\ v.sel = u.sel
      /\ v.job = u.job /\ v.todo = u.todo /\ v.from = u.from
      /\ v.session = u.session /\ v.state = u.state /\ Follows(u, v)
      /\ u.state = "live"
  BY DeliverFacts
<1>2. m.report = None /\ m.type # "request" /\ v.run \in Thread
  BY <1>1 DEF PostOK
<1>3. /\ v.next <= MaxSession /\ Change(s, w, {}) /\ UNCHANGED <<timers, told>>
  BY <1>2 DEF Told, SessionLeft
<1>4. v.next \in 0..MaxSession /\ call \in Call /\ call # None
  BY <1>1, <1>3, VMFields, SessionAssumption, NilAssumption DEF Call
<1>5. /\ p \in Post /\ p.type = "response" /\ p.report = call /\ p.then = "later" /\ p # None
  BY <1>4, NilAssumption DEF Mail, Post
<1> HIDE DEF p, v
<1>6. /\ w \in VM /\ w.post = p
      /\ w.lookup = v.lookup /\ w.job = v.job /\ w.todo = v.todo /\ w.next = v.next
      /\ w.sel = v.sel /\ w.run = v.run /\ w.from = v.from /\ w.session = v.session
      /\ w.state = v.state
  BY <1>1, <1>5 DEF VM
<1> HIDE DEF w
<1>7. \A x : PostAnswers(u, x) <=> x = call /\ u.job[u.run] = "tell"
  BY <1>1, <1>2 DEF PostAnswers, PostCarries
<1>8. \A x : PostAnswers(w, x) <=> x = call /\ u.job[u.run] = "tell"
  BY <1>1, <1>4, <1>5, <1>6 DEF PostAnswers, PostCarries
<1>9. \A x : \A h \in BOOLEAN : PostHas(w, x, h) <=> PostHas(u, x, h)
  BY <1>5, <1>6, <1>7, <1>8 DEF PostHas
<1>10. \A x : \A t \in Thread : /\ HeldBy(w, t, x) <=> HeldBy(u, t, x)
                                /\ TodoBy(w, t, x) <=> TodoBy(u, t, x)
  BY <1>1, <1>6 DEF HeldBy, TodoBy
<1>11. Quiet(u, w)
  <2>1. \A x : \A h \in BOOLEAN : HasV(w, x, h) <=> HasV(u, x, h)
    BY <1>9, <1>10 DEF HasV
  <2>2. \A x : OnceV(u, x) => OnceV(w, x)
    BY <1>7, <1>8, <1>10 DEF OnceV
  <2> QED BY <2>1, <2>2 DEF Quiet
<1>12. \A x : DueVM(w, x) => DueVM(u, x)
  <2>1. DuePost(m, call)
    BY DEF DuePost
  <2>2. \A x : DuePost(p, x) => x = call
    BY <1>5 DEF DuePost
  <2> QED BY <1>1, <1>6, <2>1, <2>2 DEF DueVM
<1>13. Follows(u, w)
  BY <1>1, <1>6, <1>12, SameAsks DEF Follows
<1>14. /\ JobKept(s, u) => JobKept(s, w)
       /\ LookupKept(u) => LookupKept(w)
       /\ \A k \in Sessions : AwaitedV(w, k) => AwaitedV(u, k)
  BY <1>1, <1>6 DEF JobKept, LookupKept, AwaitedV
<1>15. Onward(s, u, w, {})
  BY <1>1, <1>6, <1>11, <1>13, <1>14 DEF Onward
<1>16. PostKept(s, w)
  BY <1>1, <1>5, <1>6 DEF PostKept
<1>17. Change(s, w, {})
  BY <1>3 DEF w
<1>18. w.state = "live"
  BY <1>1, <1>6
<1> QED BY <1>3, <1>15, <1>16, <1>17, <1>18, NotArrived

(* Nothing comes of what a service that quits tells, until it has arrived. *)
LEMMA QuittingOnward ==
  ASSUME AccountInv, NEW s \in Services, Deliver(s),
         vm[s].post.then \in {"tell", "later"}, vm[s].job[vm[s].run] = "quitting"
  PROVE  Onward(s, vm[s], Taken(vm[s]), {})
<1> DEFINE u == vm[s]
           v == Taken(vm[s])
<1>1. /\ PostOK(s, u) /\ v \in VM /\ v.post = None /\ v.run = u.run /\ v.next = u.next
      /\ v.lookup = u.lookup /\ u.post # None
      /\ v.sel = u.sel /\ v.job = u.job /\ v.todo = u.todo /\ v.from = u.from
      /\ v.session = u.session /\ v.state = u.state /\ Follows(u, v)
  BY DeliverFacts
<1> HIDE DEF v
<1>2. \A call : ~PostAnswers(u, call) /\ ~PostAnswers(v, call)
  <2>1. u.post.then = "later" => u.post.report # None
    BY <1>1, NilAssumption DEF PostOK
  <2> QED BY <1>1, <2>1 DEF PostAnswers, PostCarries
<1>3. \A call : \A t \in Thread : /\ HeldBy(v, t, call) <=> HeldBy(u, t, call)
                                  /\ TodoBy(v, t, call) <=> TodoBy(u, t, call)
  BY <1>1 DEF HeldBy, TodoBy
<1>4. Quiet(u, v)
  BY <1>2, <1>3 DEF Quiet, HasV, OnceV, PostHas
<1>5. (JobKept(s, u) => JobKept(s, v)) /\ (LookupKept(u) => LookupKept(v))
  BY <1>1 DEF JobKept, LookupKept
<1>6. \A k \in Sessions : AwaitedV(v, k) => AwaitedV(u, k)
  BY <1>1 DEF AwaitedV
<1> QED BY <1>1, <1>4, <1>5, <1>6 DEF Onward, v

LEMMA TellGoneAccount ==
  ASSUME AccountInv, Inv', NEW s \in Services, Deliver(s),
         Told(s, Taken(vm[s]), vm[s].post, Receipt(vm[s].post.to)),
         vm[s].post.then = "tell", Receipt(vm[s].post.to) # "block"
  PROVE  AccountInv'
<1> DEFINE u == vm[s]
           m == vm[s].post
           to == m.to
           r == Receipt(vm[s].post.to)
           mail == Posted(s)
           v == Taken(vm[s])
           call == <<m.to, m.session>>
<1>1. /\ PostOK(s, u) /\ PostKept(s, u) /\ m # None /\ v \in VM /\ v.post = None
      /\ m.to \in Services /\ m.session \in 0..MaxSession /\ ~aborted
      /\ v.job = u.job /\ v.run = u.run /\ v.state = u.state /\ mail \in Message
      /\ Arrives(s) /\ JobKept(s, v) /\ LookupKept(v) /\ m.to \in Services
  BY DeliverFacts
<1>2. m.report = None /\ m.type \in {"response", "error"} /\ u.job[u.run] \in {"tell", "quitting"}
  BY <1>1 DEF PostOK, PostKept
<1>3. /\ Change(s, v, {}) /\ UNCHANGED timers
      /\ told' = IF r = "done" /\ u.job[u.run] = "quitting" THEN told \cup {call} ELSE told
  BY <1>1, <1>2 DEF Told
<1>4. CASE u.job[u.run] = "tell"
  <2>1. UNCHANGED <<timers, told>>
    BY <1>3, <1>4
  <2>2. Quiet(v, v)
    BY DEF Quiet
  <2>3. Onward(s, v, v, {})
    BY <2>2 DEF Onward, Follows
  <2> QED BY <1>1, <1>3, <1>4, <2>1, <2>3, AnswerArrives
<1>5. CASE u.job[u.run] = "quitting" /\ r # "done"
  <2>1. Onward(s, u, v, {})
    BY <1>5, QuittingOnward
  <2>2. UNCHANGED <<timers, told>>
    BY <1>3, <1>5
  <2>3. PostKept(s, v)
    BY <1>1 DEF PostKept
  <2> QED BY <1>1, <1>3, <1>5, <2>1, <2>2, <2>3, NotArrived
<1>6. CASE u.job[u.run] = "quitting" /\ r = "done"
  <2>1. Onward(s, u, v, {})
    BY <1>6, QuittingOnward
  <2>2. told' = told \cup {call} /\ UNCHANGED timers
    BY <1>3, <1>6
  <2>3. queue' = IF r = "done" THEN [queue EXCEPT ![to] = Append(@, mail)] ELSE queue
    BY <1>1 DEF Arrives
  <2>4. LetterOK(to, mail)
    BY LetterKept
  <2>5. mail.session = m.session /\ mail.type = m.type /\ mail.report = None
    BY <1>2 DEF Posted
  <2> HIDE DEF v, mail, r
  <2>6. \A x : /\ MailCarries(mail, to, x) <=> x = call
               /\ x = call => MailHas(mail, to, x, FALSE)
    BY <1>2, <2>5 DEF MailCarries, MailHas
  <2>7. \A c \in Services, k \in Sessions : Gives(u, v, {}, <<c, k>>)
    BY <2>1, QuietSheds, ShedsGives DEF Onward
  <2>8. DueVM(u, call)
    BY <1>1 DEF DueVM, DuePost
  <2>9. Due(call)
    BY <2>8 DEF Due
  <2>10. Brings(s, to, mail, r, v, v, {}, {}, {call})
    <3> HIDE DEF call
    <3>1. ASSUME NEW c \in Services, NEW k \in Sessions, <<c, k>> \notin {call}
          PROVE  ~MailCarries(mail, to, <<c, k>>)
      BY <2>6, <3>1
    <3>2. ASSUME NEW c \in Services, NEW k \in Sessions, <<c, k>> \in {call}
          PROVE  Due(<<c, k>>) /\ MailHas(mail, to, <<c, k>>, FALSE)
      BY <2>6, <2>9, <3>2
    <3>3. r = "done"
      BY <1>6
    <3> QED BY <2>7, <3>1, <3>2, <3>3 DEF Brings
  <2>11. Quiet(v, v) /\ (v.state = "live" => vm[s].state = "live")
    BY <1>1 DEF Quiet
  <2>12. \A k \in Sessions \ {} : WaitsOn(vm[s], v, k)
    BY <2>1 DEF Onward, WaitsOn, Follows
  <2>13. Kept(s, v)
    BY <1>1 DEF Kept, PostKept
  <2>14. {} \in SUBSET Sessions
    OBVIOUS
  <2> HIDE DEF to, call
  <2>15. to \in Services /\ Change(s, v, {}) /\ v \in VM /\ v.post = None /\ mail \in Message
    BY <1>1, <1>3 DEF to, mail
  <2> QED BY <1>1, <2>2, <2>3, <2>4, <2>10, <2>11, <2>12, <2>13, <2>14, <2>15, MailAccount
<1> QED BY <1>2, <1>4, <1>5, <1>6

(* The caller's queue is full: a coroutine of report_error is woken. *)
LEMMA LaterDoneAccount ==
  ASSUME AccountInv, Inv', NEW s \in Services, Deliver(s),
         Told(s, Taken(vm[s]), vm[s].post, Receipt(vm[s].post.to)),
         vm[s].post.then = "later", Receipt(vm[s].post.to) = "done"
  PROVE  AccountInv'
<1> DEFINE u == vm[s]
           m == vm[s].post
           to == m.to
           r == Receipt(vm[s].post.to)
           mail == Posted(s)
           v == Taken(vm[s])
           call == m.report
           t == NewThread(v)
           a == Create(v, t, "report", None, Nil, {call})
           w == Suspend(a, t)
           j == u.next
           T == IF u.job[u.run] = "quitting" THEN {call} ELSE {}
<1>1. /\ PostOK(s, u) /\ PostKept(s, u) /\ m # None /\ v \in VM /\ v.post = None
      /\ m.to \in Services /\ ~aborted /\ mail \in Message /\ u \in VM
      /\ v.run = u.run /\ v.next = u.next /\ v.lookup = u.lookup /\ v.sel = u.sel
      /\ v.job = u.job /\ v.todo = u.todo /\ v.from = u.from
      /\ v.session = u.session /\ v.state = u.state /\ Follows(u, v)
      /\ FreeThreads(v) = FreeThreads(u) /\ u.state = "live"
      /\ JobKept(s, v) /\ LookupKept(v) /\ Arrives(s)
  BY DeliverFacts
<1>2. /\ m.report \in Call /\ m.type = "response" /\ m.to = s /\ m.session = u.next
      /\ u.next <= MaxSession /\ FreeThreads(v) # {} /\ u.run \in Thread
      /\ u.job[u.run] \in {"tell", "quitting"} /\ m.report # None
      /\ (s # Root => call[2] # 0)
  BY <1>1, NilAssumption DEF PostOK, PostKept
<1>3. /\ Change(s, w, {}) /\ UNCHANGED timers /\ told' = told \cup T
  BY <1>1, <1>2 DEF Told
<1>4. t \in Thread /\ v.job[t] = "free" /\ Idle(v, t)
  BY <1>1, <1>2, NewThreadFree, FreeIdle
<1>5. t # u.run
  BY <1>1, <1>2, <1>4
<1>6. /\ v.todo \in [Thread -> SUBSET (Services \X ((0..MaxSession) \cup {Nil}))]
      /\ v.from \in [Thread -> Services \cup {None}] /\ v.job \in [Thread -> Job]
      /\ v.session \in [Thread -> (0..MaxSession) \cup {Nil}]
      /\ v.next \in Nat /\ MaxSession \in Nat /\ v.lookup \in [0..MaxSession -> Sleepers]
      /\ v.next \in 1..(MaxSession + 1)
  BY <1>1, VMFields, SessionAssumption
<1> HIDE DEF v, t
<1>7. /\ a \in VM /\ a.job = [v.job EXCEPT ![t] = "report"]
      /\ a.from = [v.from EXCEPT ![t] = None] /\ a.session = [v.session EXCEPT ![t] = Nil]
      /\ a.todo = [v.todo EXCEPT ![t] = {call}]
      /\ a.next = v.next /\ a.lookup = v.lookup /\ a.sel = v.sel
      /\ a.post = None /\ a.state = v.state
  <2>1. /\ [v.todo EXCEPT ![t] = {call}]
             \in [Thread -> SUBSET (Services \X ((0..MaxSession) \cup {Nil}))]
        /\ [v.job EXCEPT ![t] = "report"] \in [Thread -> Job]
        /\ [v.from EXCEPT ![t] = None] \in [Thread -> Services \cup {None}]
        /\ [v.session EXCEPT ![t] = Nil] \in [Thread -> (0..MaxSession) \cup {Nil}]
    BY <1>2, <1>4, <1>6 DEF Job, Call
  <2> QED BY <1>1, <2>1 DEF Create, VM
<1>8. t \in Sleepers /\ t \in Thread /\ t \notin {None, Select}
  BY <1>4, NilAssumption DEF Sleepers
<1> HIDE DEF a
<1>9. /\ w \in VM /\ w.lookup = [v.lookup EXCEPT ![j] = t] /\ w.next = v.next + 1
      /\ w.job = [v.job EXCEPT ![t] = "report"]
      /\ w.from = [v.from EXCEPT ![t] = None] /\ w.session = [v.session EXCEPT ![t] = Nil]
      /\ w.todo = [v.todo EXCEPT ![t] = {call}]
      /\ w.sel = v.sel /\ w.post = None /\ w.state = v.state
  BY <1>1, <1>2, <1>7, <1>8, SuspendFields
<1> HIDE DEF w
<1>10. \A b \in Thread :
         /\ b # t => w.job[b] = v.job[b] /\ w.from[b] = v.from[b]
                     /\ w.session[b] = v.session[b] /\ w.todo[b] = v.todo[b]
         /\ w.job[t] = "report" /\ w.from[t] = None /\ w.session[t] = Nil /\ w.todo[t] = {call}
  BY <1>4, <1>6, <1>9
<1>11. j \in Sessions /\ \A k \in 0..MaxSession : w.lookup[k] = IF k = j THEN t ELSE v.lookup[k]
  BY <1>1, <1>2, <1>6, <1>9 DEF Sessions
<1>12. v.from[t] = None /\ v.todo[t] = {}
  BY <1>1, <1>4 DEF JobKept
<1>13. ASSUME NEW c \in Services, NEW k \in Sessions
       PROVE  \A b \in Thread :
                /\ HeldBy(w, b, <<c, k>>) <=> HeldBy(u, b, <<c, k>>)
                /\ TodoBy(w, b, <<c, k>>) <=> TodoBy(u, b, <<c, k>>) \/ (b = t /\ <<c, k>> = call)
                /\ ~TodoBy(u, t, <<c, k>>)
  <2>1. ASSUME NEW b \in Thread
        PROVE  /\ HeldBy(w, b, <<c, k>>) <=> HeldBy(u, b, <<c, k>>)
               /\ TodoBy(w, b, <<c, k>>) <=> TodoBy(u, b, <<c, k>>) \/ (b = t /\ <<c, k>> = call)
               /\ ~TodoBy(u, t, <<c, k>>)
    <3>1. CASE b = t
      BY <1>1, <1>10, <1>12, <3>1, NilAssumption DEF HeldBy, TodoBy
    <3>2. CASE b # t
      BY <1>1, <1>10, <1>12, <3>2 DEF HeldBy, TodoBy
    <3> QED BY <3>1, <3>2
  <2> QED BY <2>1
<1>14. \A x : ~PostAnswers(w, x) /\ (PostAnswers(u, x) <=> x = call /\ u.job[u.run] = "tell")
  BY <1>1, <1>2, <1>9 DEF PostAnswers, PostCarries
<1>15. ASSUME NEW c \in Services, NEW k \in Sessions, <<c, k>> \notin T
       PROVE  Gives(u, w, {}, <<c, k>>)
  <2> DEFINE x == <<c, k>>
  <2>1. x = call => u.job[u.run] = "tell"
    BY <1>2, <1>15
  <2>2. \A b \in Thread : /\ HeldBy(w, b, x) <=> HeldBy(u, b, x)
                          /\ TodoBy(w, b, x) <=> TodoBy(u, b, x) \/ (b = t /\ x = call)
                          /\ ~TodoBy(u, t, x)
    BY <1>13
  <2> HIDE DEF x
  <2>3. \A h \in BOOLEAN : PostHas(u, x, h) <=> x = call
    BY <1>14, <2>1 DEF PostHas
  <2>4. \A h \in BOOLEAN : HasV(w, x, h) <=> HasV(u, x, h)
    BY <1>4, <1>14, <2>2, <2>3 DEF HasV, PostHas
  <2>5. OnceV(u, x) => OnceV(w, x)
    BY <1>4, <1>14, <2>1, <2>2 DEF OnceV
  <2> QED BY <2>4, <2>5 DEF Gives, x
<1>16. mail.session = j /\ mail.type = "response" /\ mail.report = None
  BY <1>2 DEF Posted
<1>17. queue' = IF r = "done" THEN [queue EXCEPT ![to] = Append(@, mail)] ELSE queue
  BY <1>1 DEF Arrives
<1>18. LetterOK(to, mail)
  BY LetterKept
<1> HIDE DEF mail, r
<1>19. /\ \A x : MailCarries(mail, to, x) <=> x = <<s, j>>
       /\ MailHas(mail, to, <<s, j>>, TRUE)
  BY <1>2, <1>16 DEF MailCarries, MailHas
<1>20. ~Asks(u, j) /\ w.lookup[j] # None
  <2>1. ~Asks(u, j)
    BY <1>1, <1>6 DEF Asks
  <2>2. j \in 0..MaxSession
    BY <1>11, SessionAssumption DEF Sessions
  <2> QED BY <1>8, <1>11, <2>1, <2>2
<1>21. ASSUME NEW c \in Services, NEW k \in Sessions, <<c, k>> \in T
       PROVE  Due(<<c, k>>) /\ w.state = "live" /\ HasV(w, <<c, k>>, FALSE)
  <2>1. <<c, k>> = call
    BY <1>21
  <2>2. DueVM(u, <<c, k>>)
    BY <1>1, <2>1 DEF DueVM, DuePost
  <2>3. TodoBy(w, t, <<c, k>>)
    BY <1>4, <1>10, <2>1 DEF TodoBy
  <2> QED BY <1>1, <1>4, <1>9, <2>2, <2>3 DEF Due, HasV
<1>22. Brings(s, to, mail, r, w, w, {}, {j}, T)
  <2>1. ASSUME NEW c \in Services, NEW k \in Sessions, vm[c].state = "live", <<c, k>> \notin T
        PROVE  /\ Gives(vm[s], w, {}, <<c, k>>)
               /\ <<c, k>> \notin {}
               /\ ~(c = s /\ k \in {j}) => ~MailCarries(mail, to, <<c, k>>)
    BY <1>15, <1>19, <2>1
  <2>2. r = "done"
    BY DEF r
  <2> HIDE DEF T, call, j
  <2> QED BY <1>19, <1>20, <1>21, <2>1, <2>2 DEF Brings
<1>23. \A k \in Sessions \ {j} : WaitsOn(vm[s], w, k)
  <2>1. ASSUME NEW k \in Sessions \ {j}
        PROVE  WaitsOn(u, w, k)
    <3>1. k \in 0..MaxSession
      BY SessionAssumption DEF Sessions
    <3>2. w.lookup[k] = u.lookup[k]
      BY <1>1, <1>11, <3>1
    <3>3. Asks(u, k) => Asks(w, k) /\ k < u.next
      BY <1>1, <1>6, <1>9, <3>1, <3>2 DEF Asks
    <3>4. AwaitedV(w, k) => AwaitedV(u, k)
      BY <1>1, <1>9, <3>2 DEF AwaitedV
    <3> QED BY <1>1, <3>2, <3>3, <3>4 DEF WaitsOn
  <2> QED BY <2>1
<1>24. Kept(s, w)
  <2>1. JobKept(s, w)
    <3>1. ASSUME NEW b \in Thread
          PROVE  /\ w.job[b] \in {"free", "user", "quit"} => w.todo[b] = {}
                 /\ w.job[b] = "free" => w.from[b] = None
                 /\ w.job[b] # "user" => w.from[b] = None \/ w.session[b] = 0
                 /\ s # Root => /\ w.from[b] # None => w.session[b] # 0
                                /\ \A x \in w.todo[b] : x[2] # 0
      <4>1. CASE b = t
        BY <1>2, <1>10, <4>1
      <4>2. CASE b # t
        BY <1>1, <1>10, <4>2 DEF JobKept
      <4> QED BY <4>1, <4>2
    <3> QED BY <3>1 DEF JobKept
  <2>2. LookupKept(w)
    BY <1>1, <1>6, <1>9, <1>11 DEF LookupKept, Sessions
  <2>3. PostKept(s, w)
    BY <1>9 DEF PostKept
  <2> QED BY <2>1, <2>2, <2>3 DEF Kept
<1>25. Quiet(w, w) /\ {j} \in SUBSET Sessions /\ (w.state = "live" => vm[s].state = "live")
  BY <1>1, <1>11 DEF Quiet
<1> HIDE DEF to, T, j, call
<1>26. to \in Services /\ w \in VM /\ w.post = None /\ mail \in Message /\ Change(s, w, {})
  BY <1>1, <1>3, <1>9 DEF to, mail, w, a, t, v, call
<1> QED BY <1>1, <1>3, <1>17, <1>18, <1>22, <1>23, <1>24, <1>25, <1>26, MailAccount

(* ltask.error finds no room, and the service cannot wake a coroutine of its
   own: a service that was to tell it drops all that it has to tell. *)
LEMMA LaterFailedAccount ==
  ASSUME AccountInv, Inv', NEW s \in Services, Deliver(s),
         Told(s, Taken(vm[s]), vm[s].post, Receipt(vm[s].post.to)),
         vm[s].post.then = "later", Receipt(vm[s].post.to) # "done"
  PROVE  AccountInv'
<1> DEFINE u == vm[s]
           m == vm[s].post
           v == Taken(vm[s])
           t == v.run
           call == m.report
           drop == IF v.job[t] = "tell" THEN {call} \cup v.todo[t] ELSE {}
           w == Fail(v)
<1>1. /\ PostOK(s, u) /\ PostKept(s, u) /\ m # None /\ v \in VM /\ v.post = None
      /\ Settled(v) /\ ~aborted /\ Arrives(s)
      /\ v.run = u.run /\ v.next = u.next /\ v.lookup = u.lookup /\ v.sel = u.sel
      /\ v.job = u.job /\ v.todo = u.todo /\ v.from = u.from
      /\ v.session = u.session /\ v.state = u.state /\ Follows(u, v)
      /\ u.state = "live" /\ (u.run # None => Unlisted(v, u.run))
      /\ JobKept(s, v) /\ LookupKept(v)
  BY DeliverFacts
<1>2. /\ m.report \in Call /\ u.run \in Thread /\ m.report # None
      /\ u.job[u.run] \in {"tell", "quitting"}
  BY <1>1, NilAssumption DEF PostOK, PostKept
<1>3. Change(s, w, drop) /\ UNCHANGED <<timers, told>>
  BY <1>2 DEF Told
<1>4. t \in Thread /\ Unlisted(v, t)
  BY <1>1, <1>2, NilAssumption
<1>5. CASE u.job[u.run] = "quitting"
  <2>1. /\ Onward(s, v, w, {}) /\ PostKept(s, w)
        /\ (w.state # "live" => w.post = None)
    BY <1>1, <1>4, <1>5, FailOnward
  <2>2. Onward(s, u, v, {})
    BY <1>5, QuittingOnward
  <2>3. Onward(s, vm[s], w, {})
    BY <2>1, <2>2, OnwardTrans
  <2>4. Change(s, w, {})
    BY <1>1, <1>3, <1>5
  <2> QED BY <1>3, <2>1, <2>3, <2>4, NotArrived
<1>6. CASE u.job[u.run] = "tell"
  <2> DEFINE b == [v EXCEPT !.todo[t] = {}]
  <2>1. /\ b \in VM /\ Sheds(v, b, v.todo[t]) /\ Follows(v, b)
        /\ JobKept(s, b) /\ b.todo[t] = {} /\ b.post = None
        /\ b.lookup = v.lookup /\ b.next = v.next /\ b.sel = v.sel /\ b.state = v.state
        /\ b.run = v.run /\ b.job = v.job /\ b.from = v.from /\ b.session = v.session
        /\ Settled(b) /\ Unlisted(b, t)
    BY <1>1, <1>4, <1>6, ClearSheds
  <2>2. w = Fail(b)
    <3>1. v.todo \in [Thread -> SUBSET (Services \X ((0..MaxSession) \cup {Nil}))]
      BY <1>1, VMFields
    <3>2. InSelect(b) <=> InSelect(v)
      BY <2>1 DEF InSelect
    <3>3. Abandon(b) = [Abandon(v) EXCEPT !.todo[t] = {}]
      BY <1>1, <2>1, <3>2 DEF Abandon, VM
    <3>4. Finish(Abandon(b), t) = Finish(Abandon(v), t)
      <4>1. Abandon(v) \in VM
        BY <1>1, <1>4, AbandonOnward
      <4> DEFINE e == Abandon(v)
      <4> HIDE DEF e
      <4>2. Finish([e EXCEPT !.todo[t] = {}], t) = Finish(e, t)
        BY <4>1, ZenonT(60) DEF e, Finish, Create, VM
      <4> QED BY <3>3, <4>2 DEF e
    <3> HIDE DEF b
    <3> QED BY <2>1, <3>4 DEF Fail
  <2>3. \A x : PostAnswers(u, x) <=> x = call
    BY <1>1, <1>2, <1>6 DEF PostAnswers, PostCarries
  <2>4. Sheds(u, v, {call})
    <3>1. \A x : \A y \in Thread : /\ HeldBy(v, y, x) <=> HeldBy(u, y, x)
                                   /\ TodoBy(v, y, x) <=> TodoBy(u, y, x)
      BY <1>1 DEF HeldBy, TodoBy
    <3>2. \A x : ~PostAnswers(v, x)
      BY <1>1 DEF PostAnswers, PostCarries
    <3>3. \A x : \A h \in BOOLEAN : PostHas(u, x, h) <=> x = call
      BY <2>3 DEF PostHas
    <3> HIDE DEF v, call
    <3>4. \A x : \A h \in BOOLEAN : /\ HasV(v, x, h) => HasV(u, x, h)
                                    /\ HasV(u, x, h) => HasV(v, x, h) \/ x = call
                                    /\ x = call => HasV(u, x, h)
      BY <3>1, <3>2, <3>3 DEF HasV, PostHas
    <3>5. \A x : OnceV(u, x) => OnceV(v, x) /\ (x = call => ~HasV(v, x, TRUE))
      BY <2>3, <3>1, <3>2 DEF OnceV, HasV, PostHas
    <3> SUFFICES ASSUME NEW c \in Services, NEW k \in Sessions
                 PROVE  LET x == <<c, k>>
                        IN /\ x \notin told /\ OnceV(u, x) =>
                                /\ HasV(v, x, TRUE) => HasV(u, x, TRUE) /\ x \notin {call}
                                /\ HasV(u, x, TRUE) => HasV(v, x, TRUE) \/ x \in {call}
                                /\ x \in {call} => HasV(u, x, TRUE)
                                /\ OnceV(v, x)
                           /\ x \in told =>
                                (HasV(u, x, FALSE) => HasV(v, x, FALSE) \/ x \in {call})
      BY Zenon DEF Sheds
    <3> DEFINE x == <<c, k>>
    <3> HIDE DEF x
    <3>6. HasV(u, x, FALSE) => HasV(v, x, FALSE) \/ x \in {call}
      BY <3>4
    <3>7. OnceV(u, x) =>
            /\ HasV(v, x, TRUE) => HasV(u, x, TRUE) /\ x \notin {call}
            /\ HasV(u, x, TRUE) => HasV(v, x, TRUE) \/ x \in {call}
            /\ x \in {call} => HasV(u, x, TRUE)
            /\ OnceV(v, x)
      BY <3>4, <3>5
    <3> QED BY <3>6, <3>7 DEF x
  <2> HIDE DEF b, v, w, call
  <2>5. /\ Onward(s, b, w, {}) /\ PostKept(s, w)
        /\ (w.state # "live" => w.post = None)
    BY <1>1, <1>4, <2>1, <2>2, FailOnward
  <2>6. Sheds(b, w, {})
    BY <2>5, QuietSheds DEF Onward
  <2>7. Sheds(u, w, {call} \cup v.todo[t] \cup {})
    BY <2>1, <2>4, <2>6, ShedsTrans
  <2>8. {call} \cup v.todo[t] \cup {} = drop
    BY <1>1, <1>6
  <2>9. Sheds(u, w, drop)
    BY <2>7, <2>8
  <2>10. \A k \in Sessions : WaitsOn(u, w, k)
    <3>1. \A k \in Sessions : WaitsOn(b, w, k)
      BY <2>5 DEF Onward, WaitsOn, Follows
    <3>2. \A k \in Sessions : WaitsOn(u, b, k)
      BY <1>1, <2>1 DEF WaitsOn, Asks, AwaitedV
    <3> QED BY <3>1, <3>2 DEF WaitsOn
  <2>11. LookupKept(b)
    BY <1>1, <2>1 DEF LookupKept
  <2>12. Kept(s, w) /\ w \in VM
    BY <2>1, <2>5, <2>11 DEF Onward, Kept
  <2>13. UNCHANGED <<queue, timers, told>>
    BY <1>1, <1>3 DEF Arrives
  <2> HIDE DEF drop
  <2> QED BY <1>1, <1>3, <2>5, <2>9, <2>10, <2>12, <2>13, ShedsAccount
<1> QED BY <1>2, <1>5, <1>6

LEMMA FinishClears ==
  ASSUME NEW v \in VM, NEW t \in Thread
  PROVE  Finish([v EXCEPT !.todo[t] = {}], t) = Finish(v, t)
<1>1. v.todo \in [Thread -> SUBSET (Services \X ((0..MaxSession) \cup {Nil}))]
  BY VMFields
<1>2. [[v.todo EXCEPT ![t] = {}] EXCEPT ![t] = {}] = [v.todo EXCEPT ![t] = {}]
  BY <1>1
<1> QED BY <1>1, <1>2 DEF Finish, Create, VM

(* root is asked to tell the caller that an error was lost, and it does when
   its queue has room. *)
LEMMA ReportedAccount ==
  ASSUME AccountInv, Inv', NEW s \in Services, Deliver(s),
         Told(s, Taken(vm[s]), vm[s].post, Receipt(vm[s].post.to)),
         vm[s].post.then = "report"
  PROVE  AccountInv'
<1> DEFINE u == vm[s]
           m == vm[s].post
           to == m.to
           r == Receipt(vm[s].post.to)
           mail == Posted(s)
           v == Taken(vm[s])
           t == v.run
           call == m.report
           b == [v EXCEPT !.todo[t] = {}]
           w == End(v)
           x == Dispatch(Suspend(v, t))
<1>1. /\ PostOK(s, u) /\ PostKept(s, u) /\ m # None /\ v \in VM /\ v.post = None
      /\ Settled(v) /\ ~aborted /\ Arrives(s) /\ mail \in Message
      /\ v.run = u.run /\ v.next = u.next /\ v.lookup = u.lookup /\ v.sel = u.sel
      /\ v.job = u.job /\ v.todo = u.todo /\ v.from = u.from
      /\ v.session = u.session /\ v.state = u.state /\ Follows(u, v)
      /\ u.state = "live" /\ JobKept(s, v) /\ LookupKept(v)
  BY DeliverFacts
<1>2. /\ m.report \in Call /\ m.report # None /\ m.to = Root /\ m.type = "request"
      /\ m.session = 0 /\ u.run \in Thread /\ u.job[u.run] = "report"
      /\ u.todo[u.run] = {call}
  BY <1>1, NilAssumption DEF PostOK, PostKept
<1>3. /\ r = "block" => v.next <= MaxSession
      /\ Change(s, IF r = "block" THEN x ELSE w, IF r = "error" THEN {call} ELSE {})
      /\ timers' = (IF r = "block" THEN timers \cup {<<s, v.next>>} ELSE timers)
      /\ UNCHANGED <<told, aborted>>
  BY <1>2 DEF Told, SessionLeft
<1>4. t \in Thread /\ v.job[t] = "report" /\ v.todo[t] = {call}
  BY <1>1, <1>2
<1>5. Onward(s, u, v, {})
  BY TakenOnward
<1>6. r \in {"done", "error", "block"}
  BY DEF Receipt
<1>7. CASE r = "block"
  <2> HIDE DEF v, r, t
  <2>1. /\ Onward(s, v, x, {v.next}) /\ x.lookup[v.next] # None /\ x.post = None
        /\ v.next \in Sessions /\ ~Asks(v, v.next)
    BY <1>1, <1>3, <1>4, <1>7, SuspendRunOnward DEF t
  <2>2. Change(s, x, {}) /\ timers' = timers \cup {<<s, v.next>>} /\ UNCHANGED <<queue, told>>
    BY <1>1, <1>3, <1>7 DEF Arrives, r
  <2> HIDE DEF x
  <2>3. Onward(s, u, x, {v.next})
    BY <1>5, <2>1, OnwardMore, OnwardTrans
  <2> DEFINE F == {v.next}
  <2>4. \A k \in F : ~Asks(vm[s], k) /\ x.lookup[k] # None
    BY <1>1, <2>1 DEF Asks
  <2>5. timers' = timers \cup {<<s, k>> : k \in F} /\ F \in SUBSET Sessions
    BY <2>1, <2>2
  <2>6. PostKept(s, x)
    BY <2>1 DEF PostKept
  <2>7. Onward(s, vm[s], x, F)
    BY <2>3
  <2> HIDE DEF F
  <2> QED BY <1>1, <2>1, <2>2, <2>4, <2>5, <2>6, <2>7, QuietAccount
<1>8. /\ b \in VM /\ Sheds(v, b, {call}) /\ Follows(v, b) /\ JobKept(s, b)
      /\ b.todo[t] = {} /\ b.post = None /\ b.lookup = v.lookup /\ b.next = v.next
      /\ b.sel = v.sel /\ b.state = v.state /\ b.run = v.run /\ b.job = v.job
      /\ b.from = v.from /\ b.session = v.session
  BY <1>1, <1>4, ClearSheds, ZenonT(60)
<1>9. w = End(b)
  <2>1. v \in VM /\ t \in Thread
    BY <1>1, <1>2
  <2>2. Finish([v EXCEPT !.todo[t] = {}], t) = Finish(v, t)
    BY <2>1, FinishClears
  <2> QED BY <1>8, <2>2 DEF End
<1> HIDE DEF b, v, w, call, mail, r
<1>10. Sheds(u, b, {call})
  <2>1. Sheds(u, v, {})
    BY <1>5, QuietSheds DEF Onward
  <2>2. Sheds(u, b, {} \cup {call}) /\ {} \cup {call} = {call}
    BY <1>8, <2>1, ShedsTrans
  <2> QED BY <2>2
<1>11. Idle(b, t)
  BY <1>4, <1>8 DEF Idle, JobKept
<1>12. Onward(s, b, w, {}) /\ w.post = None
  BY <1>4, <1>8, <1>9, <1>11, EndOnward
<1>13. \A k \in Sessions : WaitsOn(u, w, k)
  <2>1. \A k \in Sessions : WaitsOn(b, w, k)
    BY <1>12 DEF Onward, WaitsOn, Follows
  <2>2. \A k \in Sessions : WaitsOn(u, b, k)
    BY <1>1, <1>8 DEF WaitsOn, Asks, AwaitedV
  <2> QED BY <2>1, <2>2 DEF WaitsOn
<1>14. LookupKept(b)
  BY <1>1, <1>8 DEF LookupKept
<1>15. Kept(s, w) /\ w \in VM /\ (w.state = "live" => vm[s].state = "live")
  BY <1>1, <1>8, <1>12, <1>14 DEF Onward, Kept, PostKept, Follows
<1>16. CASE r = "error"
  <2>1. Change(s, w, {call}) /\ UNCHANGED <<queue, timers, told>>
    BY <1>1, <1>3, <1>16 DEF Arrives, r
  <2>2. Sheds(b, w, {})
    BY <1>12, QuietSheds DEF Onward
  <2>3. Sheds(u, w, {call} \cup {}) /\ {call} \cup {} = {call}
    BY <1>10, <2>2, ShedsTrans
  <2>4. Sheds(u, w, {call})
    BY <2>3
  <2> QED BY <1>1, <1>12, <1>13, <1>15, <2>1, <2>4, ShedsAccount
<1>17. CASE r = "done"
  <2>1. Change(s, w, {}) /\ UNCHANGED timers /\ told' = told \cup {}
    BY <1>3, <1>17
  <2>2. queue' = IF r = "done" THEN [queue EXCEPT ![to] = Append(@, mail)] ELSE queue
    BY <1>1 DEF Arrives, mail, r
  <2>3. LetterOK(to, mail)
    BY LetterKept DEF mail
  <2>4. mail.report = call /\ mail.report # None
    BY <1>2 DEF mail, Posted, call
  <2>5. \A y : /\ MailCarries(mail, to, y) <=> y \in {call}
               /\ y \in {call} => MailHas(mail, to, y, FALSE)
    BY <2>4 DEF MailCarries, MailHas
  <2>6. \A c \in Services, k \in Sessions : Gives(u, b, {call}, <<c, k>>)
    BY <1>10, ShedsGives
  <2>7. Brings(s, to, mail, r, b, w, {call}, {}, {})
    <3>1. ASSUME NEW c \in Services, NEW k \in Sessions
          PROVE  /\ Gives(vm[s], b, {call}, <<c, k>>)
                 /\ MailCarries(mail, to, <<c, k>>) <=> <<c, k>> \in {call}
                 /\ <<c, k>> \in {call} => MailHas(mail, to, <<c, k>>, FALSE)
      BY <2>5, <2>6
    <3> QED BY <1>17, <3>1 DEF Brings
  <2>8. Quiet(b, w) /\ {} \in SUBSET Sessions /\ to \in Services
    BY <1>2, <1>12 DEF Onward, Services
  <2>9. \A k \in Sessions \ {} : WaitsOn(vm[s], w, k)
    BY <1>13
  <2> HIDE DEF to
  <2> QED BY <1>1, <1>12, <1>15, <2>1, <2>2, <2>3, <2>7, <2>8, <2>9, MailAccount
<1> QED BY <1>6, <1>7, <1>16, <1>17

LEMMA DeliverAccount ==
  ASSUME AccountInv, Inv', NEW s \in Services, Deliver(s)
  PROVE  AccountInv'
<1> DEFINE m == vm[s].post
           r == Receipt(vm[s].post.to)
<1>1. CASE Sent(s, Taken(vm[s]), m, r) /\ UNCHANGED <<timers, told, aborted>>
  BY <1>1, SentAccount
<1>2. CASE Told(s, Taken(vm[s]), m, r)
  <2>1. m.then \in {"raised", "tell", "later", "report"}
    BY <1>2 DEF Told
  <2>2. CASE m.then = "raised"
    BY <1>2, <2>2, RaisedAccount
  <2>3. CASE m.then = "tell"
    BY <1>2, <2>3, TellBlockAccount, TellGoneAccount
  <2>4. CASE m.then = "later"
    BY <1>2, <2>4, LaterDoneAccount, LaterFailedAccount
  <2>5. CASE m.then = "report"
    BY <1>2, <2>5, ReportedAccount
  <2> QED BY <2>1, <2>2, <2>3, <2>4, <2>5
<1> QED BY <1>1, <1>2, DeliverFacts

-----------------------------------------------------------------------------
(* A message is taken.                                                     *)

LEMMA TailHas ==
  ASSUME NEW S, NEW q \in Seq(S), q # <<>>, NEW to, NEW call
  PROVE  /\ \A h \in BOOLEAN : HasQ(q, to, call, h) <=>
                                 MailHas(Head(q), to, call, h) \/ HasQ(Tail(q), to, call, h)
         /\ OnceQ(q, to, call) =>
              /\ OnceQ(Tail(q), to, call)
              /\ MailCarries(Head(q), to, call) => ~HasQ(Tail(q), to, call, TRUE)
<1> DEFINE r == Tail(q)
<1>1. /\ q[1] = Head(q) /\ 1 \in DOMAIN q
      /\ \A i \in DOMAIN r : i + 1 \in DOMAIN q /\ r[i] = q[i + 1] /\ i \in Nat \ {0}
      /\ \A i \in DOMAIN q : i = 1 \/ (i - 1 \in DOMAIN r /\ r[i - 1] = q[i])
  OBVIOUS
<1> HIDE DEF r
<1>2. ASSUME NEW h \in BOOLEAN
      PROVE  HasQ(q, to, call, h) <=> MailHas(Head(q), to, call, h) \/ HasQ(r, to, call, h)
  BY <1>1 DEF HasQ
<1>3. ASSUME OnceQ(q, to, call)
      PROVE  /\ OnceQ(r, to, call)
             /\ MailCarries(Head(q), to, call) => ~HasQ(r, to, call, TRUE)
  <2>1. ASSUME NEW i \in DOMAIN r, NEW j \in DOMAIN r,
               MailCarries(r[i], to, call), MailCarries(r[j], to, call)
        PROVE  i = j
    <3>1. i + 1 = j + 1
      BY <1>1, <1>3, <2>1 DEF OnceQ
    <3> QED BY <1>1, <3>1
  <2>2. ASSUME NEW i \in DOMAIN r, MailCarries(r[i], to, call), MailCarries(Head(q), to, call)
        PROVE  FALSE
    <3>1. i + 1 = 1
      BY <1>1, <1>3, <2>2 DEF OnceQ
    <3> QED BY <1>1, <3>1
  <2> QED BY <2>1, <2>2 DEF OnceQ, HasQ, MailHas
<1> QED BY <1>2, <1>3 DEF r

(* From v to w the service takes mail m, and the answer it brings. *)
Gains(v, w, m, s, D, call) ==
  /\ call \notin told /\ OnceV(v, call)
     /\ ~(MailCarries(m, s, call) /\ HasV(v, call, TRUE)) =>
       /\ HasV(w, call, TRUE) => (HasV(v, call, TRUE) \/ MailCarries(m, s, call)) /\ call \notin D
       /\ HasV(v, call, TRUE) \/ MailCarries(m, s, call) => HasV(w, call, TRUE) \/ call \in D
       /\ call \in D => HasV(v, call, TRUE) \/ MailCarries(m, s, call)
       /\ OnceV(w, call)
  /\ call \in told =>
       (HasV(v, call, FALSE) \/ MailHas(m, s, call, FALSE)
          => HasV(w, call, FALSE) \/ call \in D)

LEMMA TakesOne ==
  ASSUME AccountInv, ~aborted, NEW s \in Services, queue[s] # <<>>, NEW D,
         lost' = lost \cup D, UNCHANGED <<timers, told>>,
         queue' = [queue EXCEPT ![s] = Tail(@)],
         \A x \in Services : x # s => vm'[x] = vm[x],
         NEW c \in Services, NEW k \in Sessions, vm'[c].state = "live",
         WaitsOn(vm[c], vm'[c], k),
         Gains(vm[s], vm'[s], Head(queue[s]), s, D, <<c, k>>)
  PROVE  Account(c, k)'
<1> DEFINE call == <<c, k>>
           m == Head(queue[s])
           x == <<s, "vm">>
           y == <<s, "queue">>
<1>1. vm[c].state = "live" /\ x \in Sites /\ y \in Sites /\ x # y
  BY DEF Sites, WaitsOn
<1>2. /\ queue \in [Services -> Seq(Message)] /\ queue[s] \in Seq(Message)
      /\ \A r \in Services : queue'[r] = IF r = s THEN Tail(queue[s]) ELSE queue[r]
  BY DEF AccountInv, Inv, TypeOK
<1>3. /\ \A h \in BOOLEAN : HasQ(queue[s], s, call, h) <=>
                              MailHas(m, s, call, h) \/ HasQ(queue'[s], s, call, h)
      /\ OnceQ(queue[s], s, call) =>
           /\ OnceQ(queue'[s], s, call)
           /\ MailCarries(m, s, call) => ~HasQ(queue'[s], s, call, TRUE)
  <2>1. queue'[s] = Tail(queue[s])
    BY <1>2
  <2>2. /\ \A h \in BOOLEAN : HasQ(queue[s], s, call, h) <=>
                                MailHas(m, s, call, h) \/ HasQ(Tail(queue[s]), s, call, h)
        /\ OnceQ(queue[s], s, call) =>
             /\ OnceQ(Tail(queue[s]), s, call)
             /\ MailCarries(m, s, call) => ~HasQ(Tail(queue[s]), s, call, TRUE)
    BY <1>2, TailHas
  <2> QED BY <2>1, <2>2
<1>4. \A h \in BOOLEAN : /\ At(x, call, h)' <=> HasV(vm'[s], call, h)
                         /\ At(x, call, h) <=> HasV(vm[s], call, h)
                         /\ At(y, call, h)' <=> HasQ(queue'[s], s, call, h)
                         /\ At(y, call, h) <=> HasQ(queue[s], s, call, h)
  BY DEF At
<1>5. \A z \in Sites \ {x, y}, h \in BOOLEAN : At(z, call, h)' <=> At(z, call, h)
  <2> SUFFICES ASSUME NEW z \in Sites \ {x, y}, NEW h \in BOOLEAN
               PROVE  At(z, call, h)' <=> At(z, call, h)
    OBVIOUS
  <2>1. \/ z[2] = "vm" /\ vm'[z[1]] = vm[z[1]]
        \/ z[2] = "queue" /\ queue'[z[1]] = queue[z[1]]
        \/ z[2] = "timer"
    BY <1>2, SiteOf
  <2> QED BY <2>1, SameSite
<1>6. call \in told' <=> call \in told
  OBVIOUS
<1>7. MailHas(m, s, call, TRUE) <=> MailCarries(m, s, call)
  BY DEF MailHas
<1>8. lost \subseteq lost' /\ (call \in lost' <=> call \in lost \/ call \in D)
  OBVIOUS
<1> HIDE DEF m, x, y
<1>9. CASE call \notin told
  <2>1. Once(call) /\ \A r \in Services : OnceV(vm[r], call) /\ OnceQ(queue[r], r, call)
    BY <1>1, <1>9, LiveOnce
  <2>2. ~(HasV(vm[s], call, TRUE) /\ HasQ(queue[s], s, call, TRUE))
    BY <1>1, <1>4, <2>1 DEF Once
  <2>3. ~(MailCarries(m, s, call) /\ HasV(vm[s], call, TRUE))
    BY <1>3, <1>7, <2>2
  <2>4. /\ HasV(vm'[s], call, TRUE) => (HasV(vm[s], call, TRUE) \/ MailCarries(m, s, call)) /\ call \notin D
        /\ HasV(vm[s], call, TRUE) \/ MailCarries(m, s, call) => HasV(vm'[s], call, TRUE) \/ call \in D
        /\ call \in D => HasV(vm[s], call, TRUE) \/ MailCarries(m, s, call)
        /\ OnceV(vm'[s], call)
    BY <1>9, <2>1, <2>3 DEF Gains, m
  <2>5. MailCarries(m, s, call) => ~HasQ(queue'[s], s, call, TRUE)
    BY <1>3, <2>1
  <2>6. (call \notin told) = TRUE
    BY <1>9
  <2>7. /\ At(x, call, TRUE)' \/ At(y, call, TRUE)' => At(x, call, TRUE) \/ At(y, call, TRUE)
        /\ At(x, call, TRUE)' /\ At(y, call, TRUE)' =>
             x = y \/ (At(x, call, TRUE) /\ At(y, call, TRUE))
        /\ call \in lost' \ lost =>
             /\ At(x, call, TRUE) \/ At(y, call, TRUE)
             /\ ~At(x, call, TRUE)' /\ ~At(y, call, TRUE)'
        /\ At(x, call, TRUE) \/ At(y, call, TRUE) =>
             At(x, call, TRUE)' \/ At(y, call, TRUE)' \/ call \in lost'
    BY <1>3, <1>4, <1>7, <1>8, <2>2, <2>4, <2>5
  <2>8. Steps(call, x, y)
    BY <1>5, <1>9, <2>6, <2>7 DEF Steps
  <2>9. \A r \in Services : OnceV(vm'[r], call) /\ OnceQ(queue'[r], r, call)
    BY <1>2, <1>3, <2>1, <2>4
  <2> QED BY <1>1, <1>6, <1>8, <2>8, <2>9, Flow
<1>10. CASE call \in told
  <2>1. HasV(vm[s], call, FALSE) \/ MailHas(m, s, call, FALSE) => HasV(vm'[s], call, FALSE) \/ call \in D
    BY <1>10 DEF Gains, m
  <2>2. (call \notin told) = FALSE
    BY <1>10
  <2>3. At(x, call, FALSE) \/ At(y, call, FALSE) =>
          At(x, call, FALSE)' \/ At(y, call, FALSE)' \/ call \in lost'
    BY <1>3, <1>4, <1>8, <2>1
  <2>4. Steps(call, x, y)
    BY <1>5, <1>10, <2>2, <2>3 DEF Steps
  <2> QED BY <1>1, <1>6, <1>8, <1>10, <2>4, Flow
<1> QED BY <1>9, <1>10

(* The mail is the answer that a coroutine of s waits for. *)
LEMMA TakesAnswer ==
  ASSUME AccountInv, ~aborted, NEW s \in Services, queue[s] # <<>>,
         UNCHANGED <<timers, told>>, queue' = [queue EXCEPT ![s] = Tail(@)],
         \A x \in Services : x # s => vm'[x] = vm[x],
         NEW D, Sheds(vm[s], vm'[s], D), NEW k \in Sessions,
         MailCarries(Head(queue[s]), s, <<s, k>>),
         vm[s].state = "live", vm'[s].lookup[k] = None
  PROVE  Account(s, k)'
<1> DEFINE call == <<s, k>>
           x == <<s, "vm">>
           y == <<s, "queue">>
<1>1. /\ queue \in [Services -> Seq(Message)] /\ queue[s] \in Seq(Message)
      /\ \A r \in Services : queue'[r] = IF r = s THEN Tail(queue[s]) ELSE queue[r]
  BY DEF AccountInv, Inv, TypeOK
<1>2. /\ HasQ(queue[s], s, call, TRUE) <=>
           MailHas(Head(queue[s]), s, call, TRUE) \/ HasQ(queue'[s], s, call, TRUE)
      /\ OnceQ(queue[s], s, call) =>
           /\ OnceQ(queue'[s], s, call)
           /\ ~HasQ(queue'[s], s, call, TRUE)
  BY <1>1, TailHas
<1>3. HasQ(queue[s], s, call, TRUE) /\ x \in Sites /\ y \in Sites /\ x # y
  BY <1>2 DEF MailHas, Sites
<1>4. ASSUME call \notin told'
      PROVE  Once(call)' /\ ~Has(call, TRUE)'
  <2>1. Once(call) /\ \A r \in Services : OnceV(vm[r], call) /\ OnceQ(queue[r], r, call)
    BY <1>4, LiveOnce
  <2>2. At(y, call, TRUE)
    BY <1>3 DEF At
  <2>3. \A z \in Sites : z # y => ~At(z, call, TRUE)
    BY <1>3, <2>1, <2>2 DEF Once
  <2>4. ~HasV(vm[s], call, TRUE)
    BY <1>3, <2>3, AtSite
  <2>5. ~HasV(vm'[s], call, TRUE) /\ OnceV(vm'[s], call)
    BY <1>4, <2>1, <2>4 DEF Sheds
  <2>6. ~HasQ(queue'[s], s, call, TRUE) /\ OnceQ(queue'[s], s, call)
    BY <1>2, <2>1
  <2>7. ASSUME NEW z \in Sites
        PROVE  ~At(z, call, TRUE)'
    <3>0. /\ At(x, call, TRUE)' <=> HasV(vm'[s], call, TRUE)
          /\ At(y, call, TRUE)' <=> HasQ(queue'[s], s, call, TRUE)
      BY DEF At
    <3>1. CASE z = x \/ z = y
      <4> HIDE DEF x, y, call
      <4> QED BY <2>5, <2>6, <3>0, <3>1
    <3>2. CASE z # x /\ z # y
      <4>1. \/ z[2] = "vm" /\ vm'[z[1]] = vm[z[1]]
            \/ z[2] = "queue" /\ queue'[z[1]] = queue[z[1]]
            \/ z[2] = "timer"
        BY <1>1, <3>2, SiteOf
      <4>2. At(z, call, TRUE)' <=> At(z, call, TRUE)
        BY <4>1, SameSite
      <4> QED BY <2>3, <3>2, <4>2
    <3> QED BY <3>1, <3>2
  <2>8. \A r \in Services : OnceV(vm'[r], call) /\ OnceQ(queue'[r], r, call)
    BY <1>1, <2>1, <2>5, <2>6
  <2> QED BY <2>7, <2>8 DEF Once, Has
<1> HIDE DEF call
<1>5. None \notin Thread \cup {Select}
  BY NilAssumption
<1> QED BY <1>4, <1>5, Answers DEF call

(* The rest of the queue is as it was. *)
LEMMA TakenLetters ==
  ASSUME AccountInv, NEW s \in Services, queue[s] # <<>>,
         queue' = [queue EXCEPT ![s] = Tail(@)]
  PROVE  Letters'
<1>1. queue \in [Services -> Seq(Message)] /\ queue[s] \in Seq(Message)
  BY DEF AccountInv, Inv, TypeOK
<1>2. \A i \in DOMAIN Tail(queue[s]) : i + 1 \in DOMAIN queue[s] /\ Tail(queue[s])[i] = queue[s][i + 1]
  BY <1>1, TailElements
<1>3. \A r \in Services : queue'[r] = IF r = s THEN Tail(queue[s]) ELSE queue[r]
  BY <1>1
<1> QED BY <1>2, <1>3 DEF AccountInv, Letters

LEMMA HeadLetter ==
  ASSUME AccountInv, NEW s \in Services, queue[s] # <<>>
  PROVE  /\ Head(queue[s]) \in Message /\ LetterOK(s, Head(queue[s]))
         /\ 1 \in DOMAIN queue[s] /\ queue[s][1] = Head(queue[s])
<1>1. queue[s] \in Seq(Message)
  BY DEF AccountInv, Inv, TypeOK
<1>2. Head(queue[s]) \in Message /\ 1 \in DOMAIN queue[s] /\ queue[s][1] = Head(queue[s])
  BY <1>1, TailElements
<1> QED BY <1>2 DEF AccountInv, Letters

(* What a coroutine that begins with a request or with errors to send adds to
   its service, from v to w. *)
Began(s, v, w, from, session, todo) ==
  /\ w \in VM /\ w.post = None /\ w.lookup = v.lookup /\ w.next = v.next
  /\ w.sel = v.sel /\ w.state = v.state /\ JobKept(s, w)
  /\ \A c \in Services, k \in Sessions :
       LET call == <<c, k>>
           new == call = <<from, session>> \/ call \in todo
       IN /\ HasV(w, call, TRUE) <=> HasV(v, call, TRUE) \/ new
          /\ HasV(v, call, FALSE) \/ call \in todo => HasV(w, call, FALSE)
          /\ ~(call = <<from, session>> /\ call \in todo) /\ OnceV(v, call)
             /\ ~(new /\ HasV(v, call, TRUE)) => OnceV(w, call)
BeginOK(s, job, from, session, todo) ==
  /\ job = "user" => todo = {}
  /\ job = "tell" => from = None \/ session = 0
  /\ s # Root => (from # None => session # 0) /\ \A call \in todo : call[2] # 0
(* The message m of s turns into that. *)
TurnsInto(m, s, from, session, todo) ==
  \A c \in Services, k \in Sessions :
    /\ MailCarries(m, s, <<c, k>>) <=>
         <<c, k>> = <<from, session>> \/ <<c, k>> \in todo
    /\ ~(<<c, k>> = <<from, session>> /\ <<c, k>> \in todo)
    /\ MailHas(m, s, <<c, k>>, FALSE) => <<c, k>> \in todo

LEMMA CreatedFields ==
  ASSUME NEW v \in VM, NEW t \in Thread, NEW job \in Job,
         NEW from \in Services \cup {None},
         NEW session \in (0..MaxSession) \cup {Nil},
         NEW todo \in SUBSET (Services \X ((0..MaxSession) \cup {Nil})),
         NEW a, a = Create(v, t, job, from, session, todo)
  PROVE  /\ a \in VM /\ a.job = [v.job EXCEPT ![t] = job]
         /\ a.from = [v.from EXCEPT ![t] = from]
         /\ a.session = [v.session EXCEPT ![t] = session]
         /\ a.todo = [v.todo EXCEPT ![t] = todo]
         /\ a.lookup = v.lookup /\ a.next = v.next /\ a.sel = v.sel
         /\ a.post = v.post /\ a.state = v.state
BY DEF Create, VM

(* What a coroutine that begins changes. *)
LEMMA BeginFacts ==
  ASSUME NEW s, NEW v \in VM, v.post = None, FreeThreads(v) # {}, JobKept(s, v),
         NEW job \in {"user", "tell"}, NEW from \in Services \cup {None},
         NEW session \in (0..MaxSession) \cup {Nil}, NEW todo \in SUBSET Call,
         BeginOK(s, job, from, session, todo)
  PROVE  Began(s, v, Begin(v, job, from, session, todo), from, session, todo)
<1> DEFINE t == NewThread(v)
           a == Create(v, t, job, from, session, todo)
           w == Begin(v, job, from, session, todo)
<1>1. t \in Thread /\ v.job[t] = "free" /\ Idle(v, t) /\ v.from[t] = None /\ v.todo[t] = {}
  BY NewThreadFree, FreeIdle DEF JobKept
<1>2. /\ job \in Job
      /\ todo \in SUBSET (Services \X ((0..MaxSession) \cup {Nil}))
  BY DEF Job, Call
<1> HIDE DEF t
<1>3. /\ a \in VM /\ a.job = [v.job EXCEPT ![t] = job]
      /\ a.from = [v.from EXCEPT ![t] = from]
      /\ a.session = [v.session EXCEPT ![t] = session]
      /\ a.todo = [v.todo EXCEPT ![t] = todo]
      /\ a.lookup = v.lookup /\ a.next = v.next /\ a.sel = v.sel
      /\ a.post = v.post /\ a.state = v.state
  <2>1. /\ t \in Thread /\ job \in Job
        /\ todo \in SUBSET (Services \X ((0..MaxSession) \cup {Nil}))
    BY <1>1, <1>2
  <2>2. a = Create(v, t, job, from, session, todo)
    OBVIOUS
  <2> HIDE DEF a
  <2> QED BY <2>1, <2>2, CreatedFields, SMTT(60)
<1>4. w = [a EXCEPT !.run = t]
  BY DEF Begin, t
<1> HIDE DEF a, w
<1>5. /\ w \in VM /\ w.lookup = v.lookup /\ w.next = v.next /\ w.sel = v.sel
      /\ w.post = None /\ w.state = v.state
      /\ w.job = [v.job EXCEPT ![t] = job] /\ w.from = [v.from EXCEPT ![t] = from]
      /\ w.session = [v.session EXCEPT ![t] = session]
      /\ w.todo = [v.todo EXCEPT ![t] = todo]
  BY <1>1, <1>3, <1>4 DEF VM
<1>6. /\ v.job \in [Thread -> Job]
      /\ v.from \in [Thread -> Services \cup {None}]
      /\ v.session \in [Thread -> (0..MaxSession) \cup {Nil}]
      /\ v.todo \in [Thread -> SUBSET (Services \X ((0..MaxSession) \cup {Nil}))]
  BY VMFields
<1>7. /\ w.job[t] = job /\ w.from[t] = from /\ w.session[t] = session /\ w.todo[t] = todo
      /\ \A u \in Thread : u # t => w.job[u] = v.job[u] /\ w.from[u] = v.from[u]
                             /\ w.session[u] = v.session[u] /\ w.todo[u] = v.todo[u]
  BY <1>1, <1>5, <1>6
<1>8. JobKept(s, w)
  <2>1. ASSUME NEW b \in Thread
        PROVE  /\ w.job[b] \in {"free", "user", "quit"} => w.todo[b] = {}
               /\ w.job[b] = "free" => w.from[b] = None
               /\ w.job[b] # "user" => w.from[b] = None \/ w.session[b] = 0
               /\ s # Root => /\ w.from[b] # None => w.session[b] # 0
                              /\ \A x \in w.todo[b] : x[2] # 0
    <3>1. CASE b = t
      BY <1>7, <3>1 DEF BeginOK
    <3>2. CASE b # t
      BY <1>7, <3>2 DEF JobKept
    <3> QED BY <3>1, <3>2
  <2> QED BY <2>1 DEF JobKept
<1>9. ASSUME NEW c \in Services, NEW k \in Sessions
      PROVE  LET call == <<c, k>>
                 new == call = <<from, session>> \/ call \in todo
             IN /\ HasV(w, call, TRUE) <=> HasV(v, call, TRUE) \/ new
                /\ HasV(v, call, FALSE) \/ call \in todo => HasV(w, call, FALSE)
                /\ ~(call = <<from, session>> /\ call \in todo) /\ OnceV(v, call)
                   /\ ~(new /\ HasV(v, call, TRUE)) => OnceV(w, call)
  <2> DEFINE call == <<c, k>>
             held == call = <<from, session>>
             list == call \in todo
  <2>1. \A u \in Thread : /\ HeldBy(w, u, call) <=> (u # t /\ HeldBy(v, u, call)) \/ (u = t /\ held)
                          /\ TodoBy(w, u, call) <=> (u # t /\ TodoBy(v, u, call)) \/ (u = t /\ list)
    <3>1. ASSUME NEW u \in Thread
          PROVE  /\ HeldBy(w, u, call) <=> (u # t /\ HeldBy(v, u, call)) \/ (u = t /\ held)
                 /\ TodoBy(w, u, call) <=> (u # t /\ TodoBy(v, u, call)) \/ (u = t /\ list)
      BY <1>7 DEF HeldBy, TodoBy
    <3> QED BY <3>1
  <2>2. ~HeldBy(v, t, call) /\ ~TodoBy(v, t, call)
    BY <1>1, NilAssumption DEF HeldBy, TodoBy
  <2>3. ~PostAnswers(v, call) /\ ~PostAnswers(w, call)
    BY <1>5 DEF PostAnswers, PostCarries
  <2> HIDE DEF call, held, list
  <2>4. HasV(w, call, TRUE) <=> HasV(v, call, TRUE) \/ held \/ list
    BY <1>1, <2>1, <2>2, <2>3 DEF HasV, PostHas
  <2>5. HasV(v, call, FALSE) \/ list => HasV(w, call, FALSE)
    BY <1>1, <2>1, <2>2, <2>3 DEF HasV, PostHas
  <2>6. ASSUME ~(held /\ list), OnceV(v, call), ~((held \/ list) /\ HasV(v, call, TRUE))
        PROVE  OnceV(w, call)
    <3>1. held \/ list => \A u \in Thread : ~HeldBy(v, u, call) /\ ~TodoBy(v, u, call)
      BY <2>6 DEF HasV
    <3> QED BY <2>1, <2>2, <2>3, <2>6, <3>1 DEF OnceV
  <2> QED BY <2>4, <2>5, <2>6 DEF call, held, list
<1> QED BY <1>5, <1>8, <1>9 DEF w, Began

LEMMA BegunAccount ==
  ASSUME AccountInv, Inv', NEW s \in Services, Ready(s), FreeThreads(vm[s]) # {},
         NEW job \in {"user", "tell"}, NEW from \in Services \cup {None},
         NEW session \in (0..MaxSession) \cup {Nil}, NEW todo \in SUBSET Call,
         BeginOK(s, job, from, session, todo),
         TurnsInto(Head(queue[s]), s, from, session, todo),
         Change(s, Begin(vm[s], job, from, session, todo), {}),
         queue' = [queue EXCEPT ![s] = Tail(@)], UNCHANGED <<timers, told>>
  PROVE  AccountInv'
<1> DEFINE v == vm[s]
           m == Head(queue[s])
           w == Begin(vm[s], job, from, session, todo)
<1>1. /\ ~aborted /\ queue[s] # <<>> /\ v.state = "live" /\ v.post = None
      /\ v \in VM /\ JobKept(s, v) /\ LookupKept(v) /\ vm \in [Services -> VM]
  BY AccountFacts DEF Ready
<1>2. Began(s, v, w, from, session, todo)
  <2>1. v \in VM /\ v.post = None /\ FreeThreads(v) # {} /\ JobKept(s, v)
    BY <1>1
  <2>2. /\ vm[s] \in VM /\ vm[s].post = None /\ FreeThreads(vm[s]) # {} /\ JobKept(s, vm[s])
        /\ job \in {"user", "tell"} /\ BeginOK(s, job, from, session, todo)
    BY <2>1
  <2> QED BY ONLY <2>2, BeginFacts, s \in Services, from \in Services \cup {None}, session \in (0..MaxSession) \cup {Nil}, todo \in SUBSET Call
<1> HIDE DEF w
<1>3. \A c \in Services, k \in Sessions : Gains(v, w, m, s, {}, <<c, k>>)
  <2> SUFFICES ASSUME NEW c \in Services, NEW k \in Sessions
               PROVE  Gains(v, w, m, s, {}, <<c, k>>)
    OBVIOUS
  <2> DEFINE call == <<c, k>>
             new == call = <<from, session>> \/ call \in todo
  <2>1. /\ HasV(w, call, TRUE) <=> HasV(v, call, TRUE) \/ new
        /\ HasV(v, call, FALSE) \/ call \in todo => HasV(w, call, FALSE)
        /\ ~(call = <<from, session>> /\ call \in todo) /\ OnceV(v, call)
           /\ ~(new /\ HasV(v, call, TRUE)) => OnceV(w, call)
    BY <1>2 DEF Began
  <2>2. /\ MailCarries(m, s, call) <=> new
        /\ ~(call = <<from, session>> /\ call \in todo)
        /\ MailHas(m, s, call, FALSE) => call \in todo
    BY DEF TurnsInto
  <2> HIDE DEF m, v, new, call
  <2> QED BY <2>1, <2>2 DEF Gains, call
<1>4. /\ vm'[s] = w /\ lost' = lost \cup {}
      /\ \A x \in Services : x # s => vm'[x] = vm[x]
      /\ vm'[s] = IF w.state = "live" THEN w ELSE EmptyVM("dead")
  <2>1. Change(s, w, {})
    BY DEF w
  <2> QED BY <1>1, <1>2, <2>1 DEF Change, Began
<1>5. \A c \in Services, k \in Sessions : WaitsOn(vm[c], vm'[c], k) /\ (Asks(vm[c], k) => Asks(vm'[c], k))
  <2>1. \A k \in Sessions : WaitsOn(v, w, k) /\ (Asks(v, k) => Asks(w, k))
    BY <1>2 DEF WaitsOn, Asks, AwaitedV, Began
  <2> QED BY <1>4, <2>1 DEF WaitsOn
<1>6. Accounts'
  <2>1. ASSUME NEW c \in Services, NEW k \in Sessions, vm'[c].state = "live"
        PROVE  Account(c, k)'
    <3>1. Gains(vm[s], vm'[s], Head(queue[s]), s, {}, <<c, k>>)
      BY <1>3, <1>4
    <3>2. lost' = lost \cup {} /\ (\A x \in Services : x # s => vm'[x] = vm[x])
          /\ WaitsOn(vm[c], vm'[c], k)
      BY <1>4, <1>5
    <3> QED BY <1>1, <2>1, <3>1, <3>2, TakesOne
  <2> QED BY <2>1 DEF Accounts
<1>7. Past'
  <2>1. ASSUME NEW c \in Services, NEW k \in Sessions, vm'[c].state = "live"
        PROVE  /\ vm[c].state = "live" /\ (Asks(vm[c], k) => Asks(vm'[c], k))
               /\ <<c, k>> \in lost' \cup told' =>
                    <<c, k>> \in lost \cup told \/ Due(<<c, k>>)
    BY <1>1, <1>4, <1>5, <2>1
  <2> QED BY <1>1, <2>1, PastDue
<1>8. Letters'
  BY <1>1, TakenLetters
<1>9. Kept(s, w)
  BY <1>1, <1>2 DEF Kept, PostKept, LookupKept, Began
<1>10. \A x \in Services : Kept(x, vm'[x]) /\ Emptied(vm'[x])
  BY <1>4, <1>9, ServiceKept
<1> QED BY <1>6, <1>7, <1>8, <1>10 DEF AccountInv

LEMMA RecvRequestAccount ==
  ASSUME AccountInv, Inv', NEW s \in Services, RecvRequest(s)
  PROVE  AccountInv'
<1> DEFINE v == vm[s]
           m == Head(queue[s])
<1>1. /\ Ready(s) /\ m.type = "request" /\ FreeThreads(v) # {}
      /\ \/ s # Root /\ Change(s, Begin(v, "user", m.from, m.session, {}), {})
         \/ s # Root /\ Change(s, Begin(v, "tell", None, Nil, {<<m.from, m.session>>}), {})
         \/ s = Root /\ Change(s, Begin(v, "tell", m.from, m.session, {m.report}), {})
      /\ queue' = [queue EXCEPT ![s] = Tail(@)]
      /\ UNCHANGED <<timers, told, aborted>>
  BY DEF RecvRequest, Begin
<1>2. /\ m \in Message /\ LetterOK(s, m)
  BY <1>1, HeadLetter DEF Ready
<1>3. m.from \in Services /\ m.session \in 0..MaxSession
  BY <1>2 DEF Message
<1>4. IF s = Root THEN m.report \in Call /\ m.session = 0 /\ m.report # None
      ELSE m.report = None /\ m.session # 0
  BY <1>1, <1>2, NilAssumption DEF LetterOK
<1>5. \A x : MailCarries(m, s, x) <=> IF s = Root THEN x = m.report ELSE x = <<m.from, m.session>>
  BY <1>1, <1>4 DEF MailCarries
<1>6. \A x : MailHas(m, s, x, FALSE) => s = Root /\ x = m.report
  BY <1>1, <1>4, <1>5 DEF MailHas
<1> HIDE DEF m
<1>7. CASE s # Root /\ Change(s, Begin(v, "user", m.from, m.session, {}), {})
  <2>1. TurnsInto(m, s, m.from, m.session, {})
    BY <1>5, <1>6, <1>7 DEF TurnsInto
  <2>2. /\ {} \in SUBSET Call /\ m.from \in Services \cup {None}
        /\ m.session \in (0..MaxSession) \cup {Nil}
    BY <1>3
  <2>3. BeginOK(s, "user", m.from, m.session, {})
    BY <1>3, <1>4, <1>7 DEF BeginOK
  <2>4. TurnsInto(Head(queue[s]), s, m.from, m.session, {})
    BY <2>1 DEF m
  <2> QED BY <1>1, <1>7, <2>2, <2>3, <2>4, BegunAccount
<1>8. CASE s # Root /\ Change(s, Begin(v, "tell", None, Nil, {<<m.from, m.session>>}), {})
  <2> DEFINE todo == {<<m.from, m.session>>}
  <2>1. TurnsInto(m, s, None, Nil, todo)
    BY <1>5, <1>6, <1>8, NilAssumption DEF TurnsInto
  <2>2. todo \in SUBSET Call /\ None \in Services \cup {None} /\ Nil \in (0..MaxSession) \cup {Nil}
    BY <1>3 DEF Call
  <2>3. BeginOK(s, "tell", None, Nil, todo)
    BY <1>3, <1>4, <1>8 DEF BeginOK
  <2>4. TurnsInto(Head(queue[s]), s, None, Nil, todo)
    BY <2>1 DEF m
  <2>5. Change(s, Begin(vm[s], "tell", None, Nil, todo), {})
    BY <1>8
  <2> HIDE DEF todo
  <2> QED BY <1>1, <2>2, <2>3, <2>4, <2>5, BegunAccount
<1>9. CASE s = Root /\ Change(s, Begin(v, "tell", m.from, m.session, {m.report}), {})
  <2> DEFINE todo == {m.report}
  <2>1. TurnsInto(m, s, m.from, m.session, todo)
    <3>1. \A k \in Sessions : k # 0
      BY DEF Sessions
    <3> QED BY <1>4, <1>5, <1>6, <1>9, <3>1 DEF TurnsInto
  <2>2. /\ todo \in SUBSET Call /\ m.from \in Services \cup {None}
        /\ m.session \in (0..MaxSession) \cup {Nil}
    BY <1>3, <1>4, <1>9
  <2>3. BeginOK(s, "tell", m.from, m.session, todo)
    BY <1>4, <1>9 DEF BeginOK
  <2>4. TurnsInto(Head(queue[s]), s, m.from, m.session, todo)
    BY <2>1 DEF m
  <2>5. Change(s, Begin(vm[s], "tell", m.from, m.session, todo), {})
    BY <1>9
  <2> HIDE DEF todo
  <2> QED BY <1>1, <2>2, <2>3, <2>4, <2>5, BegunAccount
<1> QED BY <1>1, <1>7, <1>8, <1>9
(* A response or an error is taken, of the session k that is answered. *)
LEMMA AnsweredAccount ==
  ASSUME AccountInv, Inv', NEW s \in Services, Ready(s),
         Head(queue[s]).type \in {"response", "error"}, NEW w, w.post = None,
         Onward(s, vm[s], w, {Head(queue[s]).session}),
         w.lookup[Head(queue[s]).session] = None, Change(s, w, {}),
         queue' = [queue EXCEPT ![s] = Tail(@)], UNCHANGED <<timers, told>>
  PROVE  AccountInv'
<1> DEFINE v == vm[s]
           m == Head(queue[s])
<1>1. /\ ~aborted /\ queue[s] # <<>> /\ v.state = "live" /\ v.post = None
      /\ v \in VM /\ Good(s, v) /\ JobKept(s, v) /\ LookupKept(v) /\ vm \in [Services -> VM]
  BY AccountFacts DEF Ready
<1>2. /\ w \in VM /\ JobKept(s, w) /\ LookupKept(w) /\ Sheds(v, w, {})
  BY <1>1, QuietSheds DEF Onward
<1>3. PICK D : /\ Sheds(v, vm'[s], D) /\ lost' = lost \cup D
               /\ \A x \in Services : x # s => vm'[x] = vm[x]
               /\ vm'[s].state = "live" => w.state = "live" /\ vm'[s] = w
  BY <1>1, <1>2, ChangeSheds
<1>4. vm'[s] = IF w.state = "live" THEN w ELSE EmptyVM("dead")
  BY <1>1 DEF Change
<1>5. \A x : MailCarries(m, s, x) <=> x = <<s, m.session>>
  <2>1. LetterOK(s, m)
    BY <1>1, HeadLetter
  <2> QED BY <2>1 DEF LetterOK, MailCarries
<1>6. Accounts'
  <2> SUFFICES ASSUME NEW c \in Services, NEW k \in Sessions, vm'[c].state = "live"
               PROVE  Account(c, k)'
    BY DEF Accounts
  <2>1. CASE c = s /\ k = m.session
    <3>1. MailCarries(Head(queue[s]), s, <<s, k>>)
      BY <1>5, <2>1
    <3>2. vm[s].state = "live" /\ vm'[s].lookup[k] = None
      BY <1>1, <1>3, <2>1
    <3>3. Sheds(vm[s], vm'[s], D) /\ queue[s] # <<>> /\ ~aborted
      BY <1>1, <1>3
    <3> HIDE DEF m, v
    <3> QED BY <1>3, <2>1, <3>1, <3>2, <3>3, TakesAnswer
  <2>2. CASE ~(c = s /\ k = m.session)
    <3>1. Gives(v, vm'[s], D, <<c, k>>)
      BY <1>3, ShedsGives
    <3>2. \A h \in BOOLEAN : ~MailCarries(m, s, <<c, k>>) /\ ~MailHas(m, s, <<c, k>>, h)
      BY <1>5, <2>2 DEF MailHas
    <3>3. Gains(v, vm'[s], m, s, D, <<c, k>>)
      BY <3>1, <3>2 DEF Gives, Gains
    <3>4. WaitsOn(vm[c], vm'[c], k)
      <4>1. CASE c = s
        <5>1. k \in Sessions \ {m.session} /\ w.state = "live" /\ vm'[c] = w
          BY <1>3, <2>2, <4>1
        <5> QED BY <1>1, <4>1, <5>1 DEF Onward, WaitsOn, Follows
      <4>2. CASE c # s
        BY <1>3, <4>2 DEF WaitsOn
      <4> QED BY <4>1, <4>2
    <3> QED BY <1>1, <1>3, <3>3, <3>4, TakesOne
  <2> QED BY <2>1, <2>2
<1>7. Past'
  <2>1. ASSUME NEW c \in Services, NEW k \in Sessions, vm'[c].state = "live"
        PROVE  /\ vm[c].state = "live" /\ (Asks(vm[c], k) => Asks(vm'[c], k))
               /\ <<c, k>> \in lost' \cup told' =>
                    <<c, k>> \in lost \cup told \/ Due(<<c, k>>)
    <3>1. vm[c].state = "live" /\ (Asks(vm[c], k) => Asks(vm'[c], k))
      BY <1>1, <1>3, <2>1 DEF Onward, Follows
    <3>2. ASSUME <<c, k>> \in D, <<c, k>> \notin told
          PROVE  Due(<<c, k>>)
      <4>1. HasV(v, <<c, k>>, TRUE)
        <5>1. OnceV(v, <<c, k>>)
          BY <1>1, <3>1, <3>2, LiveOnce
        <5> QED BY <1>3, <3>2, <5>1 DEF Sheds
      <4>2. PostOK(s, v)
        BY <1>1 DEF Good
      <4> QED BY <4>1, <4>2, HasVDue DEF Due
    <3> QED BY <1>3, <3>1, <3>2
  <2> QED BY <1>1, <2>1, PastDue
<1>8. Letters'
  BY <1>1, TakenLetters
<1>9. Kept(s, w)
  BY <1>2 DEF Kept, PostKept
<1>10. \A x \in Services : Kept(x, vm'[x]) /\ Emptied(vm'[x])
  BY <1>3, <1>4, <1>9, ServiceKept
<1> QED BY <1>6, <1>7, <1>8, <1>10 DEF AccountInv

(* The session is cleared. *)
LEMMA ClearedOnward ==
  ASSUME NEW s, NEW u, Settled(u), u.post = None, NEW k \in 0..MaxSession
  PROVE  /\ Onward(s, u, Cleared(u, k), {k}) /\ Cleared(u, k).lookup[k] = None
         /\ Cleared(u, k).post = None
<1> DEFINE v == Cleared(u, k)
<1>1. /\ v \in VM /\ v.lookup = [u.lookup EXCEPT ![k] = None]
      /\ v.job = u.job /\ v.todo = u.todo /\ v.next = u.next /\ v.sel = u.sel
      /\ v.run = u.run /\ v.post = u.post /\ v.from = u.from
      /\ v.session = u.session /\ v.state = u.state
  BY ClearedSettled
<1>2. u.lookup \in [0..MaxSession -> Sleepers]
  BY VMFields DEF Settled
<1>3. Follows(u, v)
  BY ClearedFollows
<1> HIDE DEF v
<1>4. \A j \in 0..MaxSession : v.lookup[j] = IF j = k THEN None ELSE u.lookup[j]
  BY <1>1, <1>2
<1>5. Quiet(u, v)
  BY <1>1, SameQuiet
<1>6. \A j \in Sessions \ {k} :
        /\ AwaitedV(v, j) => AwaitedV(u, j)
        /\ j < v.next /\ v.lookup[j] = None => j < u.next /\ u.lookup[j] = None
  BY <1>1, <1>4, SessionAssumption DEF AwaitedV, Sessions
<1>7. JobKept(s, u) => JobKept(s, v)
  BY <1>1 DEF JobKept
<1>8. LookupKept(u) => LookupKept(v)
  BY <1>1, <1>4 DEF LookupKept
<1> QED BY <1>1, <1>3, <1>4, <1>5, <1>6, <1>7, <1>8 DEF Onward, v

(* An answer for a select is counted. *)
LEMMA SelectedOnward ==
  ASSUME NEW s, NEW u, Settled(u), u.post = None, NEW m, m.session \in Sessions,
         u.lookup[m.session] = Select,
         m.session \in u.sel.sessions \cup {u.sel.timer}
  PROVE  LET w == Selected(Cleared(u, m.session), m)
         IN /\ Onward(s, u, w, {m.session}) /\ w.lookup[m.session] = None
            /\ w.post = None /\ w \in VM
<1> DEFINE k == m.session
           y == u.sel
           v == Cleared(u, k)
           x == IF k = y.timer THEN [y EXCEPT !.timeout = TRUE, !.timer = None]
                ELSE IF m.type = "response" THEN [y EXCEPT !.resp = @ \cup {k}]
                ELSE [y EXCEPT !.errors = @ + 1, !.request = @ - 1]
           c == [v EXCEPT !.sel = x]
           w == Selected(v, m)
<1>1. k \in 0..MaxSession
  BY SessionAssumption DEF Sessions
<1>2. u \in VM /\ SelectOK(u) /\ y \in Selection
  BY <1>1, VMFields DEF Settled, SelectOK
<1>3. /\ v \in VM /\ v.lookup = [u.lookup EXCEPT ![k] = None]
      /\ v.todo = u.todo /\ v.next = u.next /\ v.sel = y /\ v.job = u.job
      /\ v.post = None /\ v.from = u.from /\ v.run = u.run
      /\ v.session = u.session /\ v.state = u.state
  BY <1>1, ClearedSettled
<1>4. w = Woken(c, Select)
  BY <1>3 DEF Selected
<1>5. Settled(w) /\ Follows(u, w)
  BY SelectedSettled, SelectedFollows
<1> HIDE DEF v
<1>6. x.sessions = y.sessions /\ (x.timer = y.timer \/ x.timer = None)
  BY <1>2 DEF Selection
<1> HIDE DEF x
<1>7. /\ c.from = v.from /\ c.session = v.session /\ c.todo = v.todo
      /\ c.job = v.job /\ c.run = v.run
      /\ c.post = v.post /\ c.lookup = v.lookup /\ c.next = v.next
      /\ c.sel = x /\ c.state = v.state /\ DOMAIN c = DOMAIN v
  BY <1>3 DEF VM
<1>8. /\ w.from = c.from /\ w.session = c.session /\ w.todo = c.todo
      /\ w.job = c.job /\ w.run = c.run
      /\ w.post = c.post /\ w.lookup = c.lookup /\ w.next = c.next
      /\ w.sel = c.sel /\ w.state = c.state
  <2>1. CASE c.waiting[Select] = None
    BY <1>4, <2>1 DEF Woken
  <2>2. CASE c.waiting[Select] # None
    <3>1. w = [c EXCEPT !.wakeups = Append(@, c.waiting[Select]),
                        !.waiting[Select] = None]
      BY <1>4, <2>2 DEF Woken
    <3> QED BY <1>3, <1>7, <3>1 DEF VM
  <2> QED BY <2>1, <2>2
<1> HIDE DEF c, w
<1>9. u.lookup \in [0..MaxSession -> Sleepers]
  BY <1>2, VMFields
<1>10. \A j \in 0..MaxSession : w.lookup[j] = IF j = k THEN None ELSE u.lookup[j]
  <2>1. w.lookup = [u.lookup EXCEPT ![k] = None]
    BY <1>3, <1>7, <1>8
  <2> HIDE DEF k
  <2> QED BY <1>1, <1>9, <2>1
<1>11. Quiet(u, w)
  BY <1>3, <1>7, <1>8, SameQuiet
<1>12. \A j \in Sessions \ {k} :
        /\ AwaitedV(w, j) => AwaitedV(u, j)
        /\ j < w.next /\ w.lookup[j] = None => j < u.next /\ u.lookup[j] = None
  <2>1. \A j \in Sessions : j # None /\ j \in 0..MaxSession
    BY SessionAssumption, NilAssumption DEF Sessions
  <2>2. y # None
    BY <1>2, NilAssumption
  <2> QED BY <1>3, <1>6, <1>7, <1>8, <1>10, <2>1, <2>2 DEF AwaitedV
<1>13. JobKept(s, u) => JobKept(s, w)
  BY <1>3, <1>7, <1>8 DEF JobKept
<1>14. LookupKept(u) => LookupKept(w)
  BY <1>3, <1>7, <1>8, <1>10 DEF LookupKept
<1>15. w \in VM /\ w.post = None /\ w.lookup[k] = None
  BY <1>1, <1>3, <1>5, <1>7, <1>8, <1>10 DEF Settled
<1> QED BY <1>5, <1>11, <1>12, <1>13, <1>14, <1>15 DEF Onward, w, v

LEMMA DispatchLookup ==
  ASSUME NEW v \in VM
  PROVE  Dispatch(v).lookup = v.lookup
BY DEF Dispatch, VM

LEMMA RecvAnswerAccount ==
  ASSUME AccountInv, Inv', NEW s \in Services, RecvAnswer(s)
  PROVE  AccountInv'
<1> DEFINE u == vm[s]
           m == Head(queue[s])
           k == m.session
           h == u.lookup[k]
           v == Cleared(u, k)
           w == CASE h = None -> Dispatch(Fork(v, "quit"))
                  [] h \in {Ignore, Stale} -> v
                  [] h = Select -> Dispatch(Selected(v, m))
                  [] OTHER -> [v EXCEPT !.run = h]
<1>1. /\ Ready(s) /\ m.type \in {"response", "error"}
      /\ h = None => FreeThreads(v) # {}
      /\ Change(s, w, {})
      /\ queue' = [queue EXCEPT ![s] = Tail(@)]
      /\ UNCHANGED <<timers, told, aborted>>
  BY DEF RecvAnswer, Cleared
<1>2. /\ u \in VM /\ Good(s, u) /\ Settled(u) /\ SelectOK(u) /\ JobKept(s, u) /\ LookupKept(u)
      /\ u.post = None /\ queue[s] # <<>> /\ u.state = "live"
  BY <1>1, AccountFacts DEF Ready, Good, Settled
<1>3. m \in Message /\ LetterOK(s, m) /\ 1 \in DOMAIN queue[s] /\ queue[s][1] = m
  BY <1>2, HeadLetter
<1>4. k \in 0..MaxSession
  BY <1>3 DEF Message
<1>5. h \in Sleepers
  BY <1>2, <1>4, VMFields
<1>6. Onward(s, u, v, {k}) /\ v.lookup[k] = None /\ v.post = None
  <2> HIDE DEF u, k
  <2> QED BY <1>2, <1>4, ClearedOnward
<1>7. v \in VM /\ JobKept(s, v)
  BY <1>2, <1>6 DEF Onward
<1>8. SUFFICES Onward(s, u, w, {k}) /\ w.lookup[k] = None /\ w.post = None
  <2> HIDE DEF w
  <2>1. /\ Onward(s, vm[s], w, {Head(queue[s]).session})
        /\ w.lookup[Head(queue[s]).session] = None /\ w.post = None
    BY <1>8
  <2> QED BY <1>1, <2>1, AnsweredAccount
<1>9. CASE h = None
  <2> HIDE DEF v, h
  <2>1. w = Dispatch(Fork(v, "quit")) /\ FreeThreads(v) # {}
    BY <1>1, <1>9, NilAssumption
  <2> HIDE DEF w
  <2> DEFINE f == Fork(v, "quit")
             t == NewThread(v)
             c == Create(v, t, "quit", None, Nil, {})
  <2>2. Onward(s, v, f, {}) /\ f.post = None
    BY <1>6, <1>7, <2>1, ForkOnward DEF Job
  <2>3. f \in VM
    BY <1>7, <2>2 DEF Onward
  <2>4. f.lookup = v.lookup
    <3>1. t \in Thread
      BY <2>1, NewThreadFree
    <3>2. c \in VM /\ c.lookup = v.lookup
      BY <1>7, <3>1 DEF Create, VM, Job
    <3>3. f = [c EXCEPT !.wakeups = Append(@, t)]
      BY DEF Fork
    <3> HIDE DEF c, f
    <3> QED BY <3>2, <3>3 DEF VM
  <2> HIDE DEF f
  <2>5. Onward(s, v, f, {k})
    BY <2>2, OnwardMore
  <2>6. Onward(s, f, Dispatch(f), {k}) /\ Dispatch(f).post = None
    BY <2>2, <2>3, DispatchOnward
  <2>7. Onward(s, u, f, {k})
    BY <1>6, <2>5, OnwardTrans
  <2>8. Onward(s, u, Dispatch(f), {k})
    BY <2>6, <2>7, OnwardTrans
  <2>9. Dispatch(f).lookup = v.lookup
    BY <2>3, <2>4, DispatchLookup
  <2> QED BY <1>6, <2>1, <2>6, <2>8, <2>9 DEF f
<1>10. CASE h \in {Ignore, Stale}
  <2>1. w = v
    BY <1>10, NilAssumption
  <2> QED BY <1>6, <2>1
<1>11. CASE h = Select
  <2>1. w = Dispatch(Selected(v, m))
    BY <1>11, NilAssumption
  <2>2. k \in Sessions
    <3>1. k \in 1..(u.next - 1) /\ u.next \in 1..(MaxSession + 1) /\ MaxSession \in Nat
      BY <1>2, <1>4, <1>11, VMFields, SessionAssumption DEF SelectOK
    <3> QED BY <1>4, <3>1 DEF Sessions
  <2>3. Due(<<s, k>>)
    BY <1>1, <1>3 DEF Due, DueOut, DueQueue, DueMail
  <2>4. k \in u.sel.sessions \cup {u.sel.timer}
    BY <1>2, <1>11, <2>2, <2>3 DEF AccountInv, Inv, Asked, Asks
  <2> DEFINE x == Selected(v, m)
  <2>5. Onward(s, u, x, {k}) /\ x.lookup[k] = None /\ x.post = None /\ x \in VM
    <3>1. m.session \in Sessions /\ u.lookup[m.session] = Select
          /\ m.session \in u.sel.sessions \cup {u.sel.timer}
      BY <1>11, <2>2, <2>4
    <3> HIDE DEF u, m
    <3> QED BY <1>2, <3>1, SelectedOnward
  <2> HIDE DEF x, w
  <2>6. Onward(s, x, Dispatch(x), {k}) /\ Dispatch(x).post = None
    BY <2>5, DispatchOnward
  <2>7. Onward(s, u, Dispatch(x), {k})
    BY <2>5, <2>6, OnwardTrans
  <2>8. Dispatch(x).lookup = x.lookup
    BY <2>5, DispatchLookup
  <2> QED BY <2>1, <2>5, <2>6, <2>7, <2>8 DEF x
<1>12. CASE h \in Thread
  <2> DEFINE x == [v EXCEPT !.run = h]
  <2>1. w = x
    BY <1>12, NilAssumption
  <2> HIDE DEF v, h, w
  <2>2. /\ x \in VM /\ x.lookup = v.lookup /\ x.next = v.next /\ x.sel = v.sel
        /\ x.job = v.job /\ x.todo = v.todo /\ x.from = v.from
        /\ x.session = v.session /\ x.post = v.post /\ x.state = v.state
    BY <1>7, <1>12 DEF VM
  <2> HIDE DEF x
  <2>3. Follows(v, x)
    BY <2>2, SameDue, SameAsks DEF Follows
  <2>4. v.next \in Nat
    BY <1>7, VMFields, SessionAssumption
  <2>5. Onward(s, v, x, {})
    BY <1>6, <1>7, <2>2, <2>3, <2>4, SameOnward
  <2>6. Onward(s, v, x, {k})
    BY <2>5, OnwardMore
  <2>7. Onward(s, u, x, {k})
    BY <1>6, <2>6, OnwardTrans
  <2> QED BY <1>6, <2>1, <2>2, <2>7
<1> QED BY <1>5, <1>9, <1>10, <1>11, <1>12 DEF Sleepers

-----------------------------------------------------------------------------
(* Timers, and the death of a service.                                     *)

(* A letter arrives and the rest of the queues stays. *)
LEMMA LetterArrives ==
  ASSUME AccountInv, NEW s \in Services, NEW mail \in Message, LetterOK(s, mail),
         queue' = [queue EXCEPT ![s] = Append(@, mail)]
  PROVE  /\ Letters'
         /\ \A r \in Services : queue'[r] = IF r = s THEN Append(queue[s], mail) ELSE queue[r]
         /\ \A r \in Services : \A i \in DOMAIN queue'[r] :
              (i \in DOMAIN queue[r] /\ queue'[r][i] = queue[r][i]) \/ queue'[r][i] = mail
<1>1. queue \in [Services -> Seq(Message)]
  BY DEF AccountInv, Inv, TypeOK
<1>2. \A r \in Services : queue'[r] = IF r = s THEN Append(queue[s], mail) ELSE queue[r]
  BY <1>1
<1>3. ASSUME NEW r \in Services, NEW i \in DOMAIN queue'[r]
      PROVE  (i \in DOMAIN queue[r] /\ queue'[r][i] = queue[r][i]) \/ queue'[r][i] = mail
  <2> DEFINE q == queue[s]
  <2>1. q \in Seq(Message)
    BY <1>1
  <2> HIDE DEF q
  <2>2. \A j \in DOMAIN Append(q, mail) :
          (j \in DOMAIN q /\ Append(q, mail)[j] = q[j]) \/ Append(q, mail)[j] = mail
    BY <2>1
  <2> QED BY <1>2, <2>2 DEF q
<1>4. Letters'
  BY <1>3 DEF AccountInv, Letters
<1> QED BY <1>2, <1>3, <1>4

(* Where nothing happens to a call. *)
LEMMA StillAccount ==
  ASSUME AccountInv, ~aborted, lost' = lost, told' = told,
         NEW c \in Services, NEW k \in Sessions, vm'[c].state = "live",
         WaitsOn(vm[c], vm'[c], k),
         \A z \in Sites, h \in BOOLEAN : At(z, <<c, k>>, h)' <=> At(z, <<c, k>>, h),
         Once(<<c, k>>) =>
           \A s \in Services : OnceV(vm'[s], <<c, k>>) /\ OnceQ(queue'[s], s, <<c, k>>)
  PROVE  Account(c, k)'
<1> DEFINE call == <<c, k>>
           x == <<c, "vm">>
<1>1. x \in Sites
  BY DEF Sites
<1>2. Steps(call, x, x)
  <2>1. CASE call \notin told
    <3>1. (call \notin told) = TRUE
      BY <2>1
    <3> HIDE DEF x
    <3> QED BY <1>1, <2>1, <3>1 DEF Steps
  <2>2. CASE call \in told
    <3>1. (call \notin told) = FALSE
      BY <2>2
    <3> HIDE DEF x
    <3> QED BY <1>1, <2>2, <3>1 DEF Steps
  <2> QED BY <2>1, <2>2
<1> QED BY <1>1, <1>2, Flow

LEMMA FireAccount ==
  ASSUME AccountInv, Inv', NEW s \in Services, NEW k \in Sessions, Fire(s, k)
  PROVE  AccountInv'
<1> DEFINE mail == [from |-> s, session |-> k, type |-> "response", report |-> None]
           x == <<s, "timer">>
           y == <<s, "queue">>
<1>1. /\ ~aborted /\ <<s, k>> \in timers /\ timers' = timers \ {<<s, k>>}
      /\ \/ vm[s].state = "live" /\ queue' = [queue EXCEPT ![s] = Append(@, mail)]
         \/ vm[s].state # "live" /\ UNCHANGED queue
      /\ UNCHANGED <<vm, lost, told, aborted>>
  BY DEF Fire
<1>2. /\ mail \in Message /\ LetterOK(s, mail)
      /\ \A call : MailCarries(mail, s, call) <=> call = <<s, k>>
      /\ \A call, h : MailHas(mail, s, call, h) <=> MailCarries(mail, s, call)
  BY SessionAssumption DEF Message, LetterOK, Sessions, MailCarries, MailHas
<1> HIDE DEF mail
<1>3. Past' /\ (\A r \in Services : Kept(r, vm'[r]) /\ Emptied(vm'[r]))
  BY <1>1 DEF AccountInv, Past
<1>4. queue \in [Services -> Seq(Message)] /\ queue[s] \in Seq(Message)
  BY DEF AccountInv, Inv, TypeOK
<1>5. CASE vm[s].state # "live"
  <2>1. Letters'
    BY <1>1, <1>5 DEF AccountInv, Letters
  <2>2. ASSUME NEW c \in Services, NEW j \in Sessions, vm'[c].state = "live"
        PROVE  Account(c, j)'
    <3>1. c # s /\ (<<c, j>> \in timers' <=> <<c, j>> \in timers)
      BY <1>1, <1>5, <2>2
    <3>2. \A z \in Sites, h \in BOOLEAN : At(z, <<c, j>>, h)' <=> At(z, <<c, j>>, h)
      BY <1>1, <1>5, <3>1 DEF At
    <3>3. WaitsOn(vm[c], vm'[c], j)
      BY <1>1, <2>2 DEF WaitsOn
    <3>4. Once(<<c, j>>) =>
            \A r \in Services : OnceV(vm'[r], <<c, j>>) /\ OnceQ(queue'[r], r, <<c, j>>)
      BY <1>1, <1>5 DEF Once
    <3> QED BY <1>1, <2>2, <3>2, <3>3, <3>4, StillAccount
  <2> QED BY <1>3, <2>1, <2>2 DEF AccountInv, Accounts
<1>6. CASE vm[s].state = "live"
  <2>1. queue' = [queue EXCEPT ![s] = Append(@, mail)]
    BY <1>1, <1>6
  <2>2. /\ Letters'
        /\ \A r \in Services : queue'[r] = IF r = s THEN Append(queue[s], mail) ELSE queue[r]
    BY <1>2, <2>1, LetterArrives
  <2>3. ASSUME NEW c \in Services, NEW j \in Sessions, vm'[c].state = "live"
        PROVE  Account(c, j)'
    <3> DEFINE call == <<c, j>>
    <3>1. x \in Sites /\ y \in Sites /\ x # y
      BY DEF Sites
    <3>2. /\ \A h \in BOOLEAN : HasQ(queue'[s], s, call, h) <=>
                                  HasQ(queue[s], s, call, h) \/ MailCarries(mail, s, call)
          /\ OnceQ(queue[s], s, call) /\ ~(MailCarries(mail, s, call) /\ HasQ(queue[s], s, call, TRUE))
               => OnceQ(queue'[s], s, call)
      <4>1. /\ \A h \in BOOLEAN : HasQ(Append(queue[s], mail), s, call, h) <=>
                                    HasQ(queue[s], s, call, h) \/ MailHas(mail, s, call, h)
            /\ OnceQ(queue[s], s, call) /\ ~(MailCarries(mail, s, call) /\ HasQ(queue[s], s, call, TRUE))
                 => OnceQ(Append(queue[s], mail), s, call)
        BY <1>2, <1>4, AppendHas
      <4> QED BY <1>2, <2>2, <4>1
    <3>3. \A h \in BOOLEAN : /\ At(x, call, h) <=> s = c /\ call \in timers
                             /\ At(x, call, h)' <=> s = c /\ call \in timers'
                             /\ At(y, call, h) <=> HasQ(queue[s], s, call, h)
                             /\ At(y, call, h)' <=> HasQ(queue'[s], s, call, h)
      BY DEF At
    <3>4. \A z \in Sites \ {x, y}, h \in BOOLEAN : At(z, call, h)' <=> At(z, call, h)
      <4> SUFFICES ASSUME NEW z \in Sites \ {x, y}, NEW h \in BOOLEAN
                   PROVE  At(z, call, h)' <=> At(z, call, h)
        OBVIOUS
      <4>1. PICK r \in Services : z = <<r, "vm">> \/ z = <<r, "queue">> \/ z = <<r, "timer">>
        BY SiteOf
      <4>2. CASE z = <<r, "vm">>
        BY <1>1, <4>2 DEF At
      <4>3. CASE z = <<r, "queue">>
        <5>1. queue'[r] = queue[r]
          BY <2>2, <4>3
        <5> QED BY <4>3, <5>1 DEF At
      <4>4. CASE z = <<r, "timer">>
        <5>1. r # s
          BY <4>4
        <5>2. r = c => (call \in timers' <=> call \in timers)
          BY <1>1, <5>1
        <5> QED BY <4>4, <5>2 DEF At
      <4> QED BY <4>1, <4>2, <4>3, <4>4
    <3>5. MailCarries(mail, s, call) <=> call = <<s, k>>
      BY <1>2
    <3>6. call = <<s, k>> => c = s /\ call \in timers /\ call \notin timers'
      BY <1>1
    <3>7. call # <<s, k>> => (call \in timers' <=> call \in timers)
      BY <1>1
    <3>8. WaitsOn(vm[c], vm'[c], j)
      BY <1>1, <2>3 DEF WaitsOn
    <3>9. Steps(call, x, y)
      <4>1. lost' = lost /\ told' = told /\ x \in Sites /\ y \in Sites
        BY <1>1, <3>1
      <4> HIDE DEF x, y
      <4>2. ASSUME NEW h \in BOOLEAN
            PROVE  /\ At(x, call, h)' \/ At(y, call, h)' <=> At(x, call, h) \/ At(y, call, h)
                   /\ At(x, call, h)' /\ At(y, call, h)' => At(x, call, h) /\ At(y, call, h)
        BY <3>2, <3>3, <3>5, <3>6, <3>7
      <4>3. CASE call \notin told
        <5>1. (call \notin told) = TRUE
          BY <4>3
        <5>2. /\ At(x, call, TRUE)' \/ At(y, call, TRUE)' => At(x, call, TRUE) \/ At(y, call, TRUE)
              /\ At(x, call, TRUE)' /\ At(y, call, TRUE)' =>
                   x = y \/ (At(x, call, TRUE) /\ At(y, call, TRUE))
              /\ call \in lost' \ lost =>
                   /\ At(x, call, TRUE) \/ At(y, call, TRUE)
                   /\ ~At(x, call, TRUE)' /\ ~At(y, call, TRUE)'
              /\ At(x, call, TRUE) \/ At(y, call, TRUE) =>
                   At(x, call, TRUE)' \/ At(y, call, TRUE)' \/ call \in lost'
          BY <4>1, <4>2
        <5> QED BY <3>4, <4>1, <4>3, <5>1, <5>2 DEF Steps
      <4>4. CASE call \in told
        <5>1. (call \notin told) = FALSE
          BY <4>4
        <5>2. At(x, call, FALSE) \/ At(y, call, FALSE) =>
                At(x, call, FALSE)' \/ At(y, call, FALSE)' \/ call \in lost'
          BY <4>2
        <5> QED BY <3>4, <4>1, <4>4, <5>1, <5>2 DEF Steps
      <4> QED BY <4>3, <4>4
    <3>10. call \notin told /\ Once(call) =>
             \A r \in Services : OnceV(vm'[r], call) /\ OnceQ(queue'[r], r, call)
      <4> HAVE call \notin told /\ Once(call)
      <4>1. \A r \in Services : OnceV(vm[r], call) /\ OnceQ(queue[r], r, call)
        BY DEF Once
      <4>2. ~(At(x, call, TRUE) /\ At(y, call, TRUE))
        BY <3>1 DEF Once
      <4>3. OnceQ(queue'[s], s, call)
        BY <3>2, <3>3, <3>5, <3>6, <4>1, <4>2
      <4> QED BY <1>1, <2>2, <4>1, <4>3
    <3> QED BY <1>1, <2>3, <3>1, <3>8, <3>9, <3>10, Flow
  <2> QED BY <1>3, <2>2, <2>3 DEF AccountInv, Accounts
<1> QED BY <1>5, <1>6

(* What is empty has nothing. *)
LEMMA EmptyHas ==
  ASSUME NEW st, NEW c \in Services, NEW k \in Sessions
  PROVE  /\ \A h \in BOOLEAN : ~HasV(EmptyVM(st), <<c, k>>, h)
         /\ OnceV(EmptyVM(st), <<c, k>>)
<1> DEFINE w == EmptyVM(st)
<1>1. /\ w.from = [t \in Thread |-> None] /\ w.todo = [t \in Thread |-> {}]
      /\ w.post = None
  BY DEF EmptyVM
<1> HIDE DEF w
<1>2. \A t \in Thread : ~HeldBy(w, t, <<c, k>>) /\ ~TodoBy(w, t, <<c, k>>)
  BY <1>1, NilAssumption DEF HeldBy, TodoBy
<1>3. \A h \in BOOLEAN : ~HasV(w, <<c, k>>, h)
  BY <1>1, <1>2 DEF HasV, PostHas, PostAnswers, PostCarries
<1>4. OnceV(w, <<c, k>>)
  BY <1>3, NowhereOnce
<1> QED BY <1>3, <1>4 DEF w

LEMMA EmptyState ==
  ASSUME NEW a, NEW b
  PROVE  /\ [EmptyVM(a) EXCEPT !.state = b] = EmptyVM(b)
         /\ EmptyVM(b).state = b
<1> DEFINE job == [t \in Thread |-> "free"]
           from == [t \in Thread |-> None]
           session == [t \in Thread |-> Nil]
           todo == [t \in Thread |-> {}]
           lookup == [k \in 0..MaxSession |-> None]
           waiting == [w \in Tokens \cup {Select} |-> None]
           none == <<>>
           no == FALSE
           v == EmptyVM(a)
           w == EmptyVM(b)
<1>1. /\ v = [state |-> a, run |-> None, post |-> None, job |-> job, from |-> from,
              session |-> session, todo |-> todo, lookup |-> lookup, waiting |-> waiting,
              wakeups |-> none, next |-> 1, quit |-> no, sel |-> None]
      /\ w = [state |-> b, run |-> None, post |-> None, job |-> job, from |-> from,
              session |-> session, todo |-> todo, lookup |-> lookup, waiting |-> waiting,
              wakeups |-> none, next |-> 1, quit |-> no, sel |-> None]
  BY DEF EmptyVM
<1> HIDE DEF job, from, session, todo, lookup, waiting, none, no, v, w
<1>2. [v EXCEPT !.state = b] = w
  BY ONLY <1>1
<1>3. w.state = b
  BY ONLY <1>1
<1> QED BY <1>2, <1>3 DEF v, w

LEMMA SignalAccount ==
  ASSUME AccountInv, Inv', NEW s \in Services, Signal(s)
  PROVE  AccountInv'
<1> DEFINE mail == [from |-> s, session |-> 0, type |-> "signal", report |-> None]
<1>1. /\ ~aborted /\ s # Root /\ Root \in Services /\ vm[s].state = "dead"
      /\ queue' = [queue EXCEPT ![Root] = Append(@, mail)]
      /\ vm' = [vm EXCEPT ![s] = [vm[s] EXCEPT !.state = "signalled"]]
      /\ UNCHANGED <<timers, lost, told, aborted>>
  BY DEF Signal, Services
<1>2. /\ mail \in Message /\ LetterOK(Root, mail)
      /\ \A call : ~MailCarries(mail, Root, call)
      /\ \A call, h : ~MailHas(mail, Root, call, h)
  BY SessionAssumption DEF Message, LetterOK, MailCarries, MailHas
<1> HIDE DEF mail
<1>3. vm[s] = EmptyVM("dead")
  BY <1>1 DEF AccountInv, Emptied
<1>4. vm \in [Services -> VM] /\ queue[Root] \in Seq(Message)
  BY <1>1 DEF AccountInv, Inv, TypeOK
<1>5. [EmptyVM("dead") EXCEPT !.state = "signalled"] = EmptyVM("signalled")
      /\ EmptyVM("signalled").state # "live"
  BY EmptyState
<1>6. \A r \in Services : vm'[r] = IF r = s THEN EmptyVM("signalled") ELSE vm[r]
  BY <1>1, <1>3, <1>4, <1>5
<1>7. /\ Letters'
      /\ \A r \in Services : queue'[r] = IF r = Root THEN Append(queue[Root], mail) ELSE queue[r]
  BY <1>1, <1>2, LetterArrives
<1>8. \A r \in Services : Kept(r, vm'[r]) /\ Emptied(vm'[r])
  BY <1>6, EmptyKept DEF AccountInv
<1>9. Past'
  BY <1>1, <1>5, <1>6 DEF AccountInv, Past
<1>10. ASSUME NEW c \in Services, NEW j \in Sessions, vm'[c].state = "live"
       PROVE  Account(c, j)'
  <2> DEFINE call == <<c, j>>
  <2>1. c # s /\ vm'[c] = vm[c]
    BY <1>5, <1>6, <1>10
  <2>2. \A r \in Services : /\ \A h \in BOOLEAN : HasV(vm'[r], call, h) <=> HasV(vm[r], call, h)
                            /\ OnceV(vm[r], call) => OnceV(vm'[r], call)
    BY <1>3, <1>6, EmptyHas
  <2>3. /\ \A h \in BOOLEAN : HasQ(queue'[Root], Root, call, h) <=> HasQ(queue[Root], Root, call, h)
        /\ OnceQ(queue[Root], Root, call) => OnceQ(queue'[Root], Root, call)
    <3>1. /\ \A h \in BOOLEAN : HasQ(Append(queue[Root], mail), Root, call, h) <=>
                                  HasQ(queue[Root], Root, call, h) \/ MailHas(mail, Root, call, h)
          /\ OnceQ(queue[Root], Root, call) /\ ~(MailCarries(mail, Root, call) /\ HasQ(queue[Root], Root, call, TRUE))
               => OnceQ(Append(queue[Root], mail), Root, call)
      BY <1>2, <1>4, AppendHas
    <3> QED BY <1>1, <1>2, <1>7, <3>1
  <2>4. \A z \in Sites, h \in BOOLEAN : At(z, call, h)' <=> At(z, call, h)
    <3> SUFFICES ASSUME NEW z \in Sites, NEW h \in BOOLEAN
                 PROVE  At(z, call, h)' <=> At(z, call, h)
      OBVIOUS
    <3>1. PICK r \in Services : z = <<r, "vm">> \/ z = <<r, "queue">> \/ z = <<r, "timer">>
      BY SiteOf
    <3>2. CASE z = <<r, "vm">>
      BY <2>2, <3>2 DEF At
    <3>3. CASE z = <<r, "queue">>
      BY <1>7, <2>3, <3>3 DEF At
    <3>4. CASE z = <<r, "timer">>
      BY <1>1, <3>4 DEF At
    <3> QED BY <3>1, <3>2, <3>3, <3>4
  <2>5. Once(call) => \A r \in Services : OnceV(vm'[r], call) /\ OnceQ(queue'[r], r, call)
    BY <1>7, <2>2, <2>3 DEF Once
  <2>6. WaitsOn(vm[c], vm'[c], j)
    BY <1>10, <2>1 DEF WaitsOn
  <2> QED BY <1>1, <1>10, <2>4, <2>5, <2>6, StillAccount
<1> QED BY <1>7, <1>8, <1>9, <1>10 DEF AccountInv, Accounts

(* A signal is from a service that is dead. *)
Signals ==
  \A r \in Services : \A i \in DOMAIN queue[r] :
    queue[r][i].type = "signal" => vm[queue[r][i].from].state # "live"

(* The requests in the queue of a service are the answers it owes to others. *)
LEMMA UntakenHas ==
  ASSUME AccountInv, NEW d \in Services, d # Root,
         NEW c \in Services, c # d, NEW k
  PROVE  /\ HasQ(queue[d], d, <<c, k>>, TRUE) <=> <<c, k>> \in Untaken(d)
         /\ ~HasQ(queue[d], d, <<c, k>>, FALSE)
<1>1. ASSUME NEW i \in DOMAIN queue[d]
      PROVE  /\ MailHas(queue[d][i], d, <<c, k>>, TRUE) <=>
                  queue[d][i].type = "request"
                  /\ <<c, k>> = <<queue[d][i].from, queue[d][i].session>>
             /\ ~MailHas(queue[d][i], d, <<c, k>>, FALSE)
  <2>1. LetterOK(d, queue[d][i])
    BY DEF AccountInv, Letters
  <2>2. queue[d][i].report = None
    BY <2>1 DEF LetterOK
  <2> QED BY <2>2 DEF MailHas, MailCarries
<1> QED BY <1>1 DEF HasQ, Untaken

LEMMA RecvSignalFrom ==
  ASSUME AccountInv, Inv', Signals, RecvSignal, NEW d, d = Head(queue[Root]).from
  PROVE  AccountInv'
<1> DEFINE m == Head(queue[Root])
           v == vm[Root]
           w == Begin(v, "tell", d, 0, Untaken(d))
           g == [vm[d] EXCEPT !.state = "gone"]
           gone == EmptyVM("gone")
<1>1. /\ Ready(Root) /\ m.type = "signal" /\ FreeThreads(v) # {}
      /\ UNCHANGED <<timers, lost, told, aborted>>
      /\ queue' = [queue EXCEPT ![Root] = Tail(@), ![d] = <<>>]
      /\ Root \in Services /\ ~aborted /\ v.state = "live" /\ queue[Root] # <<>>
  BY DEF RecvSignal, Ready, Services
<1>2. /\ vm \in [Services -> VM] /\ queue \in [Services -> Seq(Message)]
      /\ v \in VM /\ v.post = None /\ JobKept(Root, v) /\ LookupKept(v)
  BY <1>1, AccountFacts DEF AccountInv, Inv, TypeOK, Ready
<1>3. m \in Message /\ 1 \in DOMAIN queue[Root] /\ queue[Root][1] = m
  BY <1>1, HeadLetter
<1>4. d \in Services /\ d # Root
  BY <1>1, <1>3 DEF AccountInv, Inv, RootAsked, ForRoot, Message
<1>5. vm' = [vm EXCEPT ![d] = g, ![Root] = w]
  BY <1>4 DEF RecvSignal, Begin
<1>6. \A call, h : ~MailCarries(m, Root, call) /\ ~MailHas(m, Root, call, h)
  <2>1. LetterOK(Root, m)
    BY <1>1, HeadLetter
  <2> QED BY <1>1, <2>1 DEF LetterOK, MailCarries, MailHas
<1>7. vm[d].state # "live"
  BY <1>1, <1>3 DEF Signals
<1> HIDE DEF m
<1>8. g = gone /\ gone.state = "gone"
  <2>1. vm[d] = EmptyVM(vm[d].state)
    BY <1>4, <1>7 DEF AccountInv, Emptied
  <2>2. [EmptyVM(vm[d].state) EXCEPT !.state = "gone"] = gone
    BY EmptyState
  <2> QED BY <2>1, <2>2, EmptyState
<1>9. Untaken(d) \in SUBSET Call
  <2>1. queue[d] \in Seq(Message)
    BY <1>2, <1>4
  <2>2. \A i \in DOMAIN queue[d] : queue[d][i] \in Message
    BY <2>1
  <2> QED BY <2>2 DEF Untaken, Message, Call
<1>10. Began(Root, v, w, d, 0, Untaken(d))
  <2>1. /\ d \in Services \cup {None} /\ 0 \in (0..MaxSession) \cup {Nil}
        /\ BeginOK(Root, "tell", d, 0, Untaken(d))
    BY <1>4, SessionAssumption DEF BeginOK
  <2> HIDE DEF v
  <2> QED BY <1>1, <1>2, <1>9, <2>1, BeginFacts
<1> HIDE DEF g, w
<1>11. \A x \in Services : vm'[x] = IF x = Root THEN w ELSE IF x = d THEN gone ELSE vm[x]
  BY <1>2, <1>4, <1>5, <1>8
<1>12. \A x \in Services : queue'[x] = IF x = d THEN <<>>
                                       ELSE IF x = Root THEN Tail(queue[Root])
                                       ELSE queue[x]
  BY <1>1, <1>2, <1>4
<1> HIDE DEF gone
<1>13. /\ w \in VM /\ w.post = None /\ w.lookup = v.lookup /\ w.next = v.next
       /\ w.sel = v.sel /\ w.state = v.state /\ JobKept(Root, w)
  BY <1>10 DEF Began
<1>14. Letters'
  <2>1. \A i \in DOMAIN Tail(queue[Root]) :
          i + 1 \in DOMAIN queue[Root] /\ Tail(queue[Root])[i] = queue[Root][i + 1]
    <3>1. queue[Root] \in Seq(Message)
      BY <1>1, <1>2
    <3> QED BY <1>1, <3>1, TailElements
  <2>2. ASSUME NEW r \in Services, NEW i \in DOMAIN queue'[r]
        PROVE  LetterOK(r, queue'[r][i])
    <3>1. CASE r = d
      BY <1>12, <2>2, <3>1
    <3>2. CASE r # d /\ r = Root
      BY <1>12, <2>1, <2>2, <3>2 DEF AccountInv, Letters
    <3>3. CASE r # d /\ r # Root
      BY <1>12, <2>2, <3>3 DEF AccountInv, Letters
    <3> QED BY <3>1, <3>2, <3>3
  <2> QED BY <2>2 DEF Letters
<1>15. \A x \in Services : Kept(x, vm'[x]) /\ Emptied(vm'[x])
  <2>1. Kept(Root, w) /\ Emptied(w)
    BY <1>1, <1>2, <1>13 DEF Kept, PostKept, LookupKept, Emptied
  <2>2. Kept(d, gone) /\ Emptied(gone)
    BY EmptyKept DEF gone
  <2> QED BY <1>11, <2>1, <2>2 DEF AccountInv
<1>16. \A c \in Services : vm'[c].state = "live" =>
         /\ c # d /\ vm[c].state = "live"
         /\ \A k \in Sessions : /\ WaitsOn(vm[c], vm'[c], k)
                                /\ Asks(vm[c], k) => Asks(vm'[c], k)
  BY <1>1, <1>4, <1>8, <1>11, <1>13 DEF WaitsOn, Asks, AwaitedV
<1>17. Past'
  BY <1>1, <1>16 DEF AccountInv, Past
<1>18. ASSUME NEW c \in Services, NEW k \in Sessions, vm'[c].state = "live"
       PROVE  Account(c, k)'
  <2> DEFINE call == <<c, k>>
             x == <<d, "queue">>
             y == <<Root, "vm">>
             left == call \in Untaken(d)
  <2>1. c # d /\ x \in Sites /\ y \in Sites /\ x # y
    BY <1>1, <1>4, <1>16, <1>18 DEF Sites
  <2>2. /\ HasQ(queue[d], d, call, TRUE) <=> left
        /\ ~HasQ(queue[d], d, call, FALSE)
    BY <1>4, <2>1, UntakenHas
  <2>3. /\ \A h \in BOOLEAN : ~HasQ(queue'[d], d, call, h)
        /\ OnceQ(queue'[d], d, call)
    <3>1. queue'[d] = <<>> /\ DOMAIN <<>> = {}
      BY <1>4, <1>12
    <3> QED BY <3>1 DEF HasQ, OnceQ
  <2>4. /\ HasV(w, call, TRUE) <=> HasV(v, call, TRUE) \/ left
        /\ HasV(v, call, FALSE) => HasV(w, call, FALSE)
        /\ OnceV(v, call) /\ ~(left /\ HasV(v, call, TRUE)) => OnceV(w, call)
    <3>1. call # <<d, 0>>
      BY DEF Sessions
    <3> HIDE DEF v
    <3> QED BY <1>10, <3>1 DEF Began
  <2>5. /\ \A h \in BOOLEAN : HasQ(queue'[Root], Root, call, h) <=> HasQ(queue[Root], Root, call, h)
        /\ OnceQ(queue[Root], Root, call) => OnceQ(queue'[Root], Root, call)
    <3>1. queue[Root] \in Seq(Message) /\ queue'[Root] = Tail(queue[Root])
      BY <1>1, <1>2, <1>4, <1>12
    <3>2. /\ \A h \in BOOLEAN : HasQ(queue[Root], Root, call, h) <=>
               MailHas(Head(queue[Root]), Root, call, h) \/ HasQ(Tail(queue[Root]), Root, call, h)
          /\ OnceQ(queue[Root], Root, call) => OnceQ(Tail(queue[Root]), Root, call)
      <4> DEFINE q == queue[Root]
      <4>1. q \in Seq(Message) /\ q # <<>>
        BY <1>1, <3>1
      <4> HIDE DEF q
      <4>2. /\ \A h \in BOOLEAN : HasQ(q, Root, call, h) <=>
                 MailHas(Head(q), Root, call, h) \/ HasQ(Tail(q), Root, call, h)
            /\ OnceQ(q, Root, call) =>
                 /\ OnceQ(Tail(q), Root, call)
                 /\ MailCarries(Head(q), Root, call) => ~HasQ(Tail(q), Root, call, TRUE)
        BY <4>1, TailHas
      <4> QED BY <4>2 DEF q
    <3> QED BY <1>6, <3>1, <3>2 DEF m
  <2>6. /\ \A h \in BOOLEAN : ~HasV(vm[d], call, h) /\ ~HasV(vm'[d], call, h)
        /\ OnceV(vm'[d], call)
    <3>1. vm[d] = EmptyVM(vm[d].state) /\ vm'[d] = EmptyVM("gone")
      BY <1>4, <1>7, <1>11 DEF AccountInv, Emptied, gone
    <3>2. \A h \in BOOLEAN : ~HasV(EmptyVM(vm[d].state), call, h)
      BY EmptyHas
    <3>3. (\A h \in BOOLEAN : ~HasV(EmptyVM("gone"), call, h)) /\ OnceV(EmptyVM("gone"), call)
      BY EmptyHas
    <3> HIDE DEF call
    <3> QED BY <3>1, <3>2, <3>3
  <2>7. \A h \in BOOLEAN : /\ At(x, call, h)' <=> HasQ(queue'[d], d, call, h)
                           /\ At(x, call, h) <=> HasQ(queue[d], d, call, h)
                           /\ At(y, call, h)' <=> HasV(vm'[Root], call, h)
                           /\ At(y, call, h) <=> HasV(v, call, h)
    BY DEF At
  <2>8. vm'[Root] = w
    BY <1>1, <1>11
  <2>9. \A z \in Sites \ {x, y}, h \in BOOLEAN : At(z, call, h)' <=> At(z, call, h)
    <3> SUFFICES ASSUME NEW z \in Sites \ {x, y}, NEW h \in BOOLEAN
                 PROVE  At(z, call, h)' <=> At(z, call, h)
      OBVIOUS
    <3>1. PICK r \in Services : z = <<r, "vm">> \/ z = <<r, "queue">> \/ z = <<r, "timer">>
      BY SiteOf
    <3>2. CASE z = <<r, "vm">>
      <4>1. HasV(vm'[r], call, h) <=> HasV(vm[r], call, h)
        BY <1>11, <2>6, <3>2
      <4> QED BY <3>2, <4>1 DEF At
    <3>3. CASE z = <<r, "queue">>
      <4>1. HasQ(queue'[r], r, call, h) <=> HasQ(queue[r], r, call, h)
        BY <1>12, <2>5, <3>3
      <4> QED BY <3>3, <4>1 DEF At
    <3>4. CASE z = <<r, "timer">>
      BY <1>1, <3>4 DEF At
    <3> QED BY <3>1, <3>2, <3>3, <3>4
  <2> HIDE DEF left, x, y, v
  <2>10. lost' = lost /\ told' = told
    BY <1>1
  <2>11. Steps(call, x, y) /\ (call \notin told /\ Once(call) =>
           \A r \in Services : OnceV(vm'[r], call) /\ OnceQ(queue'[r], r, call))
    <3>1. CASE call \notin told
      <4>1. (call \notin told) = TRUE
        BY <3>1
      <4>2. Once(call)
        BY <1>1, <1>16, <1>18, <3>1, LiveOnce
      <4>3. ~(At(x, call, TRUE) /\ At(y, call, TRUE))
        BY <2>1, <4>2 DEF Once
      <4>4. \A r \in Services : OnceV(vm[r], call) /\ OnceQ(queue[r], r, call)
        BY <4>2 DEF Once
      <4>5. /\ At(x, call, TRUE)' \/ At(y, call, TRUE)' <=> At(x, call, TRUE) \/ At(y, call, TRUE)
            /\ ~At(x, call, TRUE)'
        BY <2>2, <2>3, <2>4, <2>7, <2>8
      <4>6. Steps(call, x, y)
        BY <2>9, <2>10, <3>1, <4>1, <4>5 DEF Steps
      <4>7. OnceV(w, call)
        BY <1>1, <2>2, <2>4, <2>7, <4>3, <4>4 DEF v
      <4>8. \A r \in Services : OnceV(vm'[r], call) /\ OnceQ(queue'[r], r, call)
        BY <1>11, <1>12, <2>3, <2>5, <2>6, <4>4, <4>7
      <4> QED BY <4>6, <4>8
    <3>2. CASE call \in told
      <4>1. (call \notin told) = FALSE
        BY <3>2
      <4>2. At(x, call, FALSE) \/ At(y, call, FALSE) =>
              At(x, call, FALSE)' \/ At(y, call, FALSE)' \/ call \in lost'
        BY <2>2, <2>4, <2>7, <2>8
      <4> QED BY <2>9, <2>10, <3>2, <4>1, <4>2 DEF Steps
    <3> QED BY <3>1, <3>2
  <2>12. WaitsOn(vm[c], vm'[c], k)
    BY <1>16, <1>18
  <2> QED BY <1>1, <1>18, <2>1, <2>10, <2>11, <2>12, Flow
<1> QED BY <1>14, <1>15, <1>17, <1>18 DEF AccountInv, Accounts

LEMMA RecvSignalAccount ==
  ASSUME AccountInv, Inv', Signals, RecvSignal
  PROVE  AccountInv'
BY RecvSignalFrom

-----------------------------------------------------------------------------
(* The dead stay dead.                                                     *)

StaysDead == \A x \in Services : vm[x].state # "live" => vm'[x].state # "live"

LEMMA SignalsKept ==
  ASSUME Signals, StaysDead, queue \in [Services -> Seq(Message)],
         \A r \in Services : \A i \in DOMAIN queue'[r] :
           \/ \E j \in DOMAIN queue[r] : queue[r][j] = queue'[r][i]
           \/ queue'[r][i].type = "signal" => vm'[queue'[r][i].from].state # "live"
  PROVE  Signals'
<1> SUFFICES ASSUME NEW r \in Services, NEW i \in DOMAIN queue'[r],
                    queue'[r][i].type = "signal"
             PROVE  vm'[queue'[r][i].from].state # "live"
  BY DEF Signals
<1>1. ASSUME NEW j \in DOMAIN queue[r], queue[r][j] = queue'[r][i]
      PROVE  vm'[queue'[r][i].from].state # "live"
  <2>1. queue[r][j] \in Message
    <3> DEFINE q == queue[r]
    <3>1. q \in Seq(Message)
      OBVIOUS
    <3> HIDE DEF q
    <3>2. \A n \in DOMAIN q : q[n] \in Message
      BY <3>1
    <3> QED BY <3>2 DEF q
  <2>2. queue[r][j].from \in Services
    BY <2>1 DEF Message
  <2> QED BY <1>1, <2>2 DEF Signals, StaysDead
<1> QED BY <1>1

LEMMA ChangeStays ==
  ASSUME NEW s \in Services, NEW v, NEW drop, Change(s, v, drop),
         vm \in [Services -> VM], vm[s].state = "live"
  PROVE  StaysDead
BY DEF Change, StaysDead

LEMMA UserStays ==
  ASSUME AccountInv, NEW s \in Users, UserStep(s)
  PROVE  StaysDead /\ UNCHANGED queue
<1>1. s \in Services /\ vm \in [Services -> VM]
  BY DEF Services, AccountInv, Inv, TypeOK
<1>2. ASSUME NEW v, NEW drop, Change(s, v, drop), vm[s].state = "live"
      PROVE  StaysDead
  BY <1>1, <1>2, ChangeStays
<1>3. ASSUME NEW v, Local(s, v), vm[s].state = "live"
      PROVE  StaysDead /\ UNCHANGED queue
  BY <1>2, <1>3 DEF Local
<1>4. ASSUME NEW m, PostMail(s, m), vm[s].state = "live"
      PROVE  StaysDead /\ UNCHANGED queue
  BY <1>2, <1>4 DEF PostMail
<1>5. ASSUME NEW ops, Running(s, ops)
      PROVE  vm[s].state = "live"
  BY <1>5 DEF Running
<1>6. \A to, op : SendRequest(s, to, op) => StaysDead /\ UNCHANGED queue
  BY <1>4, <1>5 DEF SendRequest, May
<1>7. \A op : WakeSelf(s, op) => StaysDead /\ UNCHANGED queue
  BY <1>4, <1>5 DEF WakeSelf, May
<1>8. SleepTime(s) => StaysDead /\ UNCHANGED queue
  BY <1>2, <1>5 DEF SleepTime, May
<1>9. ForkUser(s) \/ Quit(s) \/ Raise(s) => StaysDead /\ UNCHANGED queue
  BY <1>3, <1>5 DEF ForkUser, Quit, Raise, May
<1>10. NoResponse(s) => StaysDead /\ UNCHANGED queue
  BY <1>2, <1>5 DEF NoResponse, May
<1>11. Return(s) => StaysDead /\ UNCHANGED queue
  BY <1>3, <1>5 DEF Return
<1>12. \A w : Wait(s, w) \/ Wakeup(s, w) => StaysDead /\ UNCHANGED queue
  BY <1>3, <1>5 DEF Wait, Wakeup, May
<1>13. BeginSelect(s) \/ SelectSend(s) => StaysDead /\ UNCHANGED queue
  BY <1>3, <1>5 DEF BeginSelect, SelectSend, Selecting, May
<1>14. SelectSent(s) => StaysDead /\ UNCHANGED queue
  BY <1>2, <1>5 DEF SelectSent, Selecting
<1>15. SelectNext(s) => StaysDead /\ UNCHANGED queue
  BY <1>3, <1>5 DEF SelectNext, Selecting
<1>16. SelectWoken(s) \/ SelectClose(s) => StaysDead /\ UNCHANGED queue
  BY <1>3, <1>5 DEF SelectWoken, SelectClose, Selecting
<1> QED BY <1>6, <1>7, <1>8, <1>9, <1>10, <1>11, <1>12, <1>13, <1>14, <1>15, <1>16 DEF UserStep

LEMMA DeliverStays ==
  ASSUME AccountInv, NEW s \in Services, Deliver(s)
  PROVE  StaysDead
<1> DEFINE m == vm[s].post
           r == Receipt(m.to)
           v == [vm[s] EXCEPT !.post = None]
<1>1. /\ m \in Post /\ m # None /\ vm \in [Services -> VM]
      /\ Sent(s, v, m, r) \/ Told(s, v, m, r)
  BY DeliverFacts, AccountFacts DEF Deliver
<1>2. vm[s].state = "live"
  <2>1. EmptyVM(vm[s].state).post = None
    BY DEF EmptyVM
  <2> QED BY <1>1, <2>1 DEF AccountInv, Emptied
<1> HIDE DEF m, r, v
<1>3. ASSUME NEW w, NEW drop, Change(s, w, drop)
      PROVE  StaysDead
  BY <1>1, <1>2, <1>3, ChangeStays
<1>4. m.then \in {"call", "send", "sleep", "timeout", "select", "response",
                  "raised", "tell", "later", "report"}
  BY <1>1 DEF Post
<1>5. CASE Sent(s, v, m, r)
  <2>1. CASE m.then \in {"call", "sleep"}
    BY <1>3, <1>5, <2>1 DEF Sent
  <2>2. CASE m.then = "send"
    BY <1>3, <1>5, <2>2 DEF Sent
  <2>3. CASE m.then = "timeout"
    BY <1>3, <1>5, <2>3 DEF Sent
  <2>4. CASE m.then = "select"
    BY <1>3, <1>5, <2>4 DEF Sent
  <2>5. CASE m.then = "response"
    BY <1>3, <1>5, <2>5 DEF Sent
  <2>6. CASE m.then \in {"raised", "tell", "later", "report"}
    BY <1>5, <2>6 DEF Sent
  <2> QED BY <1>4, <2>1, <2>2, <2>3, <2>4, <2>5, <2>6
<1>6. CASE Told(s, v, m, r)
  <2>1. CASE m.then = "raised"
    BY <1>3, <1>6, <2>1 DEF Told
  <2>2. CASE m.then = "tell"
    BY <1>3, <1>6, <2>2 DEF Told
  <2>3. CASE m.then = "later"
    BY <1>3, <1>6, <2>3 DEF Told
  <2>4. CASE m.then = "report"
    BY <1>3, <1>6, <2>4 DEF Told
  <2>5. CASE m.then \in {"call", "send", "sleep", "timeout", "select", "response"}
    BY <1>6, <2>5 DEF Told
  <2> QED BY <1>4, <2>1, <2>2, <2>3, <2>4, <2>5
<1> QED BY <1>1, <1>5, <1>6

LEMMA TakenElements ==
  ASSUME AccountInv, NEW s \in Services, queue[s] # <<>>,
         queue' = [queue EXCEPT ![s] = Tail(@)]
  PROVE  \A r \in Services : \A i \in DOMAIN queue'[r] :
           \E j \in DOMAIN queue[r] : queue[r][j] = queue'[r][i]
<1>1. queue \in [Services -> Seq(Message)] /\ queue[s] \in Seq(Message)
  BY DEF AccountInv, Inv, TypeOK
<1>2. \A i \in DOMAIN Tail(queue[s]) : i + 1 \in DOMAIN queue[s] /\ Tail(queue[s])[i] = queue[s][i + 1]
  BY <1>1, TailElements
<1>3. \A r \in Services : queue'[r] = IF r = s THEN Tail(queue[s]) ELSE queue[r]
  BY <1>1
<1> QED BY <1>2, <1>3

LEMMA ArrivedElements ==
  ASSUME AccountInv, NEW s \in Services, NEW mail \in Message,
         queue' = [queue EXCEPT ![s] = Append(@, mail)]
  PROVE  \A r \in Services : \A i \in DOMAIN queue'[r] :
           (\E j \in DOMAIN queue[r] : queue[r][j] = queue'[r][i]) \/ queue'[r][i] = mail
<1>1. queue \in [Services -> Seq(Message)]
  BY DEF AccountInv, Inv, TypeOK
<1>2. \A r \in Services : queue'[r] = IF r = s THEN Append(queue[s], mail) ELSE queue[r]
  BY <1>1
<1> DEFINE q == queue[s]
<1>3. q \in Seq(Message)
  BY <1>1
<1> HIDE DEF q
<1>4. \A j \in DOMAIN Append(q, mail) :
        (j \in DOMAIN q /\ Append(q, mail)[j] = q[j]) \/ Append(q, mail)[j] = mail
  BY <1>3
<1> QED BY <1>2, <1>4 DEF q

LEMMA RuntimeSignals ==
  ASSUME AccountInv, Signals, NEW s \in Services, RuntimeStep(s)
  PROVE  Signals'
<1>1. vm \in [Services -> VM] /\ queue \in [Services -> Seq(Message)]
  BY DEF AccountInv, Inv, TypeOK
<1>2. ASSUME NEW v, NEW drop, Change(s, v, drop), vm[s].state = "live"
      PROVE  StaysDead
  BY <1>1, <1>2, ChangeStays
<1>3. ASSUME StaysDead, UNCHANGED queue
      PROVE  Signals'
  BY <1>1, <1>3, SignalsKept
<1>4. ASSUME StaysDead, queue[s] # <<>>, queue' = [queue EXCEPT ![s] = Tail(@)]
      PROVE  Signals'
  BY <1>1, <1>4, TakenElements, SignalsKept
<1>5. CASE BeginQuit(s) \/ TellEnd(s)
  BY <1>2, <1>3, <1>5 DEF BeginQuit, TellEnd, Local, Running
<1>6. CASE Report(s)
  BY <1>2, <1>3, <1>6 DEF Report, PostMail, Running
<1>7. CASE \E c \in Services, k \in (0..MaxSession) \cup {Nil} : Tell(s, <<c, k>>)
  BY <1>2, <1>3, <1>7 DEF Tell, Local, Running
<1>8. CASE RecvRequest(s)
  <2>1. Ready(s) /\ queue' = [queue EXCEPT ![s] = Tail(@)] /\ \E v : Change(s, v, {})
    BY <1>8 DEF RecvRequest
  <2> QED BY <1>2, <1>4, <2>1 DEF Ready
<1>9. CASE RecvAnswer(s)
  <2>1. Ready(s) /\ queue' = [queue EXCEPT ![s] = Tail(@)] /\ \E v : Change(s, v, {})
    BY <1>9 DEF RecvAnswer
  <2> QED BY <1>2, <1>4, <2>1 DEF Ready
<1>10. CASE Deliver(s)
  <2> DEFINE mail == Posted(s)
  <2>1. /\ queue' = queue \/ queue' = [queue EXCEPT ![vm[s].post.to] = Append(@, mail)]
        /\ vm[s].post \in Post
    BY <1>10, DeliverFacts DEF Deliver, Posted
  <2>2. mail \in Message /\ mail.type # "signal" /\ vm[s].post.to \in Services
    BY <2>1, NilAssumption DEF Posted, Message, Post
  <2>3. StaysDead
    BY <1>10, DeliverStays
  <2> HIDE DEF mail
  <2>4. CASE queue' = queue
    BY <1>3, <2>3, <2>4
  <2>5. CASE queue' = [queue EXCEPT ![vm[s].post.to] = Append(@, mail)]
    BY <1>1, <2>2, <2>3, <2>5, ArrivedElements, SignalsKept, SMTT(60)
  <2> QED BY <2>1, <2>4, <2>5
<1>11. CASE Signal(s)
  <2> DEFINE mail == [from |-> s, session |-> 0, type |-> "signal", report |-> None]
  <2>1. /\ queue' = [queue EXCEPT ![Root] = Append(@, mail)] /\ Root \in Services
        /\ vm' = [vm EXCEPT ![s] = [vm[s] EXCEPT !.state = "signalled"]]
    BY <1>11 DEF Signal, Services
  <2>2. mail \in Message /\ mail.from = s
    BY SessionAssumption DEF Message
  <2>3. vm'[s].state # "live" /\ StaysDead
    BY <1>1, <2>1 DEF VM, StaysDead
  <2> HIDE DEF mail
  <2> QED BY <1>1, <2>1, <2>2, <2>3, ArrivedElements, SignalsKept
<1> QED BY <1>5, <1>6, <1>7, <1>8, <1>9, <1>10, <1>11 DEF RuntimeStep

LEMMA FireSignals ==
  ASSUME AccountInv, Signals, NEW s \in Services, NEW k \in Sessions, Fire(s, k)
  PROVE  Signals'
<1> DEFINE mail == [from |-> s, session |-> k, type |-> "response", report |-> None]
<1>1. /\ queue' = [queue EXCEPT ![s] = Append(@, mail)] \/ UNCHANGED queue
      /\ UNCHANGED vm /\ queue \in [Services -> Seq(Message)]
  BY DEF Fire, AccountInv, Inv, TypeOK
<1>2. mail \in Message /\ mail.type # "signal" /\ StaysDead
  BY <1>1, SessionAssumption DEF Message, Sessions, StaysDead
<1> HIDE DEF mail
<1>3. CASE queue' = [queue EXCEPT ![s] = Append(@, mail)]
  BY <1>1, <1>2, <1>3, ArrivedElements, SignalsKept
<1>4. CASE UNCHANGED queue
  BY <1>1, <1>2, <1>4, SignalsKept
<1> QED BY <1>1, <1>3, <1>4

LEMMA RecvSignalSignals ==
  ASSUME AccountInv, Signals, RecvSignal, NEW d, d = Head(queue[Root]).from
  PROVE  Signals'
<1>1. /\ Ready(Root) /\ Root \in Services /\ queue[Root] # <<>> /\ vm[Root].state = "live"
      /\ Head(queue[Root]).type = "signal"
      /\ queue' = [queue EXCEPT ![Root] = Tail(@), ![d] = <<>>]
      /\ \E w : vm' = [vm EXCEPT ![d].state = "gone", ![Root] = w]
  BY DEF RecvSignal, Ready, Services
<1>2. vm \in [Services -> VM] /\ queue \in [Services -> Seq(Message)]
  BY DEF AccountInv, Inv, TypeOK
<1>3. d \in Services /\ d # Root
  <2>1. Head(queue[Root]) \in Message /\ 1 \in DOMAIN queue[Root] /\ queue[Root][1] = Head(queue[Root])
    BY <1>1, HeadLetter
  <2> QED BY <1>1, <2>1 DEF AccountInv, Inv, RootAsked, ForRoot, Message
<1>4. StaysDead
  <2>1. PICK w : vm' = [vm EXCEPT ![d] = [vm[d] EXCEPT !.state = "gone"], ![Root] = w]
    BY <1>1, <1>3
  <2>2. \A x \in Services : vm'[x] = IF x = Root THEN w ELSE IF x = d
                                     THEN [vm[d] EXCEPT !.state = "gone"] ELSE vm[x]
    BY <1>2, <1>3, <2>1
  <2>3. [vm[d] EXCEPT !.state = "gone"].state = "gone"
    BY <1>2, <1>3 DEF VM
  <2> QED BY <1>1, <1>3, <2>2, <2>3 DEF StaysDead
<1>5. \A x \in Services : queue'[x] = IF x = d THEN <<>>
                                      ELSE IF x = Root THEN Tail(queue[Root])
                                      ELSE queue[x]
  BY <1>1, <1>2, <1>3
<1>6. \A i \in DOMAIN Tail(queue[Root]) :
        i + 1 \in DOMAIN queue[Root] /\ Tail(queue[Root])[i] = queue[Root][i + 1]
  <2>1. queue[Root] \in Seq(Message)
    BY <1>1, <1>2
  <2> QED BY <1>1, <2>1, TailElements
<1>7. ASSUME NEW r \in Services, NEW i \in DOMAIN queue'[r]
      PROVE  \E j \in DOMAIN queue[r] : queue[r][j] = queue'[r][i]
  <2>1. CASE r = d
    <3>1. queue'[r] = <<>>
      BY <1>5, <2>1
    <3> QED BY <1>7, <3>1
  <2>2. CASE r # d /\ r = Root
    BY <1>5, <1>6, <1>7, <2>2
  <2>3. CASE r # d /\ r # Root
    BY <1>5, <1>7, <2>3
  <2> QED BY <2>1, <2>2, <2>3
<1> QED BY <1>2, <1>4, <1>7, SignalsKept

-----------------------------------------------------------------------------
(* The invariant.                                                          *)

LEMMA InitAccount ==
  ASSUME Init
  PROVE  AccountInv /\ Signals
<1> DEFINE first == CHOOSE t \in Thread : TRUE
           begun == [EmptyVM("live") EXCEPT !.run = first, !.job[first] = "user"]
           empty == EmptyVM("live")
<1>1. Inv
  BY InitInv
<1>2. /\ vm = [s \in Services |-> IF s = Root THEN empty ELSE begun]
      /\ queue = [s \in Services |-> <<>>]
      /\ timers = {} /\ lost = {} /\ told = {}
  BY DEF Init
<1>3. \A s \in Services : DOMAIN queue[s] = {}
  <2>1. \A s \in Services : queue[s] = <<>>
    BY <1>2
  <2>2. DOMAIN <<>> = {}
    OBVIOUS
  <2> QED BY <2>1, <2>2
<1>4. first \in Thread
  BY SessionAssumption
<1>5. /\ empty.from = [t \in Thread |-> None] /\ empty.session = [t \in Thread |-> Nil]
      /\ empty.todo = [t \in Thread |-> {}] /\ empty.post = None
      /\ empty.lookup = [k \in 0..MaxSession |-> None] /\ empty.state = "live"
      /\ empty.job = [t \in Thread |-> "free"]
  BY DEF EmptyVM
<1>6. /\ begun.from = empty.from /\ begun.session = empty.session /\ begun.todo = empty.todo
      /\ begun.post = None /\ begun.lookup = empty.lookup /\ begun.state = "live"
      /\ begun.job = [empty.job EXCEPT ![first] = "user"]
  BY DEF EmptyVM
<1> HIDE DEF begun, empty, first
<1>7. \A s \in Services : vm[s] \in {empty, begun}
  BY <1>2
<1>8. ASSUME NEW v \in {empty, begun}, NEW s
      PROVE  /\ Kept(s, v) /\ Emptied(v)
             /\ \A c \in Services, k \in Sessions : ~HasV(v, <<c, k>>, TRUE)
             /\ \A k \in Sessions : ~AwaitedV(v, k)
  <2>1. /\ \A t \in Thread : v.from[t] = None /\ v.todo[t] = {} /\ v.job[t] \in {"free", "user"}
        /\ v.post = None /\ v.state = "live"
        /\ \A k \in 0..MaxSession : v.lookup[k] = None
    <3>1. CASE v = empty
      BY <1>5, <3>1
    <3>2. CASE v = begun
      <4>1. \A t \in Thread : v.job[t] \in {"free", "user"}
        BY <1>4, <1>5, <1>6, <3>2
      <4>2. /\ v.from = empty.from /\ v.todo = empty.todo /\ v.lookup = empty.lookup
            /\ v.post = None /\ v.state = "live"
        BY <1>6, <3>2
      <4> QED BY <1>5, <4>1, <4>2
    <3> QED BY <1>8, <3>1, <3>2
  <2>2. Kept(s, v) /\ Emptied(v)
    BY <2>1 DEF Kept, JobKept, LookupKept, PostKept, Emptied
  <2>3. \A c \in Services, k \in Sessions : ~HasV(v, <<c, k>>, TRUE)
    BY <2>1, NilAssumption DEF HasV, PostHas, PostAnswers, PostCarries, HeldBy, TodoBy
  <2>4. \A k \in Sessions : ~AwaitedV(v, k)
    BY <2>1, NilAssumption, SessionAssumption DEF AwaitedV, Sessions
  <2> QED BY <2>2, <2>3, <2>4
<1>9. Letters /\ Signals
  BY <1>3 DEF Letters, Signals
<1>10. Past
  BY <1>2 DEF Past
<1>11. ASSUME NEW c \in Services, NEW k \in Sessions
       PROVE  Account(c, k)
  <2>1. \A x \in Sites : ~At(x, <<c, k>>, TRUE)
    <3>1. \A s \in Services : ~HasV(vm[s], <<c, k>>, TRUE) /\ ~HasQ(queue[s], s, <<c, k>>, TRUE)
      BY <1>3, <1>7, <1>8 DEF HasQ
    <3> QED BY <1>2, <3>1 DEF At, Sites
  <2>2. \A s \in Services : OnceV(vm[s], <<c, k>>) /\ OnceQ(queue[s], s, <<c, k>>)
    BY <1>3, <1>7, <1>8, NowhereOnce DEF OnceQ
  <2>3. ~Awaited(c, k)
    BY <1>7, <1>8 DEF Awaited, AwaitedV
  <2> QED BY <2>1, <2>2, <2>3 DEF Account, Once, Has
<1> QED BY <1>1, <1>7, <1>8, <1>9, <1>10, <1>11 DEF AccountInv, Accounts

LEMMA RuntimeAccount ==
  ASSUME AccountInv, Inv', NEW s \in Services, RuntimeStep(s)
  PROVE  AccountInv'
<1>1. CASE \E c \in Services, k \in (0..MaxSession) \cup {Nil} : Tell(s, <<c, k>>)
  BY <1>1, TellAccount
<1> QED BY <1>1, BeginQuitAccount, TellEndAccount, ReportAccount, DeliverAccount,
           RecvRequestAccount, RecvAnswerAccount, SignalAccount DEF RuntimeStep

LEMMA NextAccount ==
  ASSUME AccountInv, Signals, [Next]_vars
  PROVE  AccountInv' /\ Signals'
<1>1. Inv'
  BY NextInv DEF AccountInv
<1>2. CASE UNCHANGED vars
  <2>1. \A x, call, h : At(x, call, h)' <=> At(x, call, h)
    BY <1>2 DEF vars, At
  <2>2. \A call, h : Has(call, h)' <=> Has(call, h)
    BY <2>1 DEF Has
  <2>3. \A c, k : Awaited(c, k)' <=> Awaited(c, k)
    BY <1>2 DEF vars, Awaited
  <2>4. \A call : Once(call)' <=> Once(call)
    BY <1>2, <2>1 DEF vars, Once
  <2>5. ASSUME NEW c \in Services, NEW k \in Sessions, Account(c, k)
        PROVE  Account(c, k)'
    <3>1. <<c, k>> \in told' <=> <<c, k>> \in told
      BY <1>2 DEF vars
    <3>2. ASSUME Awaited(c, k)', <<c, k>> \notin lost
          PROVE  Has(<<c, k>>, <<c, k>> \notin told)'
      <4>1. told' = told
        BY <1>2 DEF vars
      <4>2. Has(<<c, k>>, <<c, k>> \notin told)
        BY <2>3, <2>5, <3>2 DEF Account
      <4> QED BY <2>2, <4>1, <4>2
    <3> QED BY <1>2, <2>2, <2>3, <2>4, <2>5, <3>1, <3>2 DEF vars, Account
  <2>6. Past' <=> Past
    BY <1>2 DEF vars, Past
  <2>7. (Accounts => Accounts') /\ (Letters => Letters') /\ (Signals => Signals')
    BY <1>2, <2>5 DEF vars, Accounts, Letters, Signals
  <2> QED BY <1>1, <1>2, <2>6, <2>7 DEF vars, AccountInv
<1>3. CASE \E s \in Users : UserStep(s)
  <2>1. PICK s \in Users : UserStep(s)
    BY <1>3
  <2>2. StaysDead /\ UNCHANGED queue /\ queue \in [Services -> Seq(Message)]
    BY <2>1, UserStays DEF AccountInv, Inv, TypeOK
  <2>3. Signals'
    BY <2>2, SignalsKept
  <2> QED BY <1>1, <2>1, <2>3, UserAccount
<1>4. CASE \E s \in Services : RuntimeStep(s)
  BY <1>1, <1>4, RuntimeAccount, RuntimeSignals
<1>5. CASE RecvSignal
  BY <1>1, <1>5, RecvSignalAccount, RecvSignalSignals
<1>6. CASE \E s \in Services, k \in Sessions : Fire(s, k)
  BY <1>1, <1>6, FireAccount, FireSignals
<1> QED BY <1>2, <1>3, <1>4, <1>5, <1>6 DEF Next

(* The answer of every session that a coroutine of a service that lives waits
   for is at one place of the runtime, of a queue or of the timer service, and
   once it came (ltask/service/service.lua: the main loop clears its entry in
   session_coroutine_suspend_lookup) it is nowhere. *)
THEOREM AccountHolds == Spec => [](AccountInv /\ Signals)
BY InitAccount, NextAccount, PTL DEF Spec

-----------------------------------------------------------------------------
(* No service gets an answer for which none of its coroutines waits.       *)

LEMMA StrayNone ==
  ASSUME AccountInv, ~aborted
  PROVE  NoStray
<1> SUFFICES ASSUME NEW c \in Services, vm[c].state = "live", NEW i \in DOMAIN queue[c],
                    queue[c][i].type \in {"response", "error"},
                    vm[c].lookup[queue[c][i].session] = None,
                    <<c, queue[c][i].session>> \notin told
             PROVE  queue[c][i].session = 0 /\ queue[c][i].from = Root
  BY DEF NoStray
<1> DEFINE m == queue[c][i]
           k == m.session
<1>1. LetterOK(c, m)
  BY DEF AccountInv, Letters
<1>2. m \in Message
  BY DEF AccountInv, Inv, TypeOK
<1>3. k \in 0..MaxSession
  BY <1>2 DEF Message
<1>4. CASE k = 0
  BY <1>1, <1>4 DEF LetterOK
<1>5. CASE k # 0
  <2>1. k \in Sessions
    BY <1>3, <1>5, SessionAssumption DEF Sessions
  <2>2. m.report = None /\ m.type # "request" /\ m.type # "signal"
    BY <1>1 DEF LetterOK
  <2>3. MailHas(m, c, <<c, k>>, TRUE)
    BY <2>2 DEF MailHas, MailCarries
  <2>4. HasQ(queue[c], c, <<c, k>>, TRUE)
    BY <2>3 DEF HasQ
  <2>5. <<c, "queue">> \in Sites /\ At(<<c, "queue">>, <<c, k>>, TRUE)
    BY <2>4 DEF Sites, At
  <2>6. Has(<<c, k>>, TRUE)
    BY <2>5 DEF Has
  <2>7. Asks(vm[c], k)
    BY <2>1, <2>6, HasDue DEF AccountInv, Inv, Asked
  <2>8. k < vm[c].next
    BY <2>7 DEF Asks
  <2>9. Account(c, k)
    BY <2>1 DEF AccountInv, Accounts
  <2> QED BY <2>6, <2>8, <2>9 DEF Account
<1> QED BY <1>4, <1>5

(* The assertion that fails in the code takes no message from a queue. *)
LEMMA StrayAborting ==
  ASSUME AccountInv, NoStray, [Next]_vars, aborted'
  PROVE  NoStray'
<1>1. SUFFICES /\ queue' = queue /\ told' = told
               /\ \A c \in Services : vm'[c].state = "live" =>
                    vm[c].state = "live" /\ vm'[c].lookup = vm[c].lookup
  BY DEF NoStray
<1>2. CASE UNCHANGED vars
  BY <1>2 DEF vars
<1>3. CASE Next
  <2>1. \A s \in Users : ~UserStep(s)
    BY ZenonT(90) DEF UserStep, SendRequest, WakeSelf, SleepTime, ForkUser, NoResponse, Quit, Raise,
           Return, Wait, Wakeup, BeginSelect, SelectSend, SelectSent, SelectNext,
           SelectWoken, SelectClose, Selecting, May, Running, PostMail, Local
  <2>2. ~RecvSignal /\ \A s \in Services, k \in Sessions : ~Fire(s, k)
    BY DEF RecvSignal, Ready, Fire
  <2>3. PICK s \in Services : RuntimeStep(s)
    BY <1>3, <2>1, <2>2 DEF Next
  <2>4. Deliver(s)
    BY <2>3 DEF RuntimeStep, BeginQuit, TellEnd, Report, RecvRequest, RecvAnswer, Signal,
             Tell, Ready, Running, PostMail, Local
  <2> DEFINE v == [vm[s] EXCEPT !.post = None]
             m == vm[s].post
             r == Receipt(m.to)
  <2>5. Told(s, v, m, r) /\ ~aborted
    BY <2>4 DEF Deliver
  <2>6. queue' = IF r = "done"
                 THEN [queue EXCEPT ![m.to] = Append(@,
                        [from |-> s, session |-> m.session, type |-> m.type,
                         report |-> IF m.type = "request" THEN m.report ELSE None])]
                 ELSE queue
    BY <2>4 DEF Deliver
  <2> HIDE DEF r, m, v
  <2>7. m.then = "raised" /\ r = "block"
    BY <2>5 DEF Told
  <2>8. Change(s, v, {}) /\ told' = told
    BY <2>5, <2>7 DEF Told
  <2>9. /\ vm \in [Services -> VM]
        /\ vm' = [vm EXCEPT ![s] = IF v.state = "live" THEN v ELSE EmptyVM("dead")]
    BY <2>8 DEF AccountInv, Inv, TypeOK, Change
  <2>10. v.lookup = vm[s].lookup /\ v.state = vm[s].state
    BY <2>9 DEF v, VM
  <2>11. \A c \in Services : vm'[c].state = "live" =>
            vm[c].state = "live" /\ vm'[c].lookup = vm[c].lookup
    <3>1. EmptyVM("dead").state = "dead"
      BY DEF EmptyVM
    <3>2. ASSUME NEW c \in Services, c # s
          PROVE  vm'[c] = vm[c]
      BY <2>9, <3>2
    <3>3. vm'[s] = IF v.state = "live" THEN v ELSE EmptyVM("dead")
      BY <2>9
    <3> QED BY <2>10, <3>1, <3>2, <3>3
  <2> QED BY <2>6, <2>7, <2>8, <2>11
<1> QED BY <1>2, <1>3

(* A response or an error in a queue has a coroutine that waits for it
   (ltask/service/service.lua: the main loop quits the service when it gets
   another), for every number of services, coroutines and sessions, and
   whatever the services, root and the timers do: only what a quitting
   service has answered twice can stray. *)
THEOREM NoneStray == Spec => []NoStray
<1>1. Init => NoStray
  BY InitAccount, StrayNone DEF Init
<1>2. AccountInv /\ ~aborted => NoStray
  BY StrayNone
<1>3. (AccountInv /\ ~aborted => NoStray)'
  BY <1>2, PTL
<1>4. AccountInv /\ Signals /\ NoStray /\ [Next]_vars => NoStray'
  BY <1>3, NextAccount, StrayAborting
<1> QED BY <1>1, <1>4, AccountHolds, PTL DEF Spec

-----------------------------------------------------------------------------
(* A coroutine that waits is owed one answer.                              *)

MailsOf(call) ==
  {p \in Services \X (1..QueueLen) :
     p[2] <= Len(queue[p[1]]) /\ MailCarries(queue[p[1]][p[2]], p[1], call)}
PostsOf(call) == {s \in Services : PostCarries(vm[s], call)}
HeldOf(call) ==
  {p \in Services \X Thread : HeldBy(vm[p[1]], p[2], call) /\ call \notin told}
TodosOf(call) == {p \in Services \X Thread : TodoBy(vm[p[1]], p[2], call)}

LEMMA CarriersSum ==
  ASSUME NEW c \in Services, NEW k \in Sessions
  PROVE  Carriers(c, k) =
           Cardinality(MailsOf(<<c, k>>)) + Cardinality(PostsOf(<<c, k>>))
           + Cardinality(HeldOf(<<c, k>>)) + Cardinality(TodosOf(<<c, k>>))
           + Cardinality({<<c, k>>} \cap timers)
<1>1. HeldOf(<<c, k>>) = {p \in Services \X Thread :
          vm[p[1]].from[p[2]] = c /\ vm[p[1]].session[p[2]] = k /\ <<c, k>> \notin told}
  BY DEF HeldOf, HeldBy
<1>2. TodosOf(<<c, k>>) = {p \in Services \X Thread :
          <<c, k>> \in vm[p[1]].todo[p[2]] /\ vm[p[1]].job[p[2]] # "quitting"}
  BY DEF TodosOf, TodoBy
<1> QED BY <1>1, <1>2 DEF Carriers, MailsOf, PostsOf

(* The wakeup a service sends itself has a session nobody waits for yet. *)
LEMMA PostsAnswer ==
  ASSUME AccountInv, NEW c \in Services, NEW k \in Sessions, Awaited(c, k),
         NEW s \in Services, PostCarries(vm[s], <<c, k>>)
  PROVE  PostAnswers(vm[s], <<c, k>>)
<1> DEFINE m == vm[s].post
<1>1. /\ m # None
      /\ m.report # None => m.then = "later"
      /\ m.report = None => m.type # "request" /\ <<m.to, m.session>> = <<c, k>>
  BY DEF PostCarries
<1>2. m \in Post
  BY <1>1, VMFields DEF AccountInv, Inv, TypeOK
<1>3. m.then \in {"call", "send", "sleep", "timeout", "select", "response",
                  "raised", "tell", "later", "report"}
  BY <1>2 DEF Post
<1>4. PostOK(s, vm[s]) /\ PostKept(s, vm[s]) /\ LookupKept(vm[c])
  BY DEF AccountInv, Inv, Good, Kept
<1>5. m.then # "report"
  <2>1. m.then = "report" => m.report # None
    BY <1>1, <1>4, NilAssumption DEF PostOK
  <2> QED BY <1>1, <2>1
<1>6. m.then \notin {"call", "send", "select"}
  BY <1>1, <1>4 DEF PostOK
<1>7. m.then \notin {"sleep", "timeout"}
  <2>1. SUFFICES ASSUME m.then \in {"sleep", "timeout"} PROVE FALSE
    OBVIOUS
  <2>2. m.report = None /\ m.to = s /\ m.session = vm[s].next
    BY <1>1, <1>4, <2>1 DEF PostOK
  <2>3. c = s /\ k = vm[c].next
    BY <1>1, <2>2
  <2>4. k \in 0..MaxSession /\ k >= vm[c].next
    BY <2>3, SessionAssumption DEF Sessions
  <2>5. vm[c].lookup[k] = None
    BY <1>4, <2>4 DEF LookupKept
  <2> QED BY <2>5, NilAssumption DEF Awaited
<1> QED BY <1>3, <1>5, <1>6, <1>7 DEF PostAnswers

(* What carries an answer is at a site. *)
LEMMA CarriersAt ==
  ASSUME AccountInv, NEW c \in Services, NEW k \in Sessions, Awaited(c, k)
  PROVE  /\ \A p \in MailsOf(<<c, k>>) :
              <<p[1], "queue">> \in Sites /\ At(<<p[1], "queue">>, <<c, k>>, TRUE)
         /\ \A s \in PostsOf(<<c, k>>) :
              <<s, "vm">> \in Sites /\ At(<<s, "vm">>, <<c, k>>, TRUE)
         /\ \A p \in HeldOf(<<c, k>>) \cup TodosOf(<<c, k>>) :
              <<p[1], "vm">> \in Sites /\ At(<<p[1], "vm">>, <<c, k>>, TRUE)
         /\ <<c, k>> \in timers =>
              <<c, "timer">> \in Sites /\ At(<<c, "timer">>, <<c, k>>, TRUE)
<1>1. ASSUME NEW p \in MailsOf(<<c, k>>)
      PROVE  <<p[1], "queue">> \in Sites /\ At(<<p[1], "queue">>, <<c, k>>, TRUE)
  <2>1. /\ p[1] \in Services /\ p[2] \in 1..QueueLen /\ p[2] <= Len(queue[p[1]])
        /\ MailCarries(queue[p[1]][p[2]], p[1], <<c, k>>)
    BY DEF MailsOf
  <2>2. queue[p[1]] \in Seq(Message)
    BY <2>1 DEF AccountInv, Inv, TypeOK
  <2>3. p[2] \in DOMAIN queue[p[1]]
    BY <2>1, <2>2, SessionAssumption
  <2>4. HasQ(queue[p[1]], p[1], <<c, k>>, TRUE)
    BY <2>1, <2>3 DEF HasQ, MailHas
  <2> QED BY <2>1, <2>4 DEF Sites, At
<1>2. ASSUME NEW s \in PostsOf(<<c, k>>)
      PROVE  <<s, "vm">> \in Sites /\ At(<<s, "vm">>, <<c, k>>, TRUE)
  <2>1. s \in Services /\ PostCarries(vm[s], <<c, k>>)
    BY DEF PostsOf
  <2>2. HasV(vm[s], <<c, k>>, TRUE)
    BY <2>1, PostsAnswer DEF HasV, PostHas
  <2> QED BY <2>1, <2>2 DEF Sites, At
<1>3. ASSUME NEW p \in HeldOf(<<c, k>>) \cup TodosOf(<<c, k>>)
      PROVE  <<p[1], "vm">> \in Sites /\ At(<<p[1], "vm">>, <<c, k>>, TRUE)
  <2>1. /\ p[1] \in Services /\ p[2] \in Thread
        /\ HeldBy(vm[p[1]], p[2], <<c, k>>) \/ TodoBy(vm[p[1]], p[2], <<c, k>>)
    BY DEF HeldOf, TodosOf
  <2>2. HasV(vm[p[1]], <<c, k>>, TRUE)
    BY <2>1 DEF HasV
  <2> QED BY <2>1, <2>2 DEF Sites, At
<1>4. <<c, k>> \in timers =>
        <<c, "timer">> \in Sites /\ At(<<c, "timer">>, <<c, k>>, TRUE)
  BY DEF Sites, At
<1> QED BY <1>1, <1>2, <1>3, <1>4

(* At a site there is something that carries the answer. *)
LEMMA AtCarriers ==
  ASSUME AccountInv, NEW c \in Services, NEW k \in Sessions, NEW h \in BOOLEAN,
         h => <<c, k>> \notin told,
         NEW x \in Sites, At(x, <<c, k>>, h)
  PROVE  \/ x[2] = "queue" /\ MailsOf(<<c, k>>) # {}
         \/ x[2] = "vm" /\ PostsOf(<<c, k>>) # {}
         \/ x[2] = "vm" /\ HeldOf(<<c, k>>) # {}
         \/ x[2] = "vm" /\ TodosOf(<<c, k>>) # {}
         \/ x[2] = "timer" /\ <<c, k>> \in timers
<1>1. x[1] \in Services
  BY DEF Sites
<1>2. CASE x[2] = "vm" /\ HasV(vm[x[1]], <<c, k>>, h)
  <2>1. CASE PostHas(vm[x[1]], <<c, k>>, h)
    <3>1. x[1] \in PostsOf(<<c, k>>)
      BY <1>1, <2>1 DEF PostHas, PostAnswers, PostsOf
    <3> QED BY <1>2, <3>1
  <2>2. CASE h /\ \E t \in Thread : HeldBy(vm[x[1]], t, <<c, k>>)
    <3>1. PICK t \in Thread : HeldBy(vm[x[1]], t, <<c, k>>)
      BY <2>2
    <3>2. <<x[1], t>> \in HeldOf(<<c, k>>)
      BY <1>1, <2>2, <3>1 DEF HeldOf
    <3> QED BY <1>2, <3>2
  <2>3. CASE \E t \in Thread : TodoBy(vm[x[1]], t, <<c, k>>)
    <3>1. PICK t \in Thread : TodoBy(vm[x[1]], t, <<c, k>>)
      BY <2>3
    <3>2. <<x[1], t>> \in TodosOf(<<c, k>>)
      BY <1>1, <3>1 DEF TodosOf
    <3> QED BY <1>2, <3>2
  <2> QED BY <1>2, <2>1, <2>2, <2>3 DEF HasV
<1>3. CASE x[2] = "queue" /\ HasQ(queue[x[1]], x[1], <<c, k>>, h)
  <2>1. PICK i \in DOMAIN queue[x[1]] : MailCarries(queue[x[1]][i], x[1], <<c, k>>)
    BY <1>3 DEF HasQ, MailHas
  <2>2. queue[x[1]] \in Seq(Message) /\ Len(queue[x[1]]) <= QueueLen
    BY <1>1 DEF AccountInv, Inv, TypeOK
  <2>3. i \in 1..QueueLen /\ i <= Len(queue[x[1]])
    BY <2>1, <2>2, SessionAssumption
  <2>4. <<x[1], i>> \in MailsOf(<<c, k>>)
    BY <1>1, <2>1, <2>3 DEF MailsOf
  <2> QED BY <1>3, <2>4
<1> QED BY <1>2, <1>3 DEF At

LEMMA JustOne ==
  ASSUME NEW S, S # {}, \A x, y \in S : x = y
  PROVE  Cardinality(S) = 1
<1>1. PICK x \in S : S = {x}
  OBVIOUS
<1> QED BY <1>1, FS_Singleton

(* The sets of what carries an answer are finite. *)
LEMMA CarriersFinite ==
  ASSUME AccountInv, NEW call
  PROVE  /\ Cardinality(MailsOf(call)) \in Nat /\ (MailsOf(call) # {} => Cardinality(MailsOf(call)) > 0)
         /\ Cardinality(PostsOf(call)) \in Nat /\ (PostsOf(call) # {} => Cardinality(PostsOf(call)) > 0)
         /\ Cardinality(HeldOf(call)) \in Nat /\ (HeldOf(call) # {} => Cardinality(HeldOf(call)) > 0)
         /\ Cardinality(TodosOf(call)) \in Nat /\ (TodosOf(call) # {} => Cardinality(TodosOf(call)) > 0)
         /\ Cardinality({call} \cap timers) \in Nat
         /\ call \in timers => Cardinality({call} \cap timers) > 0
<1>1. IsFiniteSet(Services) /\ IsFiniteSet(Thread)
  BY SessionAssumption, FS_AddElement DEF Services
<1>2. IsFiniteSet(1..QueueLen)
  BY SessionAssumption, FS_Interval
<1>3. IsFiniteSet(Services \X (1..QueueLen)) /\ IsFiniteSet(Services \X Thread)
  BY <1>1, <1>2, FS_Product
<1>4. IsFiniteSet({call})
  BY FS_Singleton
<1>5. ASSUME NEW S, IsFiniteSet(S), NEW T, T \subseteq S
      PROVE  Cardinality(T) \in Nat /\ (T # {} => Cardinality(T) > 0)
  <2>1. IsFiniteSet(T)
    BY <1>5, FS_Subset
  <2>2. Cardinality(T) \in Nat /\ (Cardinality(T) = 0 <=> T = {})
    BY <2>1, FS_CardinalityType, FS_EmptySet
  <2> QED BY <2>2
<1>6. /\ MailsOf(call) \subseteq Services \X (1..QueueLen)
      /\ PostsOf(call) \subseteq Services
      /\ HeldOf(call) \subseteq Services \X Thread
      /\ TodosOf(call) \subseteq Services \X Thread
      /\ {call} \cap timers \subseteq {call}
      /\ call \in timers => {call} \cap timers # {}
  BY DEF MailsOf, PostsOf, HeldOf, TodosOf
<1> QED BY <1>1, <1>3, <1>4, <1>5, <1>6

(* What is once at its sites is carried by one thing. *)
LEMMA CarriedOnce ==
  ASSUME AccountInv, NEW c \in Services, NEW k \in Sessions, Awaited(c, k),
         <<c, k>> \notin told, Once(<<c, k>>), Has(<<c, k>>, TRUE)
  PROVE  Carriers(c, k) = 1
<1> DEFINE call == <<c, k>>
           M == MailsOf(call)
           P == PostsOf(call)
           H == HeldOf(call)
           T == TodosOf(call)
           R == {call} \cap timers
<1>1. PICK x \in Sites : At(x, call, TRUE)
  BY DEF Has
<1>2. \A y \in Sites : At(y, call, TRUE) => y = x
  BY <1>1 DEF Once
<1>3. /\ \A p \in M : <<p[1], "queue">> = x
      /\ \A s \in P : <<s, "vm">> = x
      /\ \A p \in H \cup T : <<p[1], "vm">> = x
      /\ call \in timers => <<c, "timer">> = x
  BY <1>2, CarriersAt
<1>4. \/ x[2] = "queue" /\ M # {}
      \/ x[2] = "vm" /\ P # {}
      \/ x[2] = "vm" /\ H # {}
      \/ x[2] = "vm" /\ T # {}
      \/ x[2] = "timer" /\ call \in timers
  BY <1>1, AtCarriers
<1>5. \A s \in Services : OnceV(vm[s], call) /\ OnceQ(queue[s], s, call)
  BY DEF Once
<1>6. /\ \A p \in M : /\ p = <<p[1], p[2]>> /\ p[1] = x[1] /\ p[1] \in Services
                      /\ p[2] \in DOMAIN queue[p[1]]
                      /\ MailCarries(queue[p[1]][p[2]], p[1], call)
      /\ \A s \in P : s = x[1] /\ s \in Services /\ PostAnswers(vm[s], call)
      /\ \A p \in H : /\ p = <<p[1], p[2]>> /\ p[1] = x[1] /\ p[1] \in Services
                      /\ p[2] \in Thread /\ HeldBy(vm[p[1]], p[2], call)
      /\ \A p \in T : /\ p = <<p[1], p[2]>> /\ p[1] = x[1] /\ p[1] \in Services
                      /\ p[2] \in Thread /\ TodoBy(vm[p[1]], p[2], call)
  <2>1. ASSUME NEW p \in M
        PROVE  /\ p = <<p[1], p[2]>> /\ p[1] = x[1] /\ p[1] \in Services
               /\ p[2] \in DOMAIN queue[p[1]]
               /\ MailCarries(queue[p[1]][p[2]], p[1], call)
    <3>1. /\ p \in Services \X (1..QueueLen) /\ p[2] <= Len(queue[p[1]])
          /\ MailCarries(queue[p[1]][p[2]], p[1], call)
      BY DEF MailsOf
    <3>2. <<p[1], "queue">> = x
      BY <1>3
    <3>3. queue[p[1]] \in Seq(Message)
      BY <3>1 DEF AccountInv, Inv, TypeOK
    <3>4. p[2] \in DOMAIN queue[p[1]]
      BY <3>1, <3>3, SessionAssumption
    <3> QED BY <3>1, <3>2, <3>4
  <2>2. ASSUME NEW s \in P
        PROVE  s = x[1] /\ s \in Services /\ PostAnswers(vm[s], call)
    <3>1. s \in Services /\ PostCarries(vm[s], call)
      BY DEF PostsOf
    <3>2. <<s, "vm">> = x
      BY <1>3
    <3> QED BY <3>1, <3>2, PostsAnswer
  <2>3. ASSUME NEW p \in H
        PROVE  /\ p = <<p[1], p[2]>> /\ p[1] = x[1] /\ p[1] \in Services
               /\ p[2] \in Thread /\ HeldBy(vm[p[1]], p[2], call)
    <3>1. p \in Services \X Thread /\ HeldBy(vm[p[1]], p[2], call)
      BY DEF HeldOf
    <3>2. <<p[1], "vm">> = x
      BY <1>3
    <3> QED BY <3>1, <3>2
  <2>4. ASSUME NEW p \in T
        PROVE  /\ p = <<p[1], p[2]>> /\ p[1] = x[1] /\ p[1] \in Services
               /\ p[2] \in Thread /\ TodoBy(vm[p[1]], p[2], call)
    <3>1. p \in Services \X Thread /\ TodoBy(vm[p[1]], p[2], call)
      BY DEF TodosOf
    <3>2. <<p[1], "vm">> = x
      BY <1>3
    <3> QED BY <3>1, <3>2
  <2> QED BY <2>1, <2>2, <2>3, <2>4
<1>7. Carriers(c, k) = Cardinality(M) + Cardinality(P) + Cardinality(H)
                       + Cardinality(T) + Cardinality(R)
  BY CarriersSum
<1>8. Cardinality({}) = 0 /\ Cardinality({call}) = 1
  BY FS_EmptySet, FS_Singleton
<1>9. (call \notin timers => R = {}) /\ (call \in timers => R = {call})
  OBVIOUS
<1>10. x[1] \in Services
  BY DEF Sites
<1>11. /\ M # {} => x[2] = "queue"
       /\ P # {} \/ H # {} \/ T # {} => x[2] = "vm"
       /\ call \in timers => x[2] = "timer"
  BY <1>3
<1> HIDE DEF M, P, H, T, R
<1>12. CASE x[2] = "queue"
  <2>1. M # {} /\ P = {} /\ H = {} /\ T = {} /\ R = {}
    BY <1>4, <1>9, <1>11, <1>12
  <2>2. ASSUME NEW p \in M, NEW q \in M
        PROVE  p = q
    <3>1. p[2] = q[2]
      BY <1>5, <1>6, <1>10 DEF OnceQ
    <3> QED BY <1>6, <3>1
  <2>3. Cardinality(M) = 1
    BY <2>1, <2>2, JustOne
  <2> QED BY <1>7, <1>8, <2>1, <2>3
<1>13. CASE x[2] = "timer"
  <2>1. M = {} /\ P = {} /\ H = {} /\ T = {} /\ R = {call}
    BY <1>4, <1>9, <1>11, <1>13
  <2> QED BY <1>7, <1>8, <2>1
<1>14. CASE x[2] = "vm"
  <2>1. M = {} /\ R = {} /\ (P # {} \/ H # {} \/ T # {})
    BY <1>4, <1>9, <1>11, <1>14
  <2>2. OnceV(vm[x[1]], call)
    BY <1>5, <1>10
  <2>3. CASE P # {}
    <3>1. PICK s \in P : s = x[1] /\ PostAnswers(vm[s], call)
      BY <1>6, <2>3
    <3>2. \A t \in Thread : ~HeldBy(vm[x[1]], t, call) /\ ~TodoBy(vm[x[1]], t, call)
      BY <2>2, <3>1 DEF OnceV
    <3>3. H = {} /\ T = {}
      BY <1>6, <3>2
    <3>4. Cardinality(P) = 1
      BY <1>6, <2>3, JustOne
    <3> QED BY <1>7, <1>8, <2>1, <3>3, <3>4
  <2>4. CASE P = {} /\ H # {}
    <3>1. PICK p \in H : p[1] = x[1] /\ p[2] \in Thread /\ HeldBy(vm[p[1]], p[2], call)
      BY <1>6, <2>4
    <3>2. \A t \in Thread : ~TodoBy(vm[x[1]], t, call)
      BY <2>2, <3>1 DEF OnceV
    <3>3. T = {}
      BY <1>6, <3>2
    <3>4. ASSUME NEW q \in H, NEW r \in H
          PROVE  q = r
      <4>1. q[2] = r[2]
        BY <1>6, <2>2 DEF OnceV
      <4> QED BY <1>6, <4>1
    <3>5. Cardinality(H) = 1
      BY <2>4, <3>4, JustOne
    <3> QED BY <1>7, <1>8, <2>1, <2>4, <3>3, <3>5
  <2>5. CASE P = {} /\ H = {}
    <3>1. ASSUME NEW q \in T, NEW r \in T
          PROVE  q = r
      <4>1. q[2] = r[2]
        BY <1>6, <2>2 DEF OnceV
      <4> QED BY <1>6, <4>1
    <3>2. Cardinality(T) = 1
      BY <2>1, <2>5, <3>1, JustOne
    <3> QED BY <1>7, <1>8, <2>1, <2>5, <3>2
  <2> QED BY <2>3, <2>4, <2>5
<1> QED BY <1>4, <1>12, <1>13, <1>14

LEMMA OwedOne ==
  ASSUME AccountInv
  PROVE  OneAnswer
<1> SUFFICES ASSUME ~aborted, NEW c \in Services, NEW k \in Sessions, Awaited(c, k)
             PROVE  /\ <<c, k>> \notin lost \cup told => Carriers(c, k) = 1
                    /\ <<c, k>> \in told \ lost => Carriers(c, k) >= 1
                    /\ <<c, k>> \in lost \ told => Carriers(c, k) = 0
  BY DEF OneAnswer
<1> DEFINE call == <<c, k>>
           M == MailsOf(call)
           P == PostsOf(call)
           H == HeldOf(call)
           T == TodosOf(call)
           R == {call} \cap timers
<1>1. Account(c, k)
  BY DEF AccountInv, Accounts, Awaited
<1>2. ASSUME call \notin lost \cup told
      PROVE  Carriers(c, k) = 1
  <2>1. (call \notin told) = TRUE
    BY <1>2
  <2>2. Has(call, TRUE) /\ Once(call)
    BY <1>1, <1>2, <2>1 DEF Account
  <2> QED BY <1>2, <2>2, CarriedOnce
<1>3. Carriers(c, k) = Cardinality(M) + Cardinality(P) + Cardinality(H)
                       + Cardinality(T) + Cardinality(R)
  BY CarriersSum
<1>4. /\ Cardinality(M) \in Nat /\ (M # {} => Cardinality(M) > 0)
      /\ Cardinality(P) \in Nat /\ (P # {} => Cardinality(P) > 0)
      /\ Cardinality(H) \in Nat /\ (H # {} => Cardinality(H) > 0)
      /\ Cardinality(T) \in Nat /\ (T # {} => Cardinality(T) > 0)
      /\ Cardinality(R) \in Nat /\ (call \in timers => Cardinality(R) > 0)
  BY CarriersFinite
<1>5. ASSUME call \in told \ lost
      PROVE  Carriers(c, k) >= 1
  <2>1. (call \notin told) = FALSE
    BY <1>5
  <2>2. Has(call, FALSE)
    BY <1>1, <1>5, <2>1 DEF Account
  <2>3. PICK x \in Sites : At(x, call, FALSE)
    BY <2>2 DEF Has
  <2>4. M # {} \/ P # {} \/ H # {} \/ T # {} \/ call \in timers
    BY <2>3, AtCarriers
  <2> HIDE DEF M, P, H, T, R
  <2> QED BY <1>3, <1>4, <2>4
<1>6. ASSUME call \in lost \ told
      PROVE  Carriers(c, k) = 0
  <2>1. ~Has(call, TRUE)
    BY <1>1, <1>6 DEF Account
  <2>2. \A x \in Sites : ~At(x, call, TRUE)
    BY <2>1 DEF Has
  <2>3. M = {} /\ P = {} /\ H = {} /\ T = {} /\ R = {}
    BY <2>2, CarriersAt
  <2>4. Cardinality({}) = 0
    BY FS_EmptySet
  <2> HIDE DEF M, P, H, T, R
  <2> QED BY <1>3, <2>3, <2>4
<1> QED BY <1>2, <1>5, <1>6

(* A coroutine that waits for an answer (ltask.call, a request of a select,
   ltask.sleep) is owed exactly one, for every number of services, coroutines,
   sessions and places in a queue, and whichever of them raise errors, quit or
   die on the way: the answer is a request in a queue, a coroutine that
   executes it, an error root or another has to send, a message on its way or a
   timer, and none of them twice; and it is owed none when the code has
   dropped it. *)
THEOREM Answered == Spec => []OneAnswer
<1>1. AccountInv => OneAnswer
  BY OwedOne
<1> QED BY <1>1, AccountHolds, PTL

=============================================================================
