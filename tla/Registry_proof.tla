--------------------------- MODULE Registry_proof ---------------------------
(***************************************************************************)
(* Proofs about Registry, for any number of services, names and calls: one *)
(* service is made for a name and every call that was answered has it, no  *)
(* call is forgotten, and root ends after the services that have no name.  *)
(***************************************************************************)
EXTENDS Registry, SequenceTheorems, FiniteSetTheorems,
        WellFoundedInduction, TLAPS

(* The specification without its fairness *)
RootSpec == RootInit /\ [][RootNext]_rootVars

-----------------------------------------------------------------------------
(***************************************************************************)
(* Messages.  An address is initialised once, and one answer to "quit" is  *)
(* on its way to each of the two that may ask: two such messages are not   *)
(* in root's queue at once.                                                *)
(***************************************************************************)
Mail(q) == {q[i] : i \in DOMAIN q}
Rivals(m, o) ==
  \/ m[1] = "inited" /\ o[1] = "inited" /\ m[2] = o[2]
  \/ m[1] = "quitted" /\ o[1] = "quitted" /\ m[2][2] = o[2][2]
NoRivals(q) == \A i, j \in DOMAIN q : Rivals(q[i], q[j]) => i = j

(* Messages put behind others are in the queue with them. *)
LEMMA MailConcat ==
  ASSUME NEW q \in Seq(Letter), NEW r \in Seq(Letter)
  PROVE  /\ q \o r \in Seq(Letter)
         /\ Mail(q \o r) = Mail(q) \cup Mail(r)
         /\ /\ NoRivals(q) /\ NoRivals(r)
            /\ \A m \in Mail(q), o \in Mail(r) : ~Rivals(m, o) /\ ~Rivals(o, m)
            => NoRivals(q \o r)
<1> DEFINE s == q \o r
<1>1. /\ s \in Seq(Letter) /\ Len(q) \in Nat /\ Len(r) \in Nat
      /\ Len(s) = Len(q) + Len(r) /\ DOMAIN q = 1..Len(q)
      /\ DOMAIN r = 1..Len(r) /\ DOMAIN s = 1..(Len(q) + Len(r))
      /\ \A i \in 1..Len(q) : s[i] = q[i]
      /\ \A i \in (Len(q) + 1)..(Len(q) + Len(r)) : s[i] = r[i - Len(q)]
  OBVIOUS
<1> HIDE DEF s
<1>2. /\ \A i \in DOMAIN s : \/ i \in DOMAIN q /\ s[i] = q[i]
                             \/ i - Len(q) \in DOMAIN r /\ s[i] = r[i - Len(q)]
      /\ \A i \in DOMAIN q : i \in DOMAIN s /\ s[i] = q[i]
      /\ \A i \in DOMAIN r : i + Len(q) \in DOMAIN s /\ s[i + Len(q)] = r[i]
  <2>1. ASSUME NEW i \in DOMAIN s
        PROVE  \/ i \in DOMAIN q /\ s[i] = q[i]
               \/ i - Len(q) \in DOMAIN r /\ s[i] = r[i - Len(q)]
    <3>1. i \in 1..Len(q) \/ i \in (Len(q) + 1)..(Len(q) + Len(r))
      BY <1>1
    <3>2. i \in (Len(q) + 1)..(Len(q) + Len(r)) => i - Len(q) \in 1..Len(r)
      BY <1>1
    <3> QED
      BY <3>1, <3>2, <1>1
  <2>2. ASSUME NEW i \in DOMAIN q PROVE i \in DOMAIN s /\ s[i] = q[i]
    BY <1>1
  <2>3. ASSUME NEW i \in DOMAIN r
        PROVE  i + Len(q) \in DOMAIN s /\ s[i + Len(q)] = r[i]
    <3>1. /\ i + Len(q) \in (Len(q) + 1)..(Len(q) + Len(r))
          /\ i + Len(q) \in 1..(Len(q) + Len(r))
          /\ (i + Len(q)) - Len(q) = i
      BY <1>1
    <3> QED
      BY <3>1, <1>1
  <2> QED
    BY <2>1, <2>2, <2>3
<1>3. Mail(s) = Mail(q) \cup Mail(r)
  BY <1>2 DEF Mail
<1>4. ASSUME NoRivals(q), NoRivals(r),
             \A m \in Mail(q), o \in Mail(r) : ~Rivals(m, o) /\ ~Rivals(o, m),
             NEW i \in DOMAIN s, NEW j \in DOMAIN s, Rivals(s[i], s[j])
      PROVE  i = j
  <2>1. CASE i \in DOMAIN q /\ j \in DOMAIN q
    BY <2>1, <1>2, <1>4 DEF NoRivals
  <2>2. CASE i \in DOMAIN q /\ j \notin DOMAIN q
    BY <2>2, <1>2, <1>4 DEF Mail
  <2>3. CASE i \notin DOMAIN q /\ j \in DOMAIN q
    BY <2>3, <1>2, <1>4 DEF Mail
  <2>4. CASE i \notin DOMAIN q /\ j \notin DOMAIN q
    <3>1. /\ i - Len(q) \in DOMAIN r /\ s[i] = r[i - Len(q)]
          /\ j - Len(q) \in DOMAIN r /\ s[j] = r[j - Len(q)]
      BY <2>4, <1>2
    <3>2. i - Len(q) = j - Len(q)
      BY <3>1, <1>4 DEF NoRivals
    <3> QED
      BY <3>2, <1>1
  <2> QED
    BY <2>1, <2>2, <2>3, <2>4
<1>5. (/\ NoRivals(q) /\ NoRivals(r)
       /\ \A m \in Mail(q), o \in Mail(r) : ~Rivals(m, o) /\ ~Rivals(o, m))
      => NoRivals(s)
  BY <1>4 DEF NoRivals
<1> QED
  BY <1>1, <1>3, <1>5 DEF s

(* One message is put at the end, *)
LEMMA MailAppend ==
  ASSUME NEW q \in Seq(Letter), NEW m \in Letter
  PROVE  /\ Append(q, m) \in Seq(Letter)
         /\ Mail(Append(q, m)) = Mail(q) \cup {m}
         /\ /\ NoRivals(q)
            /\ \A o \in Mail(q) : ~Rivals(m, o) /\ ~Rivals(o, m)
            => NoRivals(Append(q, m))
<1>1. <<m>> \in Seq(Letter) /\ Append(q, m) = q \o <<m>>
  OBVIOUS
<1>2. DOMAIN <<m>> = {1} /\ <<m>>[1] = m
  OBVIOUS
<1>3. Mail(<<m>>) = {m} /\ NoRivals(<<m>>)
  BY <1>2 DEF Mail, NoRivals
<1> QED
  BY <1>1, <1>3, MailConcat

(* and the first one is taken: then none that may not be beside it is left. *)
LEMMA MailTail ==
  ASSUME NEW q \in Seq(Letter), q # <<>>
  PROVE  /\ Tail(q) \in Seq(Letter)
         /\ Head(q) \in Mail(q) /\ Head(q) \in Letter
         /\ Mail(Tail(q)) \subseteq Mail(q)
         /\ Mail(q) \ {Head(q)} \subseteq Mail(Tail(q))
         /\ NoRivals(q) => /\ NoRivals(Tail(q))
                           /\ \A m \in Mail(Tail(q)) : ~Rivals(m, Head(q))
<1> DEFINE t == Tail(q)
           h == Head(q)
<1>1. /\ t \in Seq(Letter) /\ Len(q) \in Nat /\ Len(q) >= 1
      /\ DOMAIN q = 1..Len(q) /\ DOMAIN t = 1..(Len(q) - 1)
      /\ \A i \in 1..(Len(q) - 1) : t[i] = q[i + 1]
      /\ h = q[1] /\ h \in Letter
  OBVIOUS
<1> HIDE DEF t, h
<1>2. /\ 1 \in DOMAIN q
      /\ \A i \in DOMAIN t : i + 1 \in DOMAIN q /\ t[i] = q[i + 1] /\ i + 1 # 1
      /\ \A i \in DOMAIN q : i # 1 => i - 1 \in DOMAIN t /\ q[i] = t[i - 1]
  BY <1>1
<1>3. h \in Mail(q) /\ Mail(t) \subseteq Mail(q) /\ Mail(q) \ {h} \subseteq Mail(t)
  <2>1. h \in Mail(q)
    BY <1>1, <1>2 DEF Mail
  <2>2. Mail(t) \subseteq Mail(q)
    BY <1>2 DEF Mail
  <2>3. ASSUME NEW i \in DOMAIN q, q[i] # h PROVE q[i] \in Mail(t)
    BY <1>1, <1>2, <2>3 DEF Mail
  <2> QED
    BY <2>1, <2>2, <2>3 DEF Mail
<1>4. ASSUME NoRivals(q) PROVE NoRivals(t)
  <2>1. \A i, j \in DOMAIN t : Rivals(t[i], t[j]) => i + 1 = j + 1
    BY <1>2, <1>4 DEF NoRivals
  <2> QED
    BY <2>1, <1>1 DEF NoRivals
<1>5. ASSUME NoRivals(q) PROVE \A m \in Mail(t) : ~Rivals(m, h)
  BY <1>1, <1>2, <1>5 DEF NoRivals, Mail
<1> QED
  BY <1>1, <1>3, <1>4, <1>5 DEF t, h
-----------------------------------------------------------------------------
(***************************************************************************)
(* The inductive invariant, in parts.                                      *)
(***************************************************************************)

(* The calls are records of their kind, and what is made was asked for. *)
RecordInv ==
  /\ RootTypeOK
  /\ \A r \in Calls : req[r] # Nothing =>
       /\ req[r].op # "spawn" => req[r].name \in Name
       /\ req[r].op = "register" => req[r].from \in Address
  /\ \A a \in making : job[a] \in Purpose

(* An answer to init comes once, for an address that is being made. *)
InitInv ==
  /\ \A a \in Address, ok \in BOOLEAN :
       <<"inited", a, ok>> \in Mail(inbox) =>
         a \in making /\ state[a] \notin {"none", "init"}
  /\ \A a \in Address : state[a] = "none" => a \notin making
  /\ \A a \in Address : state[a] = "init" => a \in making

(* Boot waits for the logger's name, or for the one service it spawns. *)
BootInv ==
  /\ \A k \in Key : Boot \in tokenmap[k] => boot = "logger" /\ k = <<"unique", Logger>>
  /\ \A a, b \in making :
       job[a] = <<"spawn", Boot>> =>
         boot = "spawning" /\ (job[b] = <<"spawn", Boot>> => a = b)
  /\ quitting["boot"].at # "no" => boot = "done"

(* One service is asked to quit at a time, and it answers once. *)
AskInv ==
  /\ \A w \in Quitter : quitting[w].at = "asking" => quitting[w].i # 0
  /\ \A s \in Service, w \in Quitter :
       /\ <<s, w>> \in asked =>
            /\ quitting[w].at = "asking"
            /\ \A o \in Service : /\ <<o, w>> \in asked => o = s
                                  /\ <<"quitted", <<o, w>> >> \notin Mail(inbox)
       /\ <<"quitted", <<s, w>> >> \in Mail(inbox) => quitting[w].at = "asking"

MailInv == InitInv /\ BootInv /\ AskInv /\ NoRivals(inbox)

(* A call is where its operation has put it. *)
TokenInv ==
  /\ \A r \in Calls : <<"call", r>> \in Mail(inbox) => req[r] # Nothing
  /\ \A k \in Key, r \in Calls :
       r \in tokenmap[k] => req[r] # Nothing /\ req[r].op = k[1] /\ req[r].name = k[2]
  /\ \A a \in making, r \in Calls :
       job[a] = <<"spawn", r>> => req[r] # Nothing /\ req[r].op = "spawn"

(* A name is in the list once. *)
ListedOnce ==
  \A i, j \in DOMAIN named_services : named_services[i][1] = named_services[j][1] => i = j

(* While a service is being made for a name somebody waits for it, and nobody
   else makes one; a service that was made and lives has its name registered,
   by itself or by another one. *)
NameInv ==
  /\ ListedOnce
  /\ \A n \in Name, a \in making :
       job[a] = <<"unique", n>> => tokenmap[<<"unique", n>>] # {}
  /\ \A n \in Name, a, b \in making :
       job[a] = <<"unique", n>> /\ job[b] = <<"unique", n>> => a = b
  /\ \A n \in Name, a \in Address \ making :
       job[a] = <<"unique", n>> /\ Live(a) => Registered(n)
  /\ \A n \in Name, a, b \in Address :
       job[a] = <<"unique", n>> /\ job[b] = <<"unique", n>> /\ Live(a) /\ Live(b) => a = b

(* A call for a name that was answered has the address that is registered. *)
AnswerInv ==
  \A r \in Calls :
    req[r] # Nothing /\ req[r].op \in {"unique", "query"} =>
      \/ req[r].answer \in {Nothing, Error}
      \/ Registered(req[r].name) /\ req[r].answer = Lookup(req[r].name)

(* Whoever waits for a name that is made or was given up, *)
WaitInv ==
  \A n \in Name :
    tokenmap[<<"unique", n>>] # {} => InMaking(<<"unique", n>>) \/ n \in broken
OwedInv == WaitInv /\ NoCallForgotten

(* A service that lives is counted, or has a name. *)
HasName(a) == \E i \in DOMAIN named_services : named_services[i][2] = a
EndInv ==
  /\ \A a \in Address : Live(a) => a \in anonymous_services \/ HasName(a)
  /\ EndsLast

RootInv == /\ RecordInv /\ MailInv /\ TokenInv /\ NameInv /\ AnswerInv
           /\ OwedInv /\ EndInv

-----------------------------------------------------------------------------
(***************************************************************************)
(* What the steps do to the messages and to the calls.                     *)
(***************************************************************************)

(* Root takes m, and may leave itself the error of boot. *)
TakesMail(m) ==
  /\ inbox' \in Seq(Letter) /\ m \in Mail(inbox) /\ m \in Letter
  /\ Mail(inbox)' \subseteq Mail(inbox) \cup {<<"init_error">>}
  /\ Mail(inbox) \ {m} \subseteq Mail(inbox)'
  /\ NoRivals(inbox) => /\ NoRivals(inbox)'
                        /\ \A o \in Mail(inbox)' : ~Rivals(o, m)

(* Somebody posts m. *)
AddsMail(m) ==
  /\ inbox' \in Seq(Letter)
  /\ Mail(inbox)' = Mail(inbox) \cup {m}
  /\ /\ NoRivals(inbox)
     /\ \A o \in Mail(inbox) : ~Rivals(m, o) /\ ~Rivals(o, m)
     => NoRivals(inbox)'

(* A turn of root takes the first message. *)
LEMMA TookMail ==
  ASSUME RecordInv, NEW m, Receive(m), Took
  PROVE  TakesMail(m)
<1>1. inbox \in Seq(Letter) /\ inbox # <<>> /\ m = Head(inbox) /\ inbox' = Tail(inbox)
  BY DEF RecordInv, RootTypeOK, Receive, Took
<1> QED
  BY <1>1, MailTail DEF TakesMail

(* So does one that ends with the result of a service's init. *)
LEMMA ResumedMail ==
  ASSUME RecordInv, NEW m, Receive(m), NEW W, NEW x, Resume(W, x)
  PROVE  TakesMail(m)
<1> DEFINE error == <<"init_error">>
           left == IF Boot \in W /\ x = Error THEN <<error>> ELSE <<>>
<1>1. inbox \in Seq(Letter) /\ inbox # <<>> /\ m = Head(inbox)
  BY DEF RecordInv, RootTypeOK, Receive
<1>2. inbox' = Tail(inbox) \o left
  BY DEF Resume
<1>3. error \in Letter
  BY DEF Letter
<1>4. left \in Seq(Letter) /\ Mail(left) \subseteq {error} /\ NoRivals(left)
  <2>1. left = <<error>> \/ left = <<>>
    OBVIOUS
  <2>2. /\ <<error>> \in Seq(Letter) /\ DOMAIN <<error>> = {1}
        /\ <<error>>[1] = error
        /\ <<>> \in Seq(Letter) /\ DOMAIN <<>> = {}
    BY <1>3
  <2> HIDE DEF error, left
  <2>3. CASE left = <<error>>
    <3>1. DOMAIN left = {1} /\ left[1] = error /\ left \in Seq(Letter)
      BY <2>2, <2>3
    <3> QED
      BY <3>1 DEF Mail, NoRivals
  <2>4. CASE left = <<>>
    BY <2>2, <2>4 DEF Mail, NoRivals
  <2> QED
    BY <2>1, <2>3, <2>4
<1>5. \A o : ~Rivals(o, error) /\ ~Rivals(error, o)
  BY DEF Rivals
<1>6. /\ Tail(inbox) \in Seq(Letter)
      /\ m \in Mail(inbox) /\ m \in Letter
      /\ Mail(Tail(inbox)) \subseteq Mail(inbox)
      /\ Mail(inbox) \ {m} \subseteq Mail(Tail(inbox))
      /\ NoRivals(inbox) => /\ NoRivals(Tail(inbox))
                            /\ \A o \in Mail(Tail(inbox)) : ~Rivals(o, m)
  BY <1>1, MailTail
<1>7. /\ inbox' \in Seq(Letter)
      /\ Mail(inbox)' = Mail(Tail(inbox)) \cup Mail(left)
      /\ /\ NoRivals(Tail(inbox)) /\ NoRivals(left)
         /\ \A q \in Mail(Tail(inbox)), o \in Mail(left) :
              ~Rivals(q, o) /\ ~Rivals(o, q)
         => NoRivals(inbox)'
  BY <1>2, <1>4, <1>6, MailConcat
<1> HIDE DEF left, error
<1> QED
  BY <1>4, <1>5, <1>6, <1>7 DEF TakesMail, error

(* A post adds its message. *)
LEMMA PostedMail ==
  ASSUME RecordInv, NEW m \in Letter, PostRoot(m)
  PROVE  AddsMail(m)
<1>1. inbox \in Seq(Letter) /\ inbox' = Append(inbox, m)
  BY DEF RecordInv, RootTypeOK, PostRoot
<1> QED
  BY <1>1, MailAppend DEF AddsMail

(* A call keeps who made it, and what for. *)
CallKept(r) ==
  req[r] # Nothing => /\ req'[r] # Nothing /\ req'[r].from = req[r].from
                      /\ req'[r].op = req[r].op /\ req'[r].name = req[r].name

(* Of the calls that are made the ones in R are answered with x. *)
Answered(R, x) ==
  /\ req' \in [Calls -> CallRecord \cup {Nothing}]
  /\ \A r \in Calls :
       /\ CallKept(r)
       /\ req[r] = Nothing => req'[r] = Nothing
       /\ r \in R => req'[r].answer = x
       /\ r \notin R => req'[r] = req[r]

(* An answer fills in the calls it is for. *)
LEMMA AnswerRecords ==
  ASSUME RegistryAssumption, RecordInv,
         NEW R, \A r \in R \cap Calls : req[r] # Nothing,
         NEW x \in Service \cup {Nothing, Error, Done}, Answer(R, x)
  PROVE  Answered(R, x)
<1>1. req \in [Calls -> CallRecord \cup {Nothing}]
  BY DEF RecordInv, RootTypeOK
<1>2. Nothing \notin CallRecord
  BY DEF RegistryAssumption
<1>3. /\ DOMAIN req' = Calls
      /\ \A r \in Calls :
           req'[r] = IF r \in R THEN [req[r] EXCEPT !.answer = x] ELSE req[r]
      /\ req' = [r \in Calls |-> req'[r]]
  BY DEF Answer
<1>4. \A r \in Calls \cap R :
        /\ req'[r] \in CallRecord /\ req'[r].answer = x
        /\ req'[r].from = req[r].from
        /\ req'[r].op = req[r].op /\ req'[r].name = req[r].name
  <2> TAKE r \in Calls \cap R
  <2>1. req[r] \in CallRecord
    BY <1>1
  <2>2. req'[r] = [req[r] EXCEPT !.answer = x]
    BY <1>3
  <2> QED
    BY <2>1, <2>2 DEF CallRecord
<1>5. req' \in [Calls -> CallRecord \cup {Nothing}]
  BY <1>1, <1>3, <1>4
<1> QED
  BY <1>1, <1>2, <1>3, <1>4, <1>5 DEF Answered, CallKept

-----------------------------------------------------------------------------
(***************************************************************************)
(* The list of names.                                                      *)
(***************************************************************************)

(* Where a name is listed once, it is looked up there. *)
LEMMA FoundOnce ==
  ASSUME NEW q, \A i, j \in DOMAIN q : q[i][1] = q[j][1] => i = j,
         NEW n, NEW i \in DOMAIN q, q[i][1] = n
  PROVE  q[CHOOSE j \in DOMAIN q : q[j][1] = n][2] = q[i][2]
<1>1. \A j \in DOMAIN q : q[j][1] = n => j = i
  OBVIOUS
<1>2. (CHOOSE j \in DOMAIN q : q[j][1] = n) \in DOMAIN q
      /\ q[CHOOSE j \in DOMAIN q : q[j][1] = n][1] = n
  OBVIOUS
<1> QED
  BY <1>1, <1>2

(* A name of the list is registered, and looked up at its place. *)
LEMMA LookupIs ==
  ASSUME ListedOnce
  PROVE  \A n : \A i \in DOMAIN named_services :
           named_services[i][1] = n => /\ Registered(n)
                                       /\ Lookup(n) = named_services[i][2]
<1> SUFFICES ASSUME NEW n, NEW i \in DOMAIN named_services,
                    named_services[i][1] = n
             PROVE  Registered(n) /\ Lookup(n) = named_services[i][2]
  OBVIOUS
<1>1. \A j, k \in DOMAIN named_services :
        named_services[j][1] = named_services[k][1] => j = k
  BY DEF ListedOnce
<1>2. named_services[CHOOSE j \in DOMAIN named_services : named_services[j][1] = n][2]
        = named_services[i][2]
  BY <1>1, FoundOnce
<1>3. Lookup(n) = named_services[i][2]
  BY <1>2 DEF Lookup
<1> QED
  BY <1>3 DEF Registered

(* What is looked up is a service. *)
LEMMA LookupType ==
  ASSUME RootTypeOK, NEW n, Registered(n)
  PROVE  Lookup(n) \in Service
<1> DEFINE i == CHOOSE j \in DOMAIN named_services : named_services[j][1] = n
<1>1. i \in DOMAIN named_services
  BY DEF Registered
<1>2. \A j \in DOMAIN named_services :
        named_services[j] \in (Name \cup {Exclusive}) \X Service
  BY DEF RootTypeOK
<1>3. \A j \in DOMAIN named_services : named_services[j][2] \in Service
  BY <1>2
<1> QED
  BY <1>1, <1>3 DEF Lookup

(* register_service adds a name that is not in the list, and what was there
   stays. *)
Lists(s, n) ==
  /\ named_services' \in Seq((Name \cup {Exclusive}) \X Service)
  /\ Len(named_services') = Len(named_services) + 1
  /\ ListedOnce'
  /\ Registered(n)' /\ Lookup(n)' = s /\ HasName(s)'
  /\ \A x : Registered(x) => Registered(x)' /\ Lookup(x)' = Lookup(x)
  /\ \A x : Registered(x)' => x = n \/ Registered(x)
  /\ \A a : HasName(a) => HasName(a)'

(* A name that was free is added, once. *)
LEMMA RegisterLists ==
  ASSUME RootTypeOK, ListedOnce, NEW s \in Service, NEW n \in Name, ~Registered(n),
         NEW K, Register(s, n, K)
  PROVE  Lists(s, n)
<1> DEFINE q == named_services
           l == Len(named_services)
<1>1. q \in Seq((Name \cup {Exclusive}) \X Service)
  BY DEF RootTypeOK
<1>2. q' = Append(q, <<n, s>>) /\ <<n, s>> \in (Name \cup {Exclusive}) \X Service
  BY DEF Register
<1>3. /\ q' \in Seq((Name \cup {Exclusive}) \X Service)
      /\ l \in Nat /\ l' = l + 1 /\ DOMAIN q = 1..l /\ DOMAIN q' = 1..(l + 1)
      /\ \A i \in 1..l : q'[i] = q[i]
      /\ q'[l + 1] = <<n, s>>
  BY <1>1, <1>2
<1> HIDE DEF q, l
<1>4. /\ \A i \in DOMAIN q : i \in DOMAIN q' /\ q'[i] = q[i]
      /\ l + 1 \in DOMAIN q' /\ q'[l + 1][1] = n /\ q'[l + 1][2] = s
      /\ \A i \in DOMAIN q' : i = l + 1 \/ i \in DOMAIN q
  BY <1>3
<1>5. \A i \in DOMAIN q : q[i][1] # n
  BY DEF Registered, q
<1>6. ListedOnce'
  BY <1>4, <1>5 DEF ListedOnce, q
<1>7. ASSUME NEW x, NEW i \in DOMAIN q', q'[i][1] = x
      PROVE  Registered(x)' /\ Lookup(x)' = q'[i][2]
  <2>1. \A j, k \in DOMAIN q' : q'[j][1] = q'[k][1] => j = k
    BY <1>6 DEF ListedOnce, q
  <2>2. q'[CHOOSE j \in DOMAIN q' : q'[j][1] = x][2] = q'[i][2]
    BY <2>1, <1>7, FoundOnce
  <2>3. Lookup(x)' = q'[i][2]
    BY <2>2 DEF Lookup, q
  <2> QED
    BY <2>3, <1>7 DEF Registered, q
<1>8. Registered(n)' /\ Lookup(n)' = s
  BY <1>4, <1>7
<1>9. ASSUME NEW x, Registered(x)
      PROVE  Registered(x)' /\ Lookup(x)' = Lookup(x)
  <2>1. PICK i \in DOMAIN q : q[i][1] = x
    BY <1>9 DEF Registered, q
  <2>2. Lookup(x) = q[i][2]
    BY <2>1, LookupIs DEF q
  <2>3. Registered(x)' /\ Lookup(x)' = q[i][2]
    BY <2>1, <1>4, <1>7
  <2> QED
    BY <2>2, <2>3
<1>10. \A x : Registered(x)' => x = n \/ Registered(x)
  BY <1>4 DEF Registered, q
<1>11. HasName(s)' /\ \A a : HasName(a) => HasName(a)'
  BY <1>4 DEF HasName, q
<1> QED
  BY <1>3, <1>6, <1>8, <1>9, <1>10, <1>11 DEF Lists, q, l

-----------------------------------------------------------------------------
(***************************************************************************)
(* What the steps do to names, calls and messages: one lemma per step.     *)
(***************************************************************************)

(* The parts of the invariant the steps rest on *)
BaseInv == RecordInv /\ MailInv /\ TokenInv /\ ListedOnce

(* Creating a service changes what is known of its address, that was free. *)
Creates(a, j) ==
  /\ a \in Address /\ state[a] = "none"
  /\ state' = [state EXCEPT ![a] = "init"]
  /\ anonymous_services' = anonymous_services \cup {a}
  /\ job' = [job EXCEPT ![a] = j]
  /\ making' = making \cup {a}
  /\ late' = IF Quits THEN late \cup {a} ELSE late

(* A set of numbers has a least one: NEW returns the least address that is free. *)
LEMMA NatLeast ==
  ASSUME NEW T, T \subseteq Nat, T # {}
  PROVE  \E x \in T : \A y \in T : x <= y
<1> DEFINE R == OpToRel(<, Nat)
<1>1. IsWellFoundedOn(R, Nat)
  BY NatLessThanWellFounded
<1>2. \A x, y \in Nat : x < y => <<x, y>> \in R
  BY DEF OpToRel
<1> HIDE DEF R
<1>3. PICK x \in T : \A y \in T : ~(<<y, x>> \in R)
  BY <1>1, WFMin
<1>4. ASSUME NEW y \in T PROVE x <= y
  <2>1. ~(y < x)
    BY <1>2, <1>3
  <2> QED
    BY <2>1
<1> QED
  BY <1>4

(* new_service takes such an address if one is free. *)
LEMMA CreateCreates ==
  ASSUME RegistryAssumption, RootTypeOK, NEW j, Free # {}, NewService(j)
  PROVE  \E a \in Address : Creates(a, j)
<1> DEFINE a == CHOOSE x \in Free : \A y \in Free : x <= y
<1>1. Free \subseteq Address /\ Free \subseteq Nat
  BY DEF Free, RegistryAssumption
<1>2. \E x \in Free : \A y \in Free : x <= y
  BY <1>1, NatLeast
<1>3. a \in Free
  BY <1>2
<1>4. a \in Address /\ state[a] = "none"
  BY <1>3 DEF Free
<1>5. Creates(a, j)
  <2> HIDE DEF a
  <2>1. /\ state' = [state EXCEPT ![a] = "init"]
        /\ anonymous_services' = anonymous_services \cup {a}
        /\ job' = [job EXCEPT ![a] = j] /\ making' = making \cup {a}
        /\ late' = IF Quits THEN late \cup {a} ELSE late
    BY DEF NewService, Counted, a
  <2> QED
    BY <2>1, <1>4 DEF Creates
<1> QED
  BY <1>4, <1>5

-----------------------------------------------------------------------------
(***************************************************************************)
(* Types.                                                                  *)
(***************************************************************************)

(* The calls stay records of their kind when they keep what they are for. *)
LEMMA RecordsKept ==
  ASSUME RecordInv, RootTypeOK', \A r \in Calls : CallKept(r),
         \A r \in Calls : req[r] = Nothing => req'[r] = Nothing,
         \A a \in making' : job'[a] \in Purpose
  PROVE  RecordInv'
BY DEF RecordInv, CallKept

(* S.queryservice *)
LEMMA RecordQuery ==
  ASSUME RegistryAssumption, BaseInv, NEW r \in Calls, QueryService(r)
  PROVE  RecordInv'
<1> DEFINE n == req[r].name
<1>1. TakesMail(<<"call", r>>)
  BY TookMail DEF BaseInv, QueryService
<1>2. req[r] # Nothing /\ n \in Name /\ RootTypeOK
  BY <1>1 DEF BaseInv, TokenInv, RecordInv, TakesMail, QueryService
<1>3. CASE Registered(n)
  <2>1. Answer({r}, Lookup(n)) /\ UNCHANGED tokenmap
    BY <1>3 DEF QueryService
  <2>2. Lookup(n) \in Service
    BY <1>2, <1>3, LookupType
  <2>3. Answered({r}, Lookup(n))
    BY <2>1, <2>2, <1>2, AnswerRecords DEF BaseInv
  <2>4. RootTypeOK'
    BY <1>1, <1>2, <2>1, <2>3 DEF RootTypeOK, TakesMail, Answered, QueryService, NoNewService
  <2> QED
    BY <2>3, <2>4, RecordsKept
       DEF BaseInv, RecordInv, Answered, QueryService, NoNewService
<1>4. CASE ~Registered(n)
  <2>1. /\ tokenmap' = [tokenmap EXCEPT ![<<"query", n>>] = @ \cup {r}]
        /\ UNCHANGED req
    BY <1>4 DEF QueryService
  <2>2. RootTypeOK'
    BY <1>1, <1>2, <2>1
       DEF RootTypeOK, TakesMail, QueryService, NoNewService, Key, Caller
  <2> QED
    BY <2>1, <2>2, RecordsKept
       DEF BaseInv, RecordInv, CallKept, QueryService, NoNewService
<1> QED
  BY <1>3, <1>4

(* new_service *)
LEMMA CreatesTypes ==
  ASSUME RootTypeOK, NEW a, NEW j \in Purpose, Creates(a, j),
         \A b \in making : job[b] \in Purpose
  PROVE  /\ state' \in [Service -> {"none", "init", "failed", "up", "dead",
                                    "signalled", "closed"}]
         /\ anonymous_services' \subseteq Address
         /\ job' \in [Address -> Purpose \cup {Nothing}]
         /\ making' \subseteq Address
         /\ late' \subseteq Address
         /\ \A b \in making' : job'[b] \in Purpose
BY DEF RootTypeOK, Creates, Service

(* S.uniqueservice *)
LEMMA RecordUnique ==
  ASSUME RegistryAssumption, BaseInv, NEW r \in Calls, UniqueService(r)
  PROVE  RecordInv'
<1> DEFINE n == req[r].name
           u == <<"unique", n>>
<1>1. TakesMail(<<"call", r>>)
  BY TookMail DEF BaseInv, UniqueService
<1>2. req[r] # Nothing /\ n \in Name /\ RootTypeOK
  BY <1>1 DEF BaseInv, TokenInv, RecordInv, TakesMail, UniqueService
<1>3. CASE Registered(n)
  <2>1. Answer({r}, Lookup(n)) /\ NoNewService /\ UNCHANGED <<tokenmap, broken>>
    BY <1>3 DEF UniqueService
  <2>2. Lookup(n) \in Service
    BY <1>2, <1>3, LookupType
  <2>3. Answered({r}, Lookup(n))
    BY <2>1, <2>2, <1>2, AnswerRecords DEF BaseInv
  <2>4. RootTypeOK'
    BY <1>1, <1>2, <2>1, <2>3
       DEF RootTypeOK, TakesMail, Answered, UniqueService, NoNewService
  <2> QED
    BY <2>1, <2>3, <2>4, RecordsKept
       DEF BaseInv, RecordInv, Answered, UniqueService, NoNewService
<1>4. CASE ~Registered(n)
  <2>1. /\ tokenmap' = [tokenmap EXCEPT ![u] = @ \cup {r}]
        /\ UNCHANGED <<req, named_services, boot, quitting, asked, ended>>
    BY <1>4 DEF UniqueService
  <2>2. tokenmap' \in [Key -> SUBSET Caller] /\ u \in Purpose
    BY <1>2, <2>1 DEF RootTypeOK, Key, Caller, Purpose
  <2>3. /\ state' \in [Service -> {"none", "init", "failed", "up", "dead",
                                    "signalled", "closed"}]
        /\ anonymous_services' \subseteq Address
        /\ job' \in [Address -> Purpose \cup {Nothing}]
        /\ making' \subseteq Address
        /\ late' \subseteq Address
        /\ \A b \in making' : job'[b] \in Purpose
        /\ broken' \subseteq Name
    <3>1. CASE IsFirst(n) /\ Free # {}
      <4>1. NewService(u) /\ UNCHANGED broken
        BY <1>4, <3>1 DEF UniqueService
      <4>2. PICK a \in Address : Creates(a, u)
        BY <4>1, <3>1, <1>2, CreateCreates
      <4> QED
        BY <4>1, <4>2, <2>2, <1>2, CreatesTypes DEF BaseInv, RecordInv, RootTypeOK
    <3>2. CASE ~(IsFirst(n) /\ Free # {})
      <4>1. NoNewService /\ broken' \subseteq broken \cup {n}
        BY <1>4, <3>2 DEF UniqueService
      <4> QED
        BY <4>1, <1>2 DEF BaseInv, RecordInv, NoNewService, RootTypeOK
    <3> QED
      BY <3>1, <3>2
  <2>4. RootTypeOK'
    BY <1>1, <1>2, <2>1, <2>2, <2>3 DEF RootTypeOK, TakesMail
  <2> QED
    BY <2>1, <2>3, <2>4, RecordsKept DEF BaseInv, CallKept
<1> QED
  BY <1>3, <1>4

(* S.spawn *)
LEMMA RecordSpawn ==
  ASSUME RegistryAssumption, BaseInv, NEW r \in Calls, Spawn(r)
  PROVE  RecordInv'
<1>1. TakesMail(<<"call", r>>)
  BY TookMail DEF BaseInv, Spawn
<1>2. req[r] # Nothing /\ RootTypeOK /\ <<"spawn", r>> \in Purpose
  BY <1>1 DEF BaseInv, TokenInv, RecordInv, TakesMail, Purpose, Caller
<1>3. UNCHANGED <<named_services, tokenmap, boot, quitting, asked, ended, broken>>
  BY DEF Spawn
<1>4. CASE Free # {}
  <2>1. NewService(<<"spawn", r>>) /\ UNCHANGED req
    BY <1>4 DEF Spawn
  <2>2. PICK a \in Address : Creates(a, <<"spawn", r>>)
    BY <2>1, <1>4, <1>2, CreateCreates
  <2>3. /\ state' \in [Service -> {"none", "init", "failed", "up", "dead",
                                    "signalled", "closed"}]
        /\ anonymous_services' \subseteq Address
        /\ job' \in [Address -> Purpose \cup {Nothing}]
        /\ making' \subseteq Address
        /\ late' \subseteq Address
        /\ \A b \in making' : job'[b] \in Purpose
    BY <2>2, <1>2, CreatesTypes DEF BaseInv, RecordInv
  <2>4. RootTypeOK'
    BY <1>1, <1>2, <1>3, <2>1, <2>3 DEF RootTypeOK, TakesMail
  <2> QED
    BY <2>1, <2>3, <2>4, RecordsKept DEF BaseInv, CallKept
<1>5. CASE Free = {}
  <2>1. NoNewService /\ Answer({r}, Error)
    BY <1>5 DEF Spawn
  <2>2. Answered({r}, Error)
    BY <2>1, <1>2, AnswerRecords DEF BaseInv
  <2>3. RootTypeOK'
    BY <1>1, <1>2, <1>3, <2>1, <2>2 DEF RootTypeOK, TakesMail, Answered, NoNewService
  <2> QED
    BY <2>1, <2>2, <2>3, RecordsKept DEF BaseInv, RecordInv, Answered, NoNewService
<1> QED
  BY <1>4, <1>5

(* S.register answers the calls that wait for the name, and its own. *)
LEMMA RegisterRecords ==
  ASSUME RegistryAssumption, BaseInv, NEW r \in Calls, RegisterSelf(r),
         NEW n, n = req[r].name, NEW s, s = req[r].from, ~Registered(n)
  PROVE  /\ n \in Name /\ s \in Address
         /\ Register(s, n, {<<"query", n>>}) /\ Lists(s, n)
         /\ r \notin tokenmap[<<"query", n>>]
         /\ req' \in [Calls -> CallRecord \cup {Nothing}]
         /\ \A x \in Calls :
              /\ CallKept(x)
              /\ req[x] = Nothing => req'[x] = Nothing
              /\ x \in tokenmap[<<"query", n>>] => req'[x].answer = s
              /\ x = r => req'[x].answer = Done
              /\ x # r /\ x \notin tokenmap[<<"query", n>>] => req'[x] = req[x]
<1> DEFINE W == tokenmap[<<"query", n>>]
<1>1. TakesMail(<<"call", r>>)
  BY TookMail DEF BaseInv, RegisterSelf
<1>2. req[r] # Nothing /\ n \in Name /\ s \in Address /\ req[r].op = "register"
  BY <1>1 DEF BaseInv, TokenInv, RecordInv, TakesMail, RegisterSelf
<1>3. Register(s, n, {<<"query", n>>})
  BY DEF RegisterSelf
<1>4. Lists(s, n)
  BY <1>2, <1>3, RegisterLists DEF BaseInv, RecordInv, Service
<1>5. <<"query", n>> \in Key
  BY <1>2 DEF Key
<1>6. \A x \in W \cap Calls : req[x] # Nothing /\ req[x].op = "query"
  BY <1>5 DEF BaseInv, TokenInv
<1>7. r \notin W
  BY <1>2, <1>6
<1>8. req \in [Calls -> CallRecord \cup {Nothing}] /\ Nothing \notin CallRecord
  BY DEF BaseInv, RecordInv, RootTypeOK, RegistryAssumption
<1>9. req' = [x \in Calls |->
                CASE x = r -> [req[x] EXCEPT !.answer = Done]
                  [] x \in W \ {r} -> [req[x] EXCEPT !.answer = s]
                  [] OTHER -> req[x]]
  BY DEF RegisterSelf
<1>10. \A x \in Calls :
         /\ x = r => req'[x] = [req[x] EXCEPT !.answer = Done]
         /\ x \in W => req'[x] = [req[x] EXCEPT !.answer = s]
         /\ x # r /\ x \notin W => req'[x] = req[x]
  BY <1>7, <1>9
<1>11. ASSUME NEW x \in Calls
       PROVE  /\ req'[x] \in CallRecord \cup {Nothing}
              /\ CallKept(x)
              /\ req[x] = Nothing => req'[x] = Nothing
              /\ x \in W => req'[x].answer = s
              /\ x = r => req'[x].answer = Done
  <2>1. CASE x = r
    <3>1. req[x] \in CallRecord /\ req'[x] = [req[x] EXCEPT !.answer = Done]
      BY <2>1, <1>2, <1>8, <1>10
    <3>2. /\ req'[x] \in CallRecord /\ req'[x].answer = Done
          /\ req'[x].from = req[x].from
          /\ req'[x].op = req[x].op /\ req'[x].name = req[x].name
      BY <3>1 DEF CallRecord
    <3> QED
      BY <2>1, <3>1, <3>2, <1>7, <1>8 DEF CallKept
  <2>2. CASE x \in W
    <3>1. req[x] \in CallRecord /\ req'[x] = [req[x] EXCEPT !.answer = s]
      BY <2>2, <1>6, <1>8, <1>10
    <3>2. /\ req'[x] \in CallRecord /\ req'[x].answer = s
          /\ req'[x].from = req[x].from
          /\ req'[x].op = req[x].op /\ req'[x].name = req[x].name
      BY <3>1, <1>2 DEF CallRecord, Service
    <3> QED
      BY <2>2, <3>1, <3>2, <1>7, <1>8 DEF CallKept
  <2>3. CASE x # r /\ x \notin W
    BY <2>3, <1>8, <1>10 DEF CallKept
  <2> QED
    BY <2>1, <2>2, <2>3
<1>12. req' \in [Calls -> CallRecord \cup {Nothing}]
  BY <1>9, <1>11
<1> QED
  BY <1>2, <1>3, <1>4, <1>7, <1>10, <1>11, <1>12

(* S.register *)
LEMMA RecordRegister ==
  ASSUME RegistryAssumption, BaseInv, NEW r \in Calls, RegisterSelf(r)
  PROVE  RecordInv'
<1>0. PICK n, s : n = req[r].name /\ s = req[r].from
  OBVIOUS
<1>1. TakesMail(<<"call", r>>)
  BY TookMail DEF BaseInv, RegisterSelf
<1>2. req[r] # Nothing /\ RootTypeOK
  BY <1>1 DEF BaseInv, TokenInv, RecordInv, TakesMail
<1>3. UNCHANGED <<state, job, making, boot, quitting, asked, ended, broken, late>>
  BY DEF RegisterSelf
<1>4. CASE Registered(n)
  <2>1. /\ Answer({r}, Error)
        /\ UNCHANGED <<anonymous_services, named_services, tokenmap>>
    BY <1>0, <1>4 DEF RegisterSelf
  <2>2. Answered({r}, Error)
    BY <2>1, <1>2, AnswerRecords DEF BaseInv
  <2>3. RootTypeOK'
    BY <1>1, <1>2, <1>3, <2>1, <2>2 DEF RootTypeOK, TakesMail, Answered
  <2> QED
    BY <2>1, <2>2, <2>3, <1>3, RecordsKept DEF BaseInv, RecordInv, Answered
<1>5. CASE ~Registered(n)
  <2>1. /\ Register(s, n, {<<"query", n>>}) /\ Lists(s, n)
        /\ req' \in [Calls -> CallRecord \cup {Nothing}]
        /\ \A x \in Calls : CallKept(x) /\ (req[x] = Nothing => req'[x] = Nothing)
    BY <1>0, <1>5, RegisterRecords
  <2>2. RootTypeOK'
    <3>1. /\ anonymous_services' \subseteq Address
          /\ tokenmap' \in [Key -> SUBSET Caller]
      BY <2>1, <1>2 DEF RootTypeOK, Register
    <3>2. /\ named_services' \in Seq((Name \cup {Exclusive}) \X Service)
          /\ quitting' \in [Quitter -> [at : {"no", "next", "asking"},
                                        i : 0..Len(named_services')]]
      BY <2>1, <1>2, <1>3 DEF RootTypeOK, Lists
    <3> QED
      BY <1>1, <1>2, <1>3, <2>1, <3>1, <3>2 DEF RootTypeOK, TakesMail
  <2> QED
    BY <2>1, <2>2, <1>3, RecordsKept DEF BaseInv, RecordInv
<1> QED
  BY <1>4, <1>5

(* Whoever waits for a key has made a call for it. *)
LEMMA WaitersCalled ==
  ASSUME BaseInv, NEW K, K \subseteq Key
  PROVE  \A r \in (UNION {tokenmap[k] : k \in K}) \cap Calls : req[r] # Nothing
BY DEF BaseInv, TokenInv

(* The answer to init is that of an address which is being made for a name or
   for a call. *)
LEMMA InitedMakes ==
  ASSUME BaseInv, NEW a \in Address, NEW ok \in BOOLEAN,
         TakesMail(<<"inited", a, ok>>)
  PROVE  /\ a \in making /\ state[a] \notin {"none", "init"} /\ job[a] \in Purpose
         /\ job[a][1] = "unique" => job[a] = <<"unique", job[a][2]>>
                                    /\ job[a][2] \in Name
         /\ job[a][1] = "spawn" => job[a] = <<"spawn", job[a][2]>>
                                   /\ job[a][2] \in Caller
         /\ job[a][1] \in {"unique", "spawn"}
         /\ NoRivals(inbox)'
         /\ \A o \in BOOLEAN : <<"inited", a, o>> \notin Mail(inbox)'
<1>1. <<"inited", a, ok>> \in Mail(inbox)
  BY DEF TakesMail
<1>2. a \in making /\ state[a] \notin {"none", "init"}
  BY <1>1 DEF BaseInv, MailInv, InitInv
<1>3. job[a] \in Purpose
  BY <1>2 DEF BaseInv, RecordInv
<1>4. NoRivals(inbox)' /\ \A o \in Mail(inbox)' : ~Rivals(o, <<"inited", a, ok>>)
  BY DEF TakesMail, BaseInv, MailInv
<1>5. \A o \in BOOLEAN : Rivals(<<"inited", a, o>>, <<"inited", a, ok>>)
  BY DEF Rivals
<1> QED
  BY <1>2, <1>3, <1>4, <1>5 DEF Purpose

(* The coroutines of the calls in W go on with x, and so may boot. *)
LEMMA ResumeTypes ==
  ASSUME RegistryAssumption, RecordInv, NEW W, \A r \in W \cap Calls : req[r] # Nothing,
         NEW x \in Service \cup {Nothing, Error, Done}, Resume(W, x)
  PROVE  /\ Answered(W, x)
         /\ boot' \in {"logger", "bootstrap", "spawning", "quit", "done", "failed"}
<1>1. Answer(W, x)
  BY DEF Resume
<1>2. Answered(W, x)
  BY <1>1, AnswerRecords
<1> QED
  BY <1>2 DEF Resume, RecordInv, RootTypeOK

(* The service of a name answers. *)
LEMMA RecordMadeUnique ==
  ASSUME RegistryAssumption, BaseInv, NEW a \in Address, MadeUnique(a)
  PROVE  RecordInv'
<1>0. PICK n : n = job[a][2]
  OBVIOUS
<1> DEFINE K == {<<"query", n>>, <<"unique", n>>}
           m == <<"inited", a, TRUE>>
<1>1. PICK W : /\ Resume(W, a)
               /\ W = IF Registered(n) THEN {} ELSE UNION {tokenmap[k] : k \in K}
  BY <1>0 DEF MadeUnique
<1>2. TakesMail(m)
  BY <1>1, ResumedMail DEF MadeUnique, BaseInv
<1>3. n \in Name /\ RootTypeOK /\ a \in Service
  BY <1>0, <1>2, InitedMakes DEF MadeUnique, BaseInv, RecordInv, Service
<1>4. \A r \in W \cap Calls : req[r] # Nothing
  <2>1. K \subseteq Key
    BY <1>3 DEF Key
  <2> QED
    BY <1>1, <2>1, WaitersCalled
<1>5. /\ Answered(W, a)
      /\ boot' \in {"logger", "bootstrap", "spawning", "quit", "done", "failed"}
  BY <1>1, <1>3, <1>4, ResumeTypes DEF BaseInv
<1>6. /\ making' = making \ {a}
      /\ UNCHANGED <<state, job, quitting, asked, ended, late>>
  BY DEF MadeUnique, Made
<1>7. CASE Registered(n)
  <2>1. /\ broken' = broken \cup {n}
        /\ UNCHANGED <<anonymous_services, named_services, tokenmap>>
    BY <1>0, <1>7 DEF MadeUnique
  <2>2. RootTypeOK'
    BY <1>2, <1>3, <1>5, <1>6, <2>1 DEF RootTypeOK, TakesMail, Answered
  <2> QED
    BY <2>2, <1>5, <1>6, RecordsKept DEF BaseInv, RecordInv, Answered
<1>8. CASE ~Registered(n)
  <2>1. Register(a, n, K) /\ UNCHANGED broken
    BY <1>0, <1>8 DEF MadeUnique
  <2>2. Lists(a, n)
    BY <1>3, <1>8, <2>1, RegisterLists DEF BaseInv, RecordInv
  <2>3. /\ anonymous_services' \subseteq Address
        /\ tokenmap' \in [Key -> SUBSET Caller]
    BY <2>1, <1>3 DEF RootTypeOK, Register
  <2>4. /\ named_services' \in Seq((Name \cup {Exclusive}) \X Service)
        /\ quitting' \in [Quitter -> [at : {"no", "next", "asking"},
                                      i : 0..Len(named_services')]]
    BY <2>2, <1>3, <1>6 DEF RootTypeOK, Lists
  <2>5. RootTypeOK'
    BY <1>2, <1>3, <1>5, <1>6, <2>1, <2>3, <2>4 DEF RootTypeOK, TakesMail, Answered
  <2> QED
    BY <2>5, <1>5, <1>6, RecordsKept DEF BaseInv, RecordInv, Answered
<1> QED
  BY <1>7, <1>8

(* The service of a spawn answers. *)
LEMMA RecordMadeSpawned ==
  ASSUME RegistryAssumption, BaseInv, NEW a \in Address, MadeSpawned(a)
  PROVE  RecordInv' /\ Answered({job[a][2]}, a)
<1> DEFINE r == job[a][2]
<1>1. Resume({r}, a)
  BY DEF MadeSpawned
<1>2. TakesMail(<<"inited", a, TRUE>>)
  BY <1>1, ResumedMail DEF MadeSpawned, BaseInv
<1>3. /\ a \in making /\ job[a] = <<"spawn", r>> /\ RootTypeOK /\ a \in Service
  BY <1>2, InitedMakes DEF MadeSpawned, BaseInv, RecordInv, Service
<1>4. \A x \in {r} \cap Calls : req[x] # Nothing
  BY <1>3 DEF BaseInv, TokenInv
<1>5. /\ Answered({r}, a)
      /\ boot' \in {"logger", "bootstrap", "spawning", "quit", "done", "failed"}
  BY <1>1, <1>3, <1>4, ResumeTypes DEF BaseInv
<1>6. /\ making' = making \ {a}
      /\ UNCHANGED <<state, job, quitting, asked, ended, late, anonymous_services,
                     named_services, tokenmap, broken>>
  BY DEF MadeSpawned, Made
<1>7. RootTypeOK'
  BY <1>2, <1>3, <1>5, <1>6 DEF RootTypeOK, TakesMail, Answered
<1> QED
  BY <1>5, <1>6, <1>7, RecordsKept DEF BaseInv, RecordInv, Answered

(* A service is not made; who is told is answered. *)
LEMMA RecordNotMade ==
  ASSUME RegistryAssumption, BaseInv, NEW a \in Address, NotMade(a)
  PROVE  RecordInv' /\ Answered(ToldOf(a), Error)
<1> DEFINE n == job[a][2]
<1>1. Resume(ToldOf(a), Error)
  BY DEF NotMade
<1>2. TakesMail(<<"inited", a, FALSE>>)
  BY <1>1, ResumedMail DEF NotMade, BaseInv
<1>3. /\ a \in making /\ RootTypeOK /\ a \in Service
      /\ job[a][1] = "unique" => job[a] = <<"unique", n>> /\ n \in Name
      /\ job[a][1] # "unique" => job[a] = <<"spawn", n>>
  BY <1>2, InitedMakes DEF BaseInv, RecordInv, Service
<1>4. \A x \in ToldOf(a) \cap Calls : req[x] # Nothing
  <2>1. CASE job[a][1] = "unique"
    <3>1. ToldOf(a) = tokenmap[<<"unique", n>>] /\ <<"unique", n>> \in Key
      BY <2>1, <1>3 DEF ToldOf, Key
    <3> QED
      BY <3>1 DEF BaseInv, TokenInv
  <2>2. CASE job[a][1] # "unique"
    <3>1. ToldOf(a) = {n}
      BY <2>2 DEF ToldOf
    <3> QED
      BY <2>2, <3>1, <1>3 DEF BaseInv, TokenInv
  <2> QED
    BY <2>1, <2>2
<1>5. /\ Answered(ToldOf(a), Error)
      /\ boot' \in {"logger", "bootstrap", "spawning", "quit", "done", "failed"}
  BY <1>1, <1>4, ResumeTypes DEF BaseInv
<1>6. /\ making' = making \ {a}
      /\ UNCHANGED <<job, quitting, asked, ended, late, anonymous_services,
                     named_services, broken>>
  BY DEF NotMade, Made
<1>7. /\ state' \in [Service -> {"none", "init", "failed", "up", "dead",
                                  "signalled", "closed"}]
      /\ tokenmap' \in [Key -> SUBSET Caller]
  BY <1>3 DEF NotMade, RootTypeOK
<1>8. RootTypeOK'
  BY <1>2, <1>3, <1>5, <1>6, <1>7 DEF RootTypeOK, TakesMail, Answered
<1> QED
  BY <1>5, <1>6, <1>8, RecordsKept DEF BaseInv, RecordInv, Answered

(* Boot spawns. *)
LEMMA RecordBootSpawn ==
  ASSUME RegistryAssumption, BaseInv, BootSpawn
  PROVE  RecordInv'
<1> DEFINE j == <<"spawn", Boot>>
<1>1. RootTypeOK /\ j \in Purpose
  BY DEF BaseInv, RecordInv, Purpose, Caller
<1>2. UNCHANGED <<named_services, tokenmap, quitting, asked, ended, req, broken>>
  BY DEF BootSpawn
<1>3. CASE Free # {}
  <2>1. NewService(j) /\ boot' = "spawning" /\ UNCHANGED inbox
    BY <1>3 DEF BootSpawn
  <2>2. PICK a \in Address : Creates(a, j)
    BY <2>1, <1>3, <1>1, CreateCreates
  <2>3. /\ state' \in [Service -> {"none", "init", "failed", "up", "dead",
                                    "signalled", "closed"}]
        /\ anonymous_services' \subseteq Address
        /\ job' \in [Address -> Purpose \cup {Nothing}]
        /\ making' \subseteq Address
        /\ late' \subseteq Address
        /\ \A b \in making' : job'[b] \in Purpose
    BY <2>2, <1>1, CreatesTypes DEF BaseInv, RecordInv
  <2>4. RootTypeOK'
    BY <1>1, <1>2, <2>1, <2>3 DEF RootTypeOK
  <2> QED
    BY <1>2, <2>3, <2>4, RecordsKept DEF BaseInv, CallKept
<1>4. CASE Free = {}
  <2>1. NoNewService /\ boot' = "failed" /\ PostRoot(<<"init_error">>)
    BY <1>4 DEF BootSpawn, PostRoot
  <2>2. AddsMail(<<"init_error">>)
    BY <2>1, PostedMail DEF BaseInv, Letter
  <2>3. RootTypeOK'
    BY <1>1, <1>2, <2>1, <2>2 DEF RootTypeOK, AddsMail, NoNewService
  <2> QED
    BY <1>2, <2>1, <2>3, RecordsKept DEF BaseInv, RecordInv, CallKept, NoNewService
<1> QED
  BY <1>3, <1>4

(* What quit does with its place in the list of names keeps it a place there. *)
LEMMA QuitWhenType ==
  ASSUME RootTypeOK, NEW ok, NEW w \in Quitter, QuitWhen(ok, w)
  PROVE  quitting' \in [Quitter -> [at : {"no", "next", "asking"},
                                    i : 0..Len(named_services)]]
<1>1. Len(named_services) \in Nat
  BY DEF RootTypeOK
<1>2. [at |-> "next", i |-> Len(named_services)]
        \in [at : {"no", "next", "asking"}, i : 0..Len(named_services)]
  BY <1>1
<1> QED
  BY <1>2 DEF QuitWhen, RootTypeOK

(* boot ends. *)
LEMMA RecordBootQuit ==
  ASSUME BaseInv, BootQuit
  PROVE  RecordInv'
<1>1. RootTypeOK
  BY DEF BaseInv, RecordInv
<1>2. /\ boot' = "done" /\ QuitWhen(anonymous_services = {}, "boot")
      /\ UNCHANGED <<state, anonymous_services, named_services, tokenmap, job, making,
                     asked, ended, inbox, req, broken, late>>
  BY DEF BootQuit
<1>3. RootTypeOK'
  BY <1>1, <1>2, QuitWhenType DEF RootTypeOK, Quitter
<1> QED
  BY <1>2, <1>3, RecordsKept DEF BaseInv, RecordInv, CallKept

(* The error of boot *)
LEMMA RecordInitError ==
  ASSUME BaseInv, InitError
  PROVE  RecordInv' /\ TakesMail(<<"init_error">>)
<1>1. TakesMail(<<"init_error">>) /\ RootTypeOK
  BY TookMail DEF BaseInv, InitError, RecordInv
<1>2. RootTypeOK'
  BY <1>1 DEF InitError, RootTypeOK, TakesMail
<1> QED
  BY <1>1, <1>2, RecordsKept DEF InitError, BaseInv, RecordInv, CallKept

(* Root answers its own requests in the queue of a service that died. *)
LEMMA AnswersMail ==
  ASSUME BaseInv, NEW s \in Service, NEW answers \in SetToSeqs(OwnRequests(s)),
         inbox # <<>>, Head(inbox) = <<"signal", s>>,
         inbox' = Tail(inbox) \o [i \in DOMAIN answers |-> <<"quitted", answers[i]>>]
  PROVE  /\ inbox' \in Seq(Letter) /\ NoRivals(inbox)'
         /\ Mail(inbox) \ {<<"signal", s>>} \subseteq Mail(inbox)'
         /\ Mail(inbox)' \subseteq
              Mail(inbox) \cup {<<"quitted", x>> : x \in OwnRequests(s)}
<1> DEFINE sent == [i \in DOMAIN answers |-> <<"quitted", answers[i]>>]
           n == Cardinality(OwnRequests(s))
<1>1. /\ DOMAIN answers = 1..n
      /\ \A i \in DOMAIN answers : answers[i] \in OwnRequests(s)
      /\ \A i, j \in DOMAIN answers : i # j => answers[i] # answers[j]
  BY DEF SetToSeqs
<1>2. /\ \A x \in OwnRequests(s) : /\ x \in asked /\ x[1] = s /\ x \in Service \X Quitter
                                   /\ x = <<s, x[2]>> /\ x[2] \in Quitter
  BY DEF OwnRequests, BaseInv, RecordInv, RootTypeOK
<1>3. n \in Nat
  <2> DEFINE T == {<<s, "boot">>, <<s, "signal">>}
  <2>1. IsFiniteSet({} \cup {<<s, "boot">>} \cup {<<s, "signal">>})
    BY FS_EmptySet, FS_AddElement
  <2>2. T = {} \cup {<<s, "boot">>} \cup {<<s, "signal">>}
    OBVIOUS
  <2>3. IsFiniteSet(T)
    BY <2>1, <2>2
  <2>4. OwnRequests(s) \subseteq T
    BY <1>2 DEF Quitter
  <2> HIDE DEF T
  <2>5. IsFiniteSet(OwnRequests(s))
    BY <2>3, <2>4, FS_Subset
  <2> QED
    BY <2>5, FS_CardinalityType
<1>4. \A x \in OwnRequests(s) : <<"quitted", x>> \in Letter
  BY <1>2 DEF Letter
<1> HIDE DEF n
<1>5. sent \in Seq(Letter)
  <2>1. sent \in [1..n -> Letter]
    BY <1>1, <1>4
  <2> QED
    BY <1>3, <2>1
<1>6. /\ DOMAIN sent = DOMAIN answers
      /\ \A i \in DOMAIN sent : sent[i] = <<"quitted", answers[i]>>
  OBVIOUS
<1> HIDE DEF sent
<1>7. Mail(sent) \subseteq {<<"quitted", x>> : x \in OwnRequests(s)}
  BY <1>1, <1>6 DEF Mail
<1>8. NoRivals(sent)
  <2> SUFFICES ASSUME NEW i \in DOMAIN sent, NEW j \in DOMAIN sent,
                      Rivals(sent[i], sent[j])
               PROVE  i = j
    BY DEF NoRivals
  <2>1. answers[i][2] = answers[j][2]
    BY <1>6 DEF Rivals
  <2>2. answers[i] = answers[j]
    BY <2>1, <1>1, <1>2, <1>6
  <2> QED
    BY <2>2, <1>1, <1>6
<1>9. /\ Tail(inbox) \in Seq(Letter) /\ NoRivals(Tail(inbox))
      /\ Mail(Tail(inbox)) \subseteq Mail(inbox)
      /\ Mail(inbox) \ {<<"signal", s>>} \subseteq Mail(Tail(inbox))
  BY MailTail DEF BaseInv, RecordInv, RootTypeOK, MailInv
<1>10. ASSUME NEW m \in Mail(inbox), NEW x \in OwnRequests(s)
       PROVE  /\ ~Rivals(m, <<"quitted", x>>)
              /\ ~Rivals(<<"quitted", x>>, m)
  <2>1. m \in Letter
    BY DEF Mail, BaseInv, RecordInv, RootTypeOK
  <2>2. SUFFICES ASSUME m[1] = "quitted", m[2][2] = x[2] PROVE FALSE
    BY DEF Rivals
  <2>3. PICK o \in Service, w \in Quitter : m = <<"quitted", <<o, w>> >>
    BY <2>1, <2>2 DEF Letter
  <2>4. <<s, w>> \in asked
    BY <2>2, <2>3, <1>2
  <2> QED
    BY <2>3, <2>4 DEF BaseInv, MailInv, AskInv
<1>11. /\ Tail(inbox) \o sent \in Seq(Letter)
       /\ Mail(Tail(inbox) \o sent) = Mail(Tail(inbox)) \cup Mail(sent)
       /\ NoRivals(Tail(inbox) \o sent)
  <2>1. \A m \in Mail(Tail(inbox)), o \in Mail(sent) : ~Rivals(m, o) /\ ~Rivals(o, m)
    BY <1>7, <1>9, <1>10
  <2> QED
    BY <2>1, <1>5, <1>8, <1>9, MailConcat
<1>12. inbox' = Tail(inbox) \o sent
  BY DEF sent
<1> QED
  BY <1>7, <1>9, <1>11, <1>12

(* A service is deleted. *)
LEMMA RecordDelService ==
  ASSUME BaseInv, NEW s \in Service, DelService(s)
  PROVE  RecordInv'
<1>1. /\ inbox # <<>> /\ Head(inbox) = <<"signal", s>>
      /\ state' = [state EXCEPT ![s] = "closed"]
      /\ anonymous_services' = anonymous_services \ {s}
      /\ asked' = {x \in asked : x[1] # s}
      /\ QuitWhen(~Quits /\ anonymous_services' = {}, "signal")
      /\ UNCHANGED <<named_services, tokenmap, job, making, boot, ended, req, broken,
                     late>>
  BY DEF DelService, Receive
<1>2. inbox' \in Seq(Letter)
  BY <1>1, AnswersMail DEF DelService
<1>3. RootTypeOK
  BY DEF BaseInv, RecordInv
<1>4. quitting' \in [Quitter -> [at : {"no", "next", "asking"},
                                  i : 0..Len(named_services)]]
  BY <1>1, <1>3, QuitWhenType DEF Quitter
<1>5. RootTypeOK'
  BY <1>1, <1>2, <1>3, <1>4 DEF RootTypeOK
<1> QED
  BY <1>1, <1>5, RecordsKept DEF BaseInv, RecordInv, CallKept

(* The loop of quit stays in the list of names. *)
LEMMA RecordQuitNext ==
  ASSUME BaseInv, NEW w \in Quitter, QuitNext(w)
  PROVE  RecordInv'
<1> DEFINE i == quitting[w].i
           s == named_services[i][2]
<1>1. RootTypeOK /\ quitting[w].at = "next" /\ i \in 0..Len(named_services)
  BY DEF BaseInv, RecordInv, RootTypeOK, QuitNext
<1>2. UNCHANGED <<state, anonymous_services, named_services, tokenmap, job, making, boot,
                  inbox, req, broken, late>>
  BY DEF QuitNext
<1>3. /\ quitting' \in [Quitter -> [at : {"no", "next", "asking"},
                                    i : 0..Len(named_services)]]
      /\ asked' \subseteq Service \X Quitter /\ ended' \in BOOLEAN
  <2>1. CASE i = 0
    BY <1>1, <2>1 DEF QuitNext, RootTypeOK
  <2>2. CASE i # 0
    <3>1. i \in 1..Len(named_services) /\ i - 1 \in 0..Len(named_services)
      BY <1>1, <2>2 DEF RootTypeOK
    <3>2. named_services[i] \in (Name \cup {Exclusive}) \X Service
      BY <1>1, <3>1 DEF RootTypeOK
    <3>3. s \in Service
      BY <3>2
    <3>4. CASE Live(s)
      <4>1. /\ quitting' = [quitting EXCEPT ![w].at = "asking"]
            /\ asked' = asked \cup {<<s, w>>} /\ UNCHANGED ended
        BY <2>2, <3>4 DEF QuitNext
      <4> QED
        BY <1>1, <3>3, <4>1 DEF RootTypeOK
    <3>5. CASE ~Live(s)
      <4>1. /\ quitting' = [quitting EXCEPT ![w].i = @ - 1]
            /\ UNCHANGED <<asked, ended>>
        BY <2>2, <3>5 DEF QuitNext
      <4> QED
        BY <1>1, <3>1, <4>1 DEF RootTypeOK
    <3> QED
      BY <3>4, <3>5
  <2> QED
    BY <2>1, <2>2
<1>4. RootTypeOK'
  BY <1>1, <1>2, <1>3 DEF RootTypeOK
<1> QED
  BY <1>2, <1>4, RecordsKept DEF BaseInv, RecordInv, CallKept

(* An answer to "quit" comes to the one that has asked. *)
LEMMA RecordQuitted ==
  ASSUME BaseInv, NEW s \in Service, NEW w \in Quitter, Quitted(s, w)
  PROVE  /\ RecordInv' /\ TakesMail(<<"quitted", <<s, w>> >>)
         /\ quitting[w].at = "asking"
<1>1. TakesMail(<<"quitted", <<s, w>> >>) /\ RootTypeOK
  BY TookMail DEF BaseInv, Quitted, RecordInv
<1>2. quitting[w].at = "asking" /\ quitting[w].i # 0
  BY <1>1 DEF TakesMail, BaseInv, MailInv, AskInv
<1>3. quitting' \in [Quitter -> [at : {"no", "next", "asking"},
                                  i : 0..Len(named_services)]]
  <2>1. quitting[w].i \in 0..Len(named_services) /\ Len(named_services) \in Nat
    BY <1>1 DEF RootTypeOK
  <2>2. quitting[w].i - 1 \in 0..Len(named_services)
    BY <2>1, <1>2
  <2> QED
    BY <1>1, <2>2 DEF Quitted, RootTypeOK
<1>4. RootTypeOK'
  BY <1>1, <1>3 DEF Quitted, RootTypeOK, TakesMail
<1> QED
  BY <1>1, <1>2, <1>4, RecordsKept DEF Quitted, BaseInv, RecordInv, CallKept

(* The services *)
LEMMA RecordCall ==
  ASSUME RegistryAssumption, BaseInv, NEW s \in Service, NEW op \in Operation,
         NEW n \in Name \cup {Nothing}, op # "spawn" => n \in Name, CallRoot(s, op, n)
  PROVE  /\ RecordInv'
         /\ \E r \in Calls :
              /\ req[r] = Nothing /\ AddsMail(<<"call", r>>)
              /\ req'[r] # Nothing /\ req'[r].op = op /\ req'[r].name = n
              /\ req'[r].answer = Nothing
              /\ \A x \in Calls \ {r} : req'[x] = req[x]
<1> DEFINE r == CHOOSE x \in Calls : req[x] = Nothing
           c == [from |-> IF op = "register" THEN s ELSE Nothing,
                 op |-> op, name |-> n, answer |-> Nothing]
<1>1. r \in Calls /\ req[r] = Nothing /\ s \in Address
  BY DEF CallRoot, Service
<1>2. req' = [req EXCEPT ![r] = c] /\ PostRoot(<<"call", r>>)
  BY DEF CallRoot
<1>3. /\ c \in CallRecord /\ c.op = op /\ c.name = n /\ c.answer = Nothing
      /\ op = "register" => c.from \in Address
  BY <1>1 DEF CallRecord
<1>4. c # Nothing
  BY <1>3 DEF RegistryAssumption
<1> HIDE DEF c, r
<1>5. RootTypeOK /\ AddsMail(<<"call", r>>)
  BY <1>1, <1>2, PostedMail DEF BaseInv, RecordInv, Letter
<1>6. /\ req' \in [Calls -> CallRecord \cup {Nothing}]
      /\ req'[r] = c /\ \A x \in Calls \ {r} : req'[x] = req[x]
  BY <1>1, <1>2, <1>3, <1>5 DEF RootTypeOK
<1>7. UNCHANGED <<state, asked, anonymous_services, named_services, tokenmap, job, making,
                  boot, quitting, ended, broken, late>>
  BY DEF CallRoot, ServiceOnly
<1>8. RootTypeOK'
  BY <1>5, <1>6, <1>7 DEF RootTypeOK, AddsMail
<1>9. RecordInv'
  BY <1>3, <1>6, <1>7, <1>8 DEF BaseInv, RecordInv
<1> QED
  BY <1>1, <1>3, <1>4, <1>5, <1>6, <1>9

(* A service answers init, *)
LEMMA RecordInited ==
  ASSUME BaseInv, NEW a \in Address, NEW result \in {"up", "failed", "dead"},
         Inited(a, result)
  PROVE  RecordInv' /\ AddsMail(<<"inited", a, result = "up">>)
<1>1. RootTypeOK /\ AddsMail(<<"inited", a, result = "up">>)
  BY PostedMail DEF BaseInv, RecordInv, Letter, Inited
<1>2. RootTypeOK'
  BY <1>1 DEF Inited, ServiceOnly, RootTypeOK, AddsMail
<1> QED
  BY <1>1, <1>2, RecordsKept DEF Inited, ServiceOnly, BaseInv, RecordInv, CallKept

(* dies, *)
LEMMA RecordDie ==
  ASSUME BaseInv, NEW a \in Address, Die(a)
  PROVE  RecordInv'
<1>1. RootTypeOK'
  BY DEF Die, ServiceOnly, RootTypeOK, BaseInv, RecordInv
<1> QED
  BY <1>1, RecordsKept DEF Die, ServiceOnly, BaseInv, RecordInv, CallKept

(* is reported, *)
LEMMA RecordSignal ==
  ASSUME BaseInv, NEW a \in Address, SignalRoot(a)
  PROVE  RecordInv' /\ AddsMail(<<"signal", a>>)
<1>1. RootTypeOK /\ AddsMail(<<"signal", a>>)
  BY PostedMail DEF BaseInv, RecordInv, Letter, SignalRoot, Service
<1>2. RootTypeOK'
  BY <1>1 DEF SignalRoot, ServiceOnly, RootTypeOK, AddsMail
<1> QED
  BY <1>1, <1>2, RecordsKept DEF SignalRoot, ServiceOnly, BaseInv, RecordInv, CallKept

(* and answers "quit". *)
LEMMA RecordAnswerQuit ==
  ASSUME BaseInv, NEW s \in Service, NEW w \in Quitter, AnswerQuit(s, w)
  PROVE  RecordInv' /\ AddsMail(<<"quitted", <<s, w>> >>)
<1>1. RootTypeOK /\ AddsMail(<<"quitted", <<s, w>> >>)
  BY PostedMail DEF BaseInv, RecordInv, Letter, AnswerQuit
<1>2. RootTypeOK'
  BY <1>1 DEF AnswerQuit, ServiceOnly, RootTypeOK, AddsMail
<1> QED
  BY <1>1, <1>2, RecordsKept DEF AnswerQuit, ServiceOnly, BaseInv, RecordInv, CallKept

-----------------------------------------------------------------------------
(***************************************************************************)
(* What leaves each part of the invariant alone.                           *)
(***************************************************************************)

(* The messages that an operator or a kind of them is about are no more. *)
FewerOf(kind) ==
  \A m \in Mail(inbox)' : m[1] = kind => m \in Mail(inbox)

(* A step that takes or adds a message leaves those of the other kinds alone. *)
LEMMA OtherMail ==
  ASSUME NEW m, NEW kind, TakesMail(m) \/ (AddsMail(m) /\ m[1] # kind),
         kind # "init_error"
  PROVE  FewerOf(kind)
<1>1. \A e : e = <<"init_error">> => e[1] = "init_error"
  OBVIOUS
<1> QED
  BY <1>1 DEF TakesMail, AddsMail, FewerOf

(* The answers to init stay due. *)
LEMMA InitStays ==
  ASSUME InitInv, UNCHANGED making, FewerOf("inited"),
         \A a \in Address : state'[a] \in {"none", "init"} => state'[a] = state[a]
  PROVE  InitInv'
<1>1. \A a, ok : <<"inited", a, ok>>[1] = "inited"
  OBVIOUS
<1> QED
  BY <1>1 DEF InitInv, FewerOf

(* boot stays where it waits. *)
LEMMA BootStays ==
  ASSUME BootInv, UNCHANGED <<boot, making, job>>,
         \A k \in Key : Boot \in tokenmap'[k] => Boot \in tokenmap[k],
         quitting'["boot"].at # "no" => quitting["boot"].at # "no"
  PROVE  BootInv'
BY DEF BootInv

(* Who was asked to quit stays asked, or has been answered for. *)
LEMMA AskStays ==
  ASSUME AskInv, UNCHANGED quitting, asked' \subseteq asked, FewerOf("quitted")
  PROVE  AskInv'
<1>1. \A x : <<"quitted", x>>[1] = "quitted"
  OBVIOUS
<1> QED
  BY <1>1 DEF AskInv, FewerOf

(* The calls stay where their operations have put them. *)
LEMMA TokenStays ==
  ASSUME TokenInv, \A r \in Calls : CallKept(r), FewerOf("call"),
         \A k \in Key : tokenmap'[k] \subseteq tokenmap[k],
         making' \subseteq making, UNCHANGED job
  PROVE  TokenInv'
<1>1. \A r : <<"call", r>>[1] = "call"
  OBVIOUS
<1> QED
  BY <1>1 DEF TokenInv, FewerOf, CallKept

(* The services made for names stay the only ones. *)
LEMMA NameStays ==
  ASSUME NameInv, UNCHANGED <<named_services, making, job>>,
         \A k \in Key : tokenmap[k] \subseteq tokenmap'[k],
         \A a \in Address : Live(a)' => Live(a)
  PROVE  NameInv'
BY DEF NameInv, ListedOnce, Registered, Key

(* The list of names only grows. *)
NamesGrow ==
  /\ \A x : Registered(x) => Registered(x)' /\ Lookup(x)' = Lookup(x)
  /\ \A a : HasName(a) => HasName(a)'

(* A list that is not changed keeps its names. *)
LEMMA NamesStay ==
  ASSUME UNCHANGED named_services
  PROVE  NamesGrow /\ \A x : Registered(x)' = Registered(x)
BY DEF NamesGrow, Registered, Lookup, HasName

(* Answered calls keep their answers. *)
LEMMA AnswerStays ==
  ASSUME AnswerInv, NamesGrow, \A r \in Calls : CallKept(r),
         \A r \in Calls : req'[r] # Nothing =>
           \/ req'[r].answer \in {Nothing, Error}
           \/ req[r] # Nothing /\ req'[r].answer = req[r].answer
           \/ req'[r].op \notin {"unique", "query"}
  PROVE  AnswerInv'
BY DEF AnswerInv, NamesGrow, CallKept

(* Names that somebody waits for stay made or given up. *)
LEMMA WaitStays ==
  ASSUME WaitInv, making \subseteq making', \A a \in making : job'[a] = job[a],
         broken \subseteq broken',
         \A n \in Name : tokenmap'[<<"unique", n>>] # {} =>
                           tokenmap[<<"unique", n>>] # {}
  PROVE  WaitInv'
BY DEF WaitInv, InMaking

(* A call is not answered, in root's queue or not, as before. *)
StillOwed(r) ==
  req'[r] # Nothing /\ req'[r].answer = Nothing =>
    /\ req[r] # Nothing /\ req[r].answer = Nothing
    /\ req'[r].op = req[r].op /\ req'[r].name = req[r].name
    /\ <<"call", r>> \in Mail(inbox) => <<"call", r>> \in Mail(inbox)'

(* A message is contained in the queue if it is one of its messages. *)
LEMMA ContainsMail ==
  ASSUME NEW q \in Seq(Letter)
  PROVE  \A m : Contains(q, m) <=> m \in Mail(q)
<1>1. DOMAIN q = 1..Len(q)
  OBVIOUS
<1> QED
  BY <1>1 DEF Contains, Mail

(* A call stays owed when nothing that it waits for goes. *)
LEMMA OwedStays ==
  ASSUME NoCallForgotten, RootTypeOK, RootTypeOK', NEW r \in Calls, StillOwed(r),
         making \subseteq making', \A a \in making : job'[a] = job[a],
         broken \subseteq broken', UNCHANGED named_services,
         \A k \in Key : tokenmap[k] \subseteq tokenmap'[k],
         req[r] # Nothing /\ req[r].op # "spawn" => req[r].name \in Name
  PROVE  req'[r] # Nothing /\ req'[r].answer = Nothing => Owed(r)'
<1> SUFFICES ASSUME req'[r] # Nothing, req'[r].answer = Nothing PROVE Owed(r)'
  OBVIOUS
<1> DEFINE n == req[r].name
<1>1. Owed(r) /\ req'[r].op = req[r].op /\ req'[r].name = n
  BY DEF NoCallForgotten, StillOwed
<1>2. Contains(inbox, <<"call", r>>) => Contains(inbox, <<"call", r>>)'
  <2>1. inbox \in Seq(Letter) /\ inbox' \in Seq(Letter)
    BY DEF RootTypeOK
  <2>2. Contains(inbox, <<"call", r>>) <=> <<"call", r>> \in Mail(inbox)
    BY <2>1, ContainsMail
  <2>3. Contains(inbox', <<"call", r>>) <=> <<"call", r>> \in Mail(inbox')
    BY <2>1, ContainsMail
  <2> QED
    BY <2>2, <2>3 DEF StillOwed
<1>3. \A j : InMaking(j) => InMaking(j)'
  BY DEF InMaking
<1>4. req[r].op # "spawn" => <<"unique", n>> \in Key /\ <<"query", n>> \in Key
  BY DEF Key, StillOwed
<1>5. Registered(n)' <=> Registered(n)
  BY <1>1 DEF Registered
<1> QED
  BY <1>1, <1>2, <1>3, <1>4, <1>5 DEF Owed

(* The living stay counted or named when nobody is added. *)
LEMMA EndStays ==
  ASSUME EndInv, NamesGrow, \A a \in Address : Live(a)' => Live(a),
         \A a \in Address :
           Live(a)' /\ a \in anonymous_services => a \in anonymous_services' \/ HasName(a)',
         late \subseteq late', Quits' => Quits
  PROVE  EndInv'
BY DEF EndInv, EndsLast, NamesGrow, HasName

-----------------------------------------------------------------------------
(***************************************************************************)
(* Each step keeps the invariant.                                          *)
(***************************************************************************)
LEMMA RootBase ==
  ASSUME RootInv
  PROVE  BaseInv /\ RootTypeOK
BY DEF RootInv, BaseInv, NameInv, RecordInv

(* A message of one kind is taken: there are not more of any other kind. *)
LEMMA TakenFewer ==
  ASSUME NEW m, TakesMail(m)
  PROVE  FewerOf("call") /\ FewerOf("inited") /\ FewerOf("quitted")
BY OtherMail

(* No message but the one that is taken leaves the queue. *)
LEMMA TakenStays ==
  ASSUME NEW m, TakesMail(m), NEW r, m # <<"call", r>>
  PROVE  <<"call", r>> \in Mail(inbox) => <<"call", r>> \in Mail(inbox)'
BY DEF TakesMail

(* A turn that takes a message and leaves the tables of the services alone *)
LEMMA TakenMailInv ==
  ASSUME MailInv, NEW m, TakesMail(m), UNCHANGED <<making, quitting>>,
         asked' \subseteq asked,
         \A a \in Address : state'[a] \in {"none", "init"} => state'[a] = state[a],
         UNCHANGED <<boot, job>>,
         \A k \in Key : Boot \in tokenmap'[k] => Boot \in tokenmap[k]
  PROVE  MailInv'
<1>1. FewerOf("inited") /\ FewerOf("quitted")
  BY TakenFewer
<1>2. InitInv'
  BY <1>1, InitStays DEF MailInv
<1>3. BootInv'
  BY BootStays DEF MailInv
<1>4. AskInv'
  BY <1>1, AskStays DEF MailInv
<1> QED
  BY <1>2, <1>3, <1>4 DEF MailInv, TakesMail

(* The states of the services and the list of names are as they were. *)
LEMMA EndSame ==
  ASSUME EndInv, UNCHANGED <<state, anonymous_services, named_services, quitting, late>>
  PROVE  EndInv'
BY DEF EndInv, EndsLast, HasName, Live, Quits

(* What the invariant says of the calls for an operation *)
LEMMA CallTyped ==
  ASSUME RecordInv, NEW r \in Calls
  PROVE  /\ req[r] # Nothing /\ req[r].op # "spawn" => req[r].name \in Name
         /\ req[r] # Nothing => req[r] \in CallRecord
BY DEF RecordInv, RootTypeOK

(* A call that waits for a key is added to those that do. *)
LEMMA WaitsAdds ==
  ASSUME RootTypeOK, NEW k \in Key, NEW r,
         tokenmap' = [tokenmap EXCEPT ![k] = @ \cup {r}]
  PROVE  /\ \A q \in Key : tokenmap[q] \subseteq tokenmap'[q]
         /\ \A q \in Key : tokenmap'[q] \subseteq tokenmap[q] \cup {r}
         /\ \A q \in Key : q # k => tokenmap'[q] = tokenmap[q]
         /\ r \in tokenmap'[k]
<1>1. \A q \in Key : tokenmap'[q] = IF q = k THEN tokenmap[q] \cup {r} ELSE tokenmap[q]
  BY DEF RootTypeOK
<1> QED
  BY <1>1

(* S.queryservice *)
LEMMA StepQuery ==
  ASSUME RegistryAssumption, RootInv, NEW r \in Calls, QueryService(r)
  PROVE  RootInv'
<1> DEFINE n == req[r].name
           k == <<"query", n>>
<1>1. BaseInv /\ RootTypeOK
  BY RootBase
<1>2. RecordInv' /\ RootTypeOK'
  BY <1>1, RecordQuery DEF RecordInv
<1>3. TakesMail(<<"call", r>>)
  BY <1>1, TookMail DEF BaseInv, QueryService
<1>4. req[r] # Nothing /\ n \in Name /\ req[r].op = "query" /\ k \in Key
  BY <1>1, <1>3, CallTyped
     DEF BaseInv, TokenInv, TakesMail, QueryService, Key
<1>5. UNCHANGED <<state, anonymous_services, job, making, late, named_services, boot,
                  quitting, asked, ended, broken>>
  BY DEF QueryService, NoNewService
<1>6. EndInv'
  BY <1>5, EndSame DEF RootInv
<1>7. NamesGrow /\ \A x : Registered(x)' = Registered(x)
  BY <1>5, NamesStay
<1>8. \A a \in Address : Live(a)' => Live(a)
  BY <1>5 DEF Live
<1>9. FewerOf("call")
  BY <1>3, TakenFewer
<1>10. \A x \in Calls \ {r} :
         <<"call", x>> \in Mail(inbox) => <<"call", x>> \in Mail(inbox)'
  <2>1. \A x : x # r => <<"call", x>> # <<"call", r>>
    OBVIOUS
  <2> QED
    BY <2>1, <1>3 DEF TakesMail
<1>11. CASE Registered(n)
  <2>1. Answer({r}, Lookup(n)) /\ UNCHANGED tokenmap
    BY <1>11 DEF QueryService
  <2>2. Lookup(n) \in Service
    BY <1>1, <1>11, LookupType
  <2>3. Answered({r}, Lookup(n))
    BY <2>1, <2>2, <1>1, <1>4, AnswerRecords DEF BaseInv
  <2>4. MailInv'
    BY <1>3, <1>5, <2>1, TakenMailInv DEF RootInv
  <2>5. TokenInv'
    BY <1>5, <1>9, <2>1, <2>3, TokenStays DEF RootInv, Answered
  <2>6. NameInv'
    BY <1>5, <1>8, <2>1, NameStays DEF RootInv
  <2>7. AnswerInv'
    BY <1>4, <1>7, <1>11, <2>3
       DEF RootInv, AnswerInv, NamesGrow, Answered, CallKept
  <2>8. WaitInv'
    BY <1>5, <2>1, WaitStays DEF RootInv, OwedInv
  <2>9. NoCallForgotten'
    <3> SUFFICES ASSUME NEW x \in Calls, req'[x] # Nothing, req'[x].answer = Nothing
                 PROVE  Owed(x)'
      BY DEF NoCallForgotten
    <3>1. x # r
      BY <2>2, <2>3 DEF RegistryAssumption, Service, Answered
    <3>2. StillOwed(x)
      BY <3>1, <1>10, <2>3 DEF StillOwed, Answered
    <3> QED
      BY <3>2, <1>1, <1>2, <1>5, <2>1, OwedStays, CallTyped
         DEF RootInv, OwedInv, BaseInv
  <2> QED
    BY <1>2, <1>6, <2>4, <2>5, <2>6, <2>7, <2>8, <2>9 DEF RootInv, OwedInv
<1>12. CASE ~Registered(n)
  <2>1. tokenmap' = [tokenmap EXCEPT ![k] = @ \cup {r}] /\ UNCHANGED req
    BY <1>12 DEF QueryService
  <2>2. /\ \A q \in Key : tokenmap[q] \subseteq tokenmap'[q]
        /\ \A q \in Key : tokenmap'[q] \subseteq tokenmap[q] \cup {r}
        /\ \A q \in Key : r \in tokenmap'[q] => q = k \/ r \in tokenmap[q]
        /\ \A q \in Key : q[1] # "query" => tokenmap'[q] = tokenmap[q]
        /\ r \in tokenmap'[k]
    <3>1. k[1] = "query"
      OBVIOUS
    <3> HIDE DEF k
    <3> QED
      BY <2>1, <3>1, <1>1, <1>4, WaitsAdds
  <2>3. MailInv'
    <3>1. Boot # r
      BY DEF RegistryAssumption
    <3> QED
      BY <3>1, <1>3, <1>5, <2>2, TakenMailInv DEF RootInv
  <2>4. TokenInv'
    <3>1. \A x : <<"call", x>>[1] = "call"
      OBVIOUS
    <3>2. k[1] = "query" /\ k[2] = n
      OBVIOUS
    <3> QED
      BY <1>4, <1>5, <1>9, <2>1, <2>2, <3>1, <3>2
         DEF RootInv, TokenInv, FewerOf
  <2>5. NameInv'
    BY <1>5, <1>8, <2>2, NameStays DEF RootInv
  <2>6. AnswerInv'
    BY <1>7, <2>1, AnswerStays DEF RootInv, CallKept
  <2>7. WaitInv'
    BY <1>5, <2>2, WaitStays DEF RootInv, OwedInv, Key
  <2>8. NoCallForgotten'
    <3> SUFFICES ASSUME NEW x \in Calls, req'[x] # Nothing, req'[x].answer = Nothing
                 PROVE  Owed(x)'
      BY DEF NoCallForgotten
    <3>1. CASE x = r
      BY <3>1, <1>4, <1>7, <1>12, <2>1, <2>2 DEF Owed
    <3>2. CASE x # r
      <4>1. StillOwed(x)
        BY <3>2, <1>10, <2>1 DEF StillOwed
      <4> QED
        BY <4>1, <1>1, <1>2, <1>5, <2>2, OwedStays, CallTyped
           DEF RootInv, OwedInv, BaseInv
    <3> QED
      BY <3>1, <3>2
  <2> QED
    BY <1>2, <1>6, <2>3, <2>4, <2>5, <2>6, <2>7, <2>8 DEF RootInv, OwedInv
<1> QED
  BY <1>11, <1>12

(* new_service: an address that was free is made something of. *)
LEMMA CreatedStays ==
  ASSUME RootInv, NEW a, NEW j, Creates(a, j), UNCHANGED <<named_services, quitting>>
  PROVE  /\ a \notin making /\ job'[a] = j /\ making' = making \cup {a}
         /\ \A b \in Address \ {a} : job'[b] = job[b]
         /\ \A b \in Address \ {a} : Live(b)' <=> Live(b)
         /\ ~Live(a) /\ a \in Address
         /\ FewerOf("inited") => InitInv'
         /\ EndInv'
<1>1. RootTypeOK /\ a \in Address /\ state[a] = "none"
  BY RootBase DEF Creates
<1>2. a \notin making /\ InitInv
  BY <1>1 DEF RootInv, MailInv, InitInv
<1>3. /\ state'[a] = "init" /\ \A b \in Address \ {a} : state'[b] = state[b]
      /\ job'[a] = j /\ \A b \in Address \ {a} : job'[b] = job[b]
      /\ making' = making \cup {a}
  BY <1>1 DEF Creates, RootTypeOK, Service
<1>4. (\A b \in Address \ {a} : Live(b)' <=> Live(b)) /\ ~Live(a)
  BY <1>1, <1>3 DEF Live
<1>5. ASSUME FewerOf("inited") PROVE InitInv'
  <2>1. \A b, ok : <<"inited", b, ok>>[1] = "inited"
    OBVIOUS
  <2> QED
    BY <1>1, <1>2, <1>3, <1>5, <2>1 DEF InitInv, FewerOf
<1>6. EndInv'
  <2>1. anonymous_services' = anonymous_services \cup {a}
        /\ late' = IF Quits THEN late \cup {a} ELSE late
    BY DEF Creates
  <2>2. Quits' <=> Quits
    BY DEF Quits
  <2>3. EndInv
    BY DEF RootInv
  <2>4. \A b \in Address : Live(b)' => b \in anonymous_services' \/ HasName(b)'
    BY <1>4, <2>1, <2>3 DEF EndInv, HasName
  <2>5. EndsLast'
    BY <1>4, <2>1, <2>2, <2>3 DEF EndInv, EndsLast
  <2> QED
    BY <2>4, <2>5 DEF EndInv
<1> QED
  BY <1>1, <1>2, <1>3, <1>4, <1>5, <1>6

(* S.uniqueservice, for a name that is registered *)
LEMMA StepUniqueKnown ==
  ASSUME RegistryAssumption, RootInv, NEW r \in Calls, UniqueService(r),
         Registered(req[r].name)
  PROVE  RootInv'
<1> DEFINE n == req[r].name
<1>1. BaseInv /\ RootTypeOK
  BY RootBase
<1>2. RecordInv' /\ RootTypeOK'
  BY <1>1, RecordUnique DEF RecordInv
<1>3. TakesMail(<<"call", r>>)
  BY <1>1, TookMail DEF BaseInv, UniqueService
<1>4. req[r] # Nothing /\ n \in Name
  BY <1>1, <1>3, CallTyped DEF BaseInv, TokenInv, TakesMail, UniqueService
<1>5. /\ Answer({r}, Lookup(n))
      /\ UNCHANGED <<state, anonymous_services, job, making, late, tokenmap, broken,
                     named_services, boot, quitting, asked, ended>>
  BY DEF UniqueService, NoNewService
<1>6. Lookup(n) \in Service
  BY <1>1, LookupType
<1>7. Answered({r}, Lookup(n))
  BY <1>1, <1>4, <1>5, <1>6, AnswerRecords DEF BaseInv
<1>8. NamesGrow
  BY <1>5, NamesStay
<1>9. MailInv'
  BY <1>3, <1>5, TakenMailInv DEF RootInv
<1>10. TokenInv'
  BY <1>3, <1>5, <1>7, TakenFewer, TokenStays DEF RootInv, Answered
<1>11. NameInv'
  BY <1>5, NameStays DEF RootInv, Live
<1>12. AnswerInv'
  BY <1>4, <1>7, <1>8 DEF RootInv, AnswerInv, NamesGrow, Answered, CallKept
<1>13. WaitInv'
  BY <1>5, WaitStays DEF RootInv, OwedInv
<1>14. NoCallForgotten'
  <2> SUFFICES ASSUME NEW x \in Calls, req'[x] # Nothing, req'[x].answer = Nothing
               PROVE  Owed(x)'
    BY DEF NoCallForgotten
  <2>1. x # r
    BY <1>6, <1>7 DEF RegistryAssumption, Service, Answered
  <2>2. <<"call", x>> # <<"call", r>>
    BY <2>1
  <2>3. StillOwed(x)
    BY <2>1, <2>2, <1>3, <1>7, TakenStays DEF StillOwed, Answered
  <2> QED
    BY <2>3, <1>1, <1>2, <1>5, OwedStays, CallTyped DEF RootInv, OwedInv, BaseInv
<1>15. EndInv'
  BY <1>5, EndSame DEF RootInv
<1> QED
  BY <1>2, <1>9, <1>10, <1>11, <1>12, <1>13, <1>14, <1>15 DEF RootInv, OwedInv

(* and for one that is not: the call waits, for the service that it makes, that
   is being made, or that cannot be made *)
LEMMA StepUniqueNew ==
  ASSUME RegistryAssumption, RootInv, NEW r \in Calls, UniqueService(r),
         ~Registered(req[r].name)
  PROVE  RootInv'
<1> DEFINE n == req[r].name
           u == <<"unique", n>>
<1>1. BaseInv /\ RootTypeOK
  BY RootBase
<1>2. RecordInv' /\ RootTypeOK'
  BY <1>1, RecordUnique DEF RecordInv
<1>3. TakesMail(<<"call", r>>)
  BY <1>1, TookMail DEF BaseInv, UniqueService
<1>4. /\ req[r] # Nothing /\ n \in Name /\ req[r].op = "unique" /\ u \in Key
      /\ Boot # r
  BY <1>1, <1>3, CallTyped
     DEF BaseInv, TokenInv, TakesMail, UniqueService, Key, RegistryAssumption
<1>5. /\ tokenmap' = [tokenmap EXCEPT ![u] = @ \cup {r}]
      /\ UNCHANGED <<req, named_services, boot, quitting, asked, ended>>
  BY DEF UniqueService
<1>6. /\ \A q \in Key : tokenmap[q] \subseteq tokenmap'[q]
      /\ \A q \in Key : tokenmap'[q] \subseteq tokenmap[q] \cup {r}
      /\ \A q \in Key : q # u => tokenmap'[q] = tokenmap[q]
      /\ r \in tokenmap'[u]
  <2> HIDE DEF u
  <2> QED
    BY <1>1, <1>4, <1>5, WaitsAdds
<1>7. NamesGrow /\ \A x : Registered(x)' <=> Registered(x)
  BY <1>5, NamesStay
<1>8. \/ /\ IsFirst(n) /\ \E a \in Address : Creates(a, u)
         /\ UNCHANGED broken
      \/ /\ NoNewService /\ broken \subseteq broken'
         /\ ~IsFirst(n) \/ n \in broken'
  <2>1. CASE ~IsFirst(n)
    BY <2>1 DEF UniqueService
  <2>2. CASE IsFirst(n) /\ Free = {}
    BY <2>2 DEF UniqueService
  <2>3. CASE IsFirst(n) /\ Free # {}
    <3>1. NewService(u) /\ UNCHANGED broken
      BY <2>3 DEF UniqueService
    <3> QED
      BY <3>1, <2>3, <1>1, CreateCreates
  <2> QED
    BY <2>1, <2>2, <2>3
<1>9. FewerOf("call") /\ FewerOf("inited") /\ FewerOf("quitted")
  BY <1>3, TakenFewer
<1>10. /\ making \subseteq making' /\ \A a \in making : job'[a] = job[a]
       /\ \A a \in making' \ making : job'[a] = u /\ IsFirst(n)
       /\ \A a \in making' \ making : \A b \in making' \ making : a = b
       /\ InitInv' /\ EndInv'
       /\ (n \in broken' \/ \E a \in making' : job'[a] = u)
       /\ broken \subseteq broken'
       /\ \A a \in Address : Live(a)' => Live(a) \/ a \in making' \ making
       /\ \A a \in Address \ (making' \ making) : job'[a] = job[a]
  <2>1. CASE IsFirst(n) /\ (\E a \in Address : Creates(a, u)) /\ UNCHANGED broken
    <3>1. PICK a \in Address : Creates(a, u)
      BY <2>1
    <3>2. /\ a \notin making /\ job'[a] = u /\ making' = making \cup {a}
          /\ \A b \in Address \ {a} : job'[b] = job[b]
          /\ \A b \in Address \ {a} : Live(b)' <=> Live(b)
          /\ InitInv' /\ EndInv'
      BY <3>1, <1>5, <1>9, CreatedStays
    <3>3. making \subseteq Address
      BY <1>1 DEF RootTypeOK
    <3> HIDE DEF u
    <3> QED
      BY <3>2, <3>3, <2>1
  <2>2. CASE /\ NoNewService /\ broken \subseteq broken'
             /\ ~IsFirst(n) \/ n \in broken'
    <3>1. UNCHANGED <<state, anonymous_services, job, making, late>>
      BY <2>2 DEF NoNewService
    <3>2. InitInv'
      BY <3>1, <1>9, InitStays DEF RootInv, MailInv
    <3>3. EndInv'
      BY <3>1, <1>5, EndSame DEF RootInv
    <3>4. ~IsFirst(n) => n \in broken \/ \E a \in making : job[a] = u
      BY <1>4 DEF RootInv, OwedInv, WaitInv, InMaking, IsFirst
    <3> QED
      BY <2>2, <3>1, <3>2, <3>3, <3>4 DEF Live
  <2> QED
    BY <1>8, <2>1, <2>2
<1>11. MailInv'
  <2>1. AskInv'
    BY <1>5, <1>9, AskStays DEF RootInv, MailInv
  <2>2. BootInv'
    <3>1. u # <<"spawn", Boot>>
      OBVIOUS
    <3>2. \A q \in Key : Boot \in tokenmap'[q] => Boot \in tokenmap[q]
      BY <1>4, <1>6
    <3>3. \A a \in making' : job'[a] = <<"spawn", Boot>> => a \in making /\ job[a] = job'[a]
      BY <3>1, <1>10
    <3> HIDE DEF u
    <3> QED
      BY <3>2, <3>3, <1>5, <1>10 DEF RootInv, MailInv, BootInv
  <2> QED
    BY <2>1, <2>2, <1>3, <1>10 DEF RootInv, MailInv, TakesMail
<1>12. TokenInv'
  <2>1. \A x : <<"call", x>>[1] = "call"
    OBVIOUS
  <2>2. u[1] = "unique" /\ u[2] = n /\ \A x : u # <<"spawn", x>>
    OBVIOUS
  <2>3. \A a \in making' : job'[a] # u => a \in making /\ job'[a] = job[a]
    BY <1>10
  <2> HIDE DEF u
  <2> QED
    BY <1>4, <1>5, <1>6, <1>9, <2>1, <2>2, <2>3 DEF RootInv, TokenInv, FewerOf
<1>13. NameInv'
  <2>1. \A m \in Name : <<"unique", m>> \in Key /\ (<<"unique", m>> = u => m = n)
    BY DEF Key
  <2>2. making \subseteq Address /\ making' \subseteq Address
    BY <1>1, <1>2 DEF RootTypeOK
  <2>3. ListedOnce'
    BY <1>5 DEF RootInv, NameInv, ListedOnce
  <2>4. ASSUME NEW m \in Name, NEW a \in making', job'[a] = <<"unique", m>>
        PROVE  tokenmap'[<<"unique", m>>] # {}
    <3>1. CASE a \in making
      BY <3>1, <2>1, <2>4, <1>6, <1>10 DEF RootInv, NameInv
    <3>2. CASE a \notin making
      BY <3>2, <2>1, <2>4, <1>6, <1>10
    <3> QED
      BY <3>1, <3>2
  <2>5. IsFirst(n) =>
          \A a \in Address : job[a] = u => a \notin making /\ ~Live(a)
    BY <1>4, <2>2 DEF RootInv, NameInv, IsFirst
  <2>6. ASSUME NEW m \in Name, NEW a \in making', NEW b \in making',
               job'[a] = <<"unique", m>>, job'[b] = <<"unique", m>>
        PROVE  a = b
    <3>1. CASE a \in making /\ b \in making
      BY <3>1, <2>6, <1>10 DEF RootInv, NameInv
    <3>2. CASE a \notin making /\ b \in making
      BY <3>2, <2>2, <2>5, <2>6, <1>10
    <3>3. CASE a \in making /\ b \notin making
      BY <3>3, <2>2, <2>5, <2>6, <1>10
    <3>4. CASE a \notin making /\ b \notin making
      BY <3>4, <1>10
    <3> QED
      BY <3>1, <3>2, <3>3, <3>4
  <2>7. ASSUME NEW m \in Name, NEW a \in Address \ making',
               job'[a] = <<"unique", m>>, Live(a)'
        PROVE  Registered(m)'
    <3>1. a \notin making /\ job[a] = <<"unique", m>> /\ Live(a)
      BY <2>7, <1>10
    <3> QED
      BY <3>1, <1>7 DEF RootInv, NameInv
  <2>8. ASSUME NEW m \in Name, NEW a \in Address, NEW b \in Address,
               job'[a] = <<"unique", m>>, job'[b] = <<"unique", m>>,
               Live(a)', Live(b)'
        PROVE  a = b
    <3> DEFINE new == making' \ making
    <3>1. CASE a \notin new /\ b \notin new
      BY <3>1, <2>8, <1>10 DEF RootInv, NameInv
    <3>2. CASE a \in new /\ b \notin new
      BY <3>2, <2>5, <2>8, <1>10
    <3>3. CASE a \notin new /\ b \in new
      BY <3>3, <2>5, <2>8, <1>10
    <3>4. CASE a \in new /\ b \in new
      BY <3>4, <1>10
    <3> QED
      BY <3>1, <3>2, <3>3, <3>4
  <2> QED
    BY <2>3, <2>4, <2>6, <2>7, <2>8 DEF NameInv
<1>14. AnswerInv'
  BY <1>5, <1>7, AnswerStays DEF RootInv, CallKept
<1>15. WaitInv'
  <2> SUFFICES ASSUME NEW m \in Name, tokenmap'[<<"unique", m>>] # {}
               PROVE  InMaking(<<"unique", m>>)' \/ m \in broken'
    BY DEF WaitInv
  <2>1. CASE m = n
    BY <2>1, <1>10 DEF InMaking
  <2>2. CASE m # n
    <3>1. <<"unique", m>> # u /\ <<"unique", m>> \in Key
      BY <2>2 DEF Key
    <3>2. tokenmap[<<"unique", m>>] # {}
      BY <3>1, <1>6
    <3> QED
      BY <3>2, <1>10 DEF RootInv, OwedInv, WaitInv, InMaking
  <2> QED
    BY <2>1, <2>2
<1>16. NoCallForgotten'
  <2> SUFFICES ASSUME NEW x \in Calls, req'[x] # Nothing, req'[x].answer = Nothing
               PROVE  Owed(x)'
    BY DEF NoCallForgotten
  <2>1. CASE x = r
    BY <2>1, <1>4, <1>5, <1>6, <1>10 DEF Owed, InMaking
  <2>2. CASE x # r
    <3>1. <<"call", x>> # <<"call", r>>
      BY <2>2
    <3>2. StillOwed(x)
      BY <3>1, <1>3, <1>5, TakenStays DEF StillOwed
    <3> QED
      BY <3>2, <1>1, <1>2, <1>5, <1>6, <1>10, OwedStays, CallTyped
         DEF RootInv, OwedInv, BaseInv
  <2> QED
    BY <2>1, <2>2
<1> QED
  BY <1>2, <1>10, <1>11, <1>12, <1>13, <1>14, <1>15, <1>16 DEF RootInv, OwedInv

(* A service that is spawned changes nothing for the names. *)
LEMMA SpawnedStays ==
  ASSUME RootInv, NEW c, NEW a, Creates(a, <<"spawn", c>>),
         UNCHANGED <<named_services, quitting, tokenmap, broken>>
  PROVE  NameInv' /\ WaitInv' /\ EndInv' /\ (FewerOf("inited") => InitInv')
<1> DEFINE j == <<"spawn", c>>
<1>1. /\ a \notin making /\ job'[a] = j /\ making' = making \cup {a}
      /\ \A b \in Address \ {a} : job'[b] = job[b]
      /\ \A b \in Address \ {a} : Live(b)' <=> Live(b)
      /\ a \in Address /\ EndInv' /\ (FewerOf("inited") => InitInv')
  BY CreatedStays
<1>2. \A n : j # <<"unique", n>>
  OBVIOUS
<1>3. making \subseteq Address
  BY RootBase DEF RootTypeOK
<1> HIDE DEF j
<1>4. NameInv'
  <2>1. ListedOnce'
    BY DEF RootInv, NameInv, ListedOnce
  <2>2. \A n \in Name, b \in Address :
          job'[b] = <<"unique", n>> =>
            /\ b # a /\ job[b] = <<"unique", n>>
            /\ b \in making' <=> b \in making
            /\ Live(b)' <=> Live(b)
    BY <1>1, <1>2
  <2>3. \A n : Registered(n)' <=> Registered(n)
    BY NamesStay
  <2>4. making' \subseteq Address
    BY <1>1, <1>3
  <2> QED
    BY <2>1, <2>2, <2>3, <2>4 DEF RootInv, NameInv
<1>5. WaitInv'
  <2>1. making \subseteq making' /\ \A b \in making : job'[b] = job[b]
    BY <1>1, <1>3
  <2> QED
    BY <2>1, WaitStays DEF RootInv, OwedInv
<1> QED
  BY <1>1, <1>4, <1>5

(* S.spawn *)
LEMMA StepSpawn ==
  ASSUME RegistryAssumption, RootInv, NEW r \in Calls, Spawn(r)
  PROVE  RootInv'
<1> DEFINE j == <<"spawn", r>>
<1>1. BaseInv /\ RootTypeOK
  BY RootBase
<1>2. RecordInv' /\ RootTypeOK'
  BY <1>1, RecordSpawn DEF RecordInv
<1>3. TakesMail(<<"call", r>>)
  BY <1>1, TookMail DEF BaseInv, Spawn
<1>4. req[r] # Nothing /\ req[r].op = "spawn" /\ Boot # r
  BY <1>1, <1>3 DEF BaseInv, TokenInv, TakesMail, Spawn, RegistryAssumption
<1>5. UNCHANGED <<named_services, tokenmap, boot, quitting, asked, ended, broken>>
  BY DEF Spawn
<1>6. FewerOf("call") /\ FewerOf("inited") /\ FewerOf("quitted")
  BY <1>3, TakenFewer
<1>7. NamesGrow
  BY <1>5, NamesStay
<1>8. \A x \in Calls \ {r} :
        <<"call", x>> \in Mail(inbox) => <<"call", x>> \in Mail(inbox)'
  <2>1. \A x : x # r => <<"call", x>> # <<"call", r>>
    OBVIOUS
  <2> QED
    BY <2>1, <1>3, TakenStays
<1>9. CASE Free # {}
  <2>1. NewService(j) /\ UNCHANGED req
    BY <1>9 DEF Spawn
  <2>2. PICK a \in Address : Creates(a, j)
    BY <2>1, <1>1, <1>9, CreateCreates
  <2>3. NameInv' /\ WaitInv' /\ EndInv' /\ InitInv'
    BY <2>2, <1>5, <1>6, SpawnedStays
  <2>4. /\ making' = making \cup {a} /\ job'[a] = j
        /\ \A b \in making : b # a /\ job'[b] = job[b]
    BY <2>2, <1>1, <1>5, CreatedStays DEF RootTypeOK
  <2>5. MailInv'
    <3>1. AskInv'
      BY <1>5, <1>6, AskStays DEF RootInv, MailInv
    <3>2. j # <<"spawn", Boot>>
      BY <1>4
    <3> HIDE DEF j
    <3>3. BootInv'
      BY <1>5, <2>4, <3>2 DEF RootInv, MailInv, BootInv
    <3> QED
      BY <2>3, <3>1, <3>3, <1>3 DEF RootInv, MailInv, TakesMail
  <2>6. TokenInv'
    <3>1. \A x : <<"call", x>>[1] = "call"
      OBVIOUS
    <3>2. \A x : <<"spawn", x>> = j => x = r
      OBVIOUS
    <3>3. \A b \in making' : job'[b] # j => b \in making /\ job'[b] = job[b]
      BY <2>4
    <3> HIDE DEF j
    <3>4. TokenInv /\ UNCHANGED <<req, tokenmap>>
      BY <1>5, <2>1 DEF RootInv
    <3>5. \A x \in Calls : <<"call", x>> \in Mail(inbox)' => req'[x] # Nothing
      BY <1>6, <3>1, <3>4 DEF TokenInv, FewerOf
    <3>6. \A b \in making', x \in Calls :
            job'[b] = <<"spawn", x>> => req'[x] # Nothing /\ req'[x].op = "spawn"
      <4> SUFFICES ASSUME NEW b \in making', NEW x \in Calls,
                          job'[b] = <<"spawn", x>>
                   PROVE  req[x] # Nothing /\ req[x].op = "spawn"
        BY <3>4
      <4>1. CASE job'[b] = j
        BY <4>1, <1>4, <3>2
      <4>2. CASE job'[b] # j
        <5>1. b \in making /\ job[b] = <<"spawn", x>>
          BY <4>2, <3>3
        <5>2. \A c \in making, y \in Calls :
                job[c] = <<"spawn", y>> => req[y] # Nothing /\ req[y].op = "spawn"
          BY <3>4 DEF TokenInv
        <5> QED
          BY <5>1, <5>2
      <4> QED
        BY <4>1, <4>2
    <3> QED
      BY <3>4, <3>5, <3>6 DEF TokenInv
  <2>7. AnswerInv'
    BY <1>7, <2>1, AnswerStays DEF RootInv, CallKept
  <2>8. NoCallForgotten'
    <3> SUFFICES ASSUME NEW x \in Calls, req'[x] # Nothing, req'[x].answer = Nothing
                 PROVE  Owed(x)'
      BY DEF NoCallForgotten
    <3>1. CASE x = r
      BY <3>1, <1>4, <2>1, <2>4 DEF Owed, InMaking
    <3>2. CASE x # r
      <4>1. StillOwed(x)
        BY <3>2, <1>8, <2>1 DEF StillOwed
      <4> QED
        BY <4>1, <1>1, <1>2, <1>5, <2>4, OwedStays, CallTyped
           DEF RootInv, OwedInv, BaseInv
    <3> QED
      BY <3>1, <3>2
  <2> QED
    BY <1>2, <2>3, <2>5, <2>6, <2>7, <2>8 DEF RootInv, OwedInv
<1>10. CASE Free = {}
  <2>1. /\ Answer({r}, Error)
        /\ UNCHANGED <<state, anonymous_services, job, making, late>>
    BY <1>10 DEF Spawn, NoNewService
  <2>2. Answered({r}, Error)
    BY <2>1, <1>1, <1>4, AnswerRecords DEF BaseInv
  <2>3. MailInv'
    BY <1>3, <1>5, <2>1, TakenMailInv DEF RootInv
  <2>4. TokenInv'
    BY <1>5, <1>6, <2>1, <2>2, TokenStays DEF RootInv, Answered
  <2>5. NameInv'
    BY <1>5, <2>1, NameStays DEF RootInv, Live
  <2>6. AnswerInv'
    <3>1. \A x \in Calls : req'[x] # Nothing =>
            req'[x].answer \in {Nothing, Error} \/ req'[x] = req[x]
      BY <2>2 DEF Answered
    <3> QED
      BY <3>1, <1>7, <2>2, AnswerStays DEF RootInv, Answered
  <2>7. WaitInv'
    BY <1>5, <2>1, WaitStays DEF RootInv, OwedInv
  <2>8. NoCallForgotten'
    <3> SUFFICES ASSUME NEW x \in Calls, req'[x] # Nothing, req'[x].answer = Nothing
                 PROVE  Owed(x)'
      BY DEF NoCallForgotten
    <3>1. x # r
      BY <2>2 DEF RegistryAssumption, Answered
    <3>2. StillOwed(x)
      BY <3>1, <1>8, <2>2 DEF StillOwed, Answered
    <3> QED
      BY <3>2, <1>1, <1>2, <1>5, <2>1, OwedStays, CallTyped
         DEF RootInv, OwedInv, BaseInv
  <2>9. EndInv'
    BY <1>5, <2>1, EndSame DEF RootInv
  <2> QED
    BY <1>2, <2>3, <2>4, <2>5, <2>6, <2>7, <2>8, <2>9 DEF RootInv, OwedInv
<1> QED
  BY <1>9, <1>10

(* S.register, for a name that is not taken, *)
LEMMA StepRegisterNew ==
  ASSUME RegistryAssumption, RootInv, NEW r \in Calls, RegisterSelf(r),
         ~Registered(req[r].name)
  PROVE  RootInv'
<1>0. PICK n, s : n = req[r].name /\ s = req[r].from
  OBVIOUS
<1> DEFINE k == <<"query", n>>
           W == tokenmap[k]
<1>1. BaseInv /\ RootTypeOK
  BY RootBase
<1>2. RecordInv' /\ RootTypeOK'
  BY <1>1, RecordRegister DEF RecordInv
<1>3. TakesMail(<<"call", r>>)
  BY <1>1, TookMail DEF BaseInv, RegisterSelf
<1>4. /\ n \in Name /\ s \in Address /\ k \in Key
      /\ Register(s, n, {k}) /\ Lists(s, n)
      /\ r \notin W
      /\ \A x \in Calls :
           /\ CallKept(x)
           /\ req[x] = Nothing => req'[x] = Nothing
           /\ x \in W => req'[x].answer = s
           /\ x = r => req'[x].answer = Done
           /\ x # r /\ x \notin W => req'[x] = req[x]
  <2>1. n \in Name
    BY <1>0, <1>1, RegisterRecords
  <2>2. k \in Key
    BY <2>1 DEF Key
  <2> QED
    BY <2>2, <1>0, <1>1, RegisterRecords
<1>5. UNCHANGED <<state, job, making, boot, quitting, asked, ended, broken, late>>
  BY DEF RegisterSelf
<1>6. /\ tokenmap' = [q \in Key |-> IF q = k THEN {} ELSE tokenmap[q]]
      /\ anonymous_services' = anonymous_services \ {s}
  BY <1>4 DEF Register
<1>7. /\ \A q \in Key : tokenmap'[q] \subseteq tokenmap[q]
      /\ \A q \in Key : q # k => tokenmap'[q] = tokenmap[q]
      /\ \A m \in Name : /\ <<"unique", m>> \in Key
                         /\ tokenmap'[<<"unique", m>>] = tokenmap[<<"unique", m>>]
  BY <1>6 DEF Key
<1>8. NamesGrow
  BY <1>4 DEF Lists, NamesGrow
<1>9. req[r] # Nothing /\ req[r].op = "register"
  BY <1>1, <1>3 DEF BaseInv, TokenInv, TakesMail, RegisterSelf
<1>10. \A x \in W \cap Calls : req[x] # Nothing /\ req[x].op = "query" /\ req[x].name = n
  BY <1>1, <1>4 DEF BaseInv, TokenInv
<1> HIDE DEF k
<1>11. MailInv'
  BY <1>3, <1>5, <1>7, TakenMailInv DEF RootInv
<1>12. TokenInv'
  BY <1>3, <1>4, <1>5, <1>7, TakenFewer, TokenStays DEF RootInv
<1>13. NameInv'
  <2>1. \A m : Registered(m) => Registered(m)'
    BY <1>4 DEF Lists
  <2> QED
    BY <2>1, <1>4, <1>5, <1>7 DEF RootInv, NameInv, Lists, Live
<1>14. AnswerInv'
  <2> SUFFICES ASSUME NEW x \in Calls, req'[x] # Nothing,
                      req'[x].op \in {"unique", "query"}
               PROVE  \/ req'[x].answer \in {Nothing, Error}
                      \/ /\ Registered(req[x].name)'
                         /\ req'[x].answer = Lookup(req[x].name)'
    BY DEF AnswerInv
  <2>1. /\ req[x] # Nothing /\ req'[x].op = req[x].op /\ req'[x].name = req[x].name
    BY <1>4 DEF CallKept
  <2>2. CASE x \in W
    BY <2>1, <2>2, <1>4, <1>10 DEF Lists
  <2>3. CASE x \notin W
    <3>1. req'[x] = req[x]
      BY <2>1, <2>3, <1>4, <1>9
    <3> QED
      BY <2>1, <3>1, <1>8 DEF RootInv, AnswerInv, NamesGrow
  <2> QED
    BY <2>2, <2>3
<1>15. WaitInv'
  BY <1>5, <1>7, WaitStays DEF RootInv, OwedInv
<1>16. NoCallForgotten'
  <2> SUFFICES ASSUME NEW x \in Calls, req'[x] # Nothing, req'[x].answer = Nothing
               PROVE  Owed(x)'
    BY DEF NoCallForgotten
  <2>1. x # r /\ x \notin W
    BY <1>4 DEF RegistryAssumption
  <2>2. req'[x] = req[x]
    BY <2>1, <1>4
  <2> DEFINE m == req[x].name
  <2>3. Owed(x)
    BY <2>2 DEF RootInv, OwedInv, NoCallForgotten
  <2>4. CASE Contains(inbox, <<"call", x>>)
    <3>1. <<"call", x>> # <<"call", r>>
      BY <2>1
    <3>2. inbox \in Seq(Letter) /\ inbox' \in Seq(Letter)
      BY <1>1, <1>2 DEF RootTypeOK
    <3>3. <<"call", x>> \in Mail(inbox)'
      BY <3>1, <3>2, <2>4, <1>3, ContainsMail, TakenStays
    <3>4. Contains(inbox', <<"call", x>>)
      BY <3>2, <3>3, ContainsMail
    <3> QED
      BY <3>4 DEF Owed
  <2>5. CASE req[x].op = "spawn" /\ InMaking(<<"spawn", x>>)
    BY <2>2, <2>5, <1>5 DEF Owed, InMaking
  <2>6. CASE /\ req[x].op = "query" /\ ~Registered(m)
             /\ x \in tokenmap[<<"query", m>>]
    <3>1. m \in Name /\ m # n
      BY <2>1, <2>2, <2>6, <1>1, CallTyped DEF BaseInv, k
    <3>2. <<"query", m>> \in Key /\ <<"query", m>> # k
      BY <3>1 DEF Key, k
    <3>3. ~Registered(m)'
      BY <2>2, <2>6, <3>1, <1>4 DEF Lists
    <3> QED
      BY <2>2, <2>6, <3>2, <3>3, <1>7 DEF Owed
  <2>7. CASE /\ req[x].op = "unique" /\ x \in tokenmap[<<"unique", m>>]
             /\ InMaking(<<"unique", m>>) \/ m \in broken
    <3>1. m \in Name
      BY <2>2, <2>7, <1>1, CallTyped DEF BaseInv
    <3> QED
      BY <2>2, <2>7, <3>1, <1>5, <1>7 DEF Owed, InMaking
  <2> QED
    BY <2>3, <2>4, <2>5, <2>6, <2>7 DEF Owed
<1>17. EndInv'
  <2>1. HasName(s)'
    BY <1>4 DEF Lists
  <2>2. \A a \in Address :
          Live(a)' /\ a \in anonymous_services => a \in anonymous_services' \/ HasName(a)'
    <3> SUFFICES ASSUME NEW a \in Address, a \in anonymous_services
                 PROVE  a \in anonymous_services' \/ HasName(a)'
      OBVIOUS
    <3>1. CASE a = s
      BY <2>1, <3>1
    <3>2. CASE a # s
      BY <3>2, <1>6
    <3> QED
      BY <3>1, <3>2
  <2> QED
    BY <2>2, <1>5, <1>8, EndStays DEF RootInv, Live, Quits
<1> QED
  BY <1>2, <1>11, <1>12, <1>13, <1>14, <1>15, <1>16, <1>17 DEF RootInv, OwedInv

(* and for one that is *)
LEMMA StepRegisterKnown ==
  ASSUME RegistryAssumption, RootInv, NEW r \in Calls, RegisterSelf(r),
         Registered(req[r].name)
  PROVE  RootInv'
<1>1. BaseInv /\ RootTypeOK
  BY RootBase
<1>2. RecordInv' /\ RootTypeOK'
  BY <1>1, RecordRegister DEF RecordInv
<1>3. TakesMail(<<"call", r>>)
  BY <1>1, TookMail DEF BaseInv, RegisterSelf
<1>4. req[r] # Nothing
  BY <1>1, <1>3 DEF BaseInv, TokenInv, TakesMail
<1>5. /\ Answer({r}, Error)
      /\ UNCHANGED <<anonymous_services, named_services, tokenmap, state, job, making,
                     boot, quitting, asked, ended, broken, late>>
  BY DEF RegisterSelf
<1>6. Answered({r}, Error)
  BY <1>1, <1>4, <1>5, AnswerRecords DEF BaseInv
<1>7. NamesGrow
  BY <1>5, NamesStay
<1>8. MailInv'
  BY <1>3, <1>5, TakenMailInv DEF RootInv
<1>9. TokenInv'
  BY <1>3, <1>5, <1>6, TakenFewer, TokenStays DEF RootInv, Answered
<1>10. NameInv'
  BY <1>5, NameStays DEF RootInv, Live
<1>11. AnswerInv'
  <2>1. \A x \in Calls : req'[x] # Nothing =>
          req'[x].answer \in {Nothing, Error} \/ req'[x] = req[x]
    BY <1>6 DEF Answered
  <2> QED
    BY <2>1, <1>6, <1>7, AnswerStays DEF RootInv, Answered
<1>12. WaitInv'
  BY <1>5, WaitStays DEF RootInv, OwedInv
<1>13. NoCallForgotten'
  <2> SUFFICES ASSUME NEW x \in Calls, req'[x] # Nothing, req'[x].answer = Nothing
               PROVE  Owed(x)'
    BY DEF NoCallForgotten
  <2>1. x # r
    BY <1>6 DEF RegistryAssumption, Answered
  <2>2. <<"call", x>> # <<"call", r>>
    BY <2>1
  <2>3. StillOwed(x)
    BY <2>1, <2>2, <1>3, <1>6, TakenStays DEF StillOwed, Answered
  <2> QED
    BY <2>3, <1>1, <1>2, <1>5, OwedStays, CallTyped DEF RootInv, OwedInv, BaseInv
<1>14. EndInv'
  BY <1>5, EndSame DEF RootInv
<1> QED
  BY <1>2, <1>8, <1>9, <1>10, <1>11, <1>12, <1>13, <1>14 DEF RootInv, OwedInv

(* A call stays owed when what it waits for stays, or was given up. *)
LEMMA OwedMoves ==
  ASSUME NoCallForgotten, RootTypeOK, RootTypeOK', NEW r \in Calls, StillOwed(r),
         InMaking(<<"spawn", r>>) => InMaking(<<"spawn", r>>)',
         \A n : req[r].op = "query" /\ req[r].name = n /\ ~Registered(n)
                /\ r \in tokenmap[<<"query", n>>]
                => ~Registered(n)' /\ r \in tokenmap'[<<"query", n>>],
         \A n : req[r].op = "unique" /\ req[r].name = n
                /\ r \in tokenmap[<<"unique", n>>]
                /\ (InMaking(<<"unique", n>>) \/ n \in broken)
                => /\ r \in tokenmap'[<<"unique", n>>]
                   /\ InMaking(<<"unique", n>>)' \/ n \in broken'
  PROVE  req'[r] # Nothing /\ req'[r].answer = Nothing => Owed(r)'
<1> SUFFICES ASSUME req'[r] # Nothing, req'[r].answer = Nothing PROVE Owed(r)'
  OBVIOUS
<1>0. PICK n : n = req[r].name
  OBVIOUS
<1>1. Owed(r) /\ req'[r].op = req[r].op /\ req'[r].name = n
  BY <1>0 DEF NoCallForgotten, StillOwed
<1>2. CASE Contains(inbox, <<"call", r>>)
  <2>1. inbox \in Seq(Letter) /\ inbox' \in Seq(Letter)
    BY DEF RootTypeOK
  <2>2. <<"call", r>> \in Mail(inbox)
    BY <1>2, <2>1, ContainsMail
  <2>3. <<"call", r>> \in Mail(inbox)'
    BY <2>2 DEF StillOwed
  <2>4. Contains(inbox', <<"call", r>>)
    BY <2>1, <2>3, ContainsMail
  <2> QED
    BY <2>4 DEF Owed
<1>3. CASE req[r].op = "spawn" /\ InMaking(<<"spawn", r>>)
  BY <1>1, <1>3 DEF Owed
<1>4. CASE req[r].op = "query" /\ ~Registered(n) /\ r \in tokenmap[<<"query", n>>]
  <2>1. ~Registered(n)' /\ r \in tokenmap'[<<"query", n>>]
    BY <1>0, <1>4
  <2>2. ~Registered(req[r].name)'
    BY <1>0, <1>1, <2>1 DEF Registered
  <2> QED
    BY <1>0, <1>1, <1>4, <2>1, <2>2 DEF Owed
<1>5. CASE /\ req[r].op = "unique" /\ r \in tokenmap[<<"unique", n>>]
           /\ InMaking(<<"unique", n>>) \/ n \in broken
  <2>1. /\ r \in tokenmap'[<<"unique", n>>]
        /\ InMaking(<<"unique", n>>)' \/ n \in broken'
    BY <1>0, <1>5
  <2> QED
    BY <1>1, <1>5, <2>1 DEF Owed, InMaking
<1> QED
  BY <1>0, <1>1, <1>2, <1>3, <1>4, <1>5 DEF Owed

(* What an answer to init leaves alone: the address is made no more. *)
LEMMA InitedStays ==
  ASSUME RegistryAssumption, BaseInv, NEW a \in Address, NEW ok \in BOOLEAN,
         TakesMail(<<"inited", a, ok>>), Made(a),
         \A b \in Address : state'[b] \in {"none", "init"} => state'[b] = state[b]
  PROVE  /\ InitInv' /\ AskInv' /\ NoRivals(inbox)'
         /\ FewerOf("call")
         /\ \A r : <<"call", r>> \in Mail(inbox) => <<"call", r>> \in Mail(inbox)'
         /\ \A j : InMaking(j) /\ j # job[a] => InMaking(j)'
<1>1. /\ a \in making /\ state[a] \notin {"none", "init"} /\ NoRivals(inbox)'
      /\ \A o \in BOOLEAN : <<"inited", a, o>> \notin Mail(inbox)'
  BY InitedMakes
<1>2. /\ making' = making \ {a}
      /\ UNCHANGED <<job, quitting, asked, ended, late>>
  BY DEF Made
<1>3. FewerOf("call") /\ FewerOf("inited") /\ FewerOf("quitted")
  BY TakenFewer
<1>4. AskInv'
  BY <1>2, <1>3, AskStays DEF BaseInv, MailInv
<1>5. InitInv'
  <2>1. \A b, o : <<"inited", b, o>>[1] = "inited"
    OBVIOUS
  <2>2. InitInv
    BY DEF BaseInv, MailInv
  <2> QED
    BY <1>1, <1>2, <1>3, <2>1, <2>2 DEF InitInv, FewerOf
<1>6. \A r : <<"call", r>> # <<"inited", a, ok>>
  OBVIOUS
<1> QED
  BY <1>1, <1>2, <1>3, <1>4, <1>5, <1>6 DEF TakesMail, InMaking

(* The service of a name is there, and another one has taken the name: calls
   for it wait on. *)
LEMMA StepMadeUniqueKnown ==
  ASSUME RegistryAssumption, RootInv, NEW a \in Address, MadeUnique(a),
         Registered(job[a][2])
  PROVE  RootInv'
<1>0. PICK n : n = job[a][2]
  OBVIOUS
<1>1. BaseInv /\ RootTypeOK /\ a \in Service
  BY RootBase DEF Service
<1>2. RecordInv' /\ RootTypeOK'
  BY <1>1, RecordMadeUnique DEF RecordInv
<1>3. /\ Resume({}, a) /\ broken' = broken \cup {n}
      /\ UNCHANGED <<state, anonymous_services, named_services, tokenmap, job, quitting,
                     asked, ended, late>>
      /\ making' = making \ {a} /\ Made(a)
  BY <1>0 DEF MadeUnique, Made
<1>4. TakesMail(<<"inited", a, TRUE>>)
  BY <1>1, <1>3, ResumedMail DEF MadeUnique, BaseInv
<1>5. job[a] = <<"unique", n>> /\ n \in Name /\ a \in making /\ NoRivals(inbox)'
  BY <1>0, <1>1, <1>4, InitedMakes DEF MadeUnique
<1>6. /\ \A x \in Calls : CallKept(x) /\ req'[x] = req[x]
      /\ boot' = boot
  <2>1. Answered({}, a)
    BY <1>1, <1>3, ResumeTypes DEF BaseInv
  <2> QED
    BY <2>1, <1>3 DEF Answered, Resume
<1>7. /\ InitInv' /\ AskInv' /\ FewerOf("call")
      /\ \A r : <<"call", r>> \in Mail(inbox) => <<"call", r>> \in Mail(inbox)'
      /\ \A j : InMaking(j) /\ j # <<"unique", n>> => InMaking(j)'
  BY <1>1, <1>3, <1>4, <1>5, InitedStays
<1>8. MailInv'
  <2>1. BootInv'
    BY <1>3, <1>6 DEF RootInv, MailInv, BootInv
  <2> QED
    BY <2>1, <1>5, <1>7 DEF MailInv
<1>9. TokenInv'
  BY <1>3, <1>6, <1>7, TokenStays DEF RootInv
<1>10. NamesGrow /\ \A x : Registered(x)' <=> Registered(x)
  BY <1>3, NamesStay
<1>11. NameInv'
  <2>1. \A m \in Name : job[a] = <<"unique", m>> => Registered(m)
    BY <1>0
  <2> QED
    BY <2>1, <1>3, <1>10 DEF RootInv, NameInv, ListedOnce, Live
<1>12. AnswerInv'
  BY <1>6, <1>10, AnswerStays DEF RootInv
<1>13. WaitInv'
  BY <1>3, <1>5, <1>7 DEF RootInv, OwedInv, WaitInv
<1>14. NoCallForgotten'
  <2> SUFFICES ASSUME NEW x \in Calls
               PROVE  req'[x] # Nothing /\ req'[x].answer = Nothing => Owed(x)'
    BY DEF NoCallForgotten
  <2>1. StillOwed(x)
    BY <1>6, <1>7 DEF StillOwed
  <2>2. InMaking(<<"spawn", x>>) => InMaking(<<"spawn", x>>)'
    BY <1>7
  <2>3. \A m : InMaking(<<"unique", m>>) \/ m \in broken
                 => InMaking(<<"unique", m>>)' \/ m \in broken'
    BY <1>3, <1>7
  <2> QED
    BY <2>1, <2>2, <2>3, <1>1, <1>2, <1>3, <1>10, OwedMoves DEF RootInv, OwedInv
<1>15. EndInv'
  BY <1>3, EndSame DEF RootInv
<1> QED
  BY <1>2, <1>8, <1>9, <1>11, <1>12, <1>13, <1>14, <1>15 DEF RootInv, OwedInv

(* The service of a name is there and takes the name, and all who wait for the
   name are answered. *)
LEMMA StepMadeUniqueNew ==
  ASSUME RegistryAssumption, RootInv, NEW a \in Address, MadeUnique(a),
         ~Registered(job[a][2])
  PROVE  RootInv'
<1>0. PICK n : n = job[a][2]
  OBVIOUS
<1> DEFINE q == <<"query", n>>
           u == <<"unique", n>>
           K == {q, u}
<1>1. BaseInv /\ RootTypeOK /\ a \in Service
  BY RootBase DEF Service
<1>2. RecordInv' /\ RootTypeOK'
  BY <1>1, RecordMadeUnique DEF RecordInv
<1>3. PICK W : W = UNION {tokenmap[k] : k \in K}
  OBVIOUS
<1>4. /\ Resume(W, a) /\ Register(a, n, K) /\ Made(a)
      /\ making' = making \ {a}
      /\ UNCHANGED <<state, job, quitting, asked, ended, late, broken>>
  BY <1>0, <1>3 DEF MadeUnique, Made
<1>5. TakesMail(<<"inited", a, TRUE>>)
  BY <1>1, <1>4, ResumedMail DEF MadeUnique, BaseInv
<1>6. job[a] = u /\ n \in Name /\ a \in making /\ NoRivals(inbox)'
  BY <1>0, <1>1, <1>5, InitedMakes DEF MadeUnique
<1>7. q \in Key /\ u \in Key /\ \A k \in Key : k[2] = n => k \in K
  BY <1>6 DEF Key
<1>8. Lists(a, n) /\ NamesGrow
  BY <1>0, <1>1, <1>4, <1>6, RegisterLists DEF BaseInv, Lists, NamesGrow
<1>9. /\ \A k \in Key : tokenmap'[k] \subseteq tokenmap[k]
      /\ \A k \in Key : k \notin K => tokenmap'[k] = tokenmap[k]
      /\ \A k \in K : tokenmap'[k] = {}
      /\ anonymous_services' = anonymous_services \ {a}
  BY <1>4, <1>7 DEF Register
<1>10. /\ \A k \in K : \A x \in tokenmap[k] : x \in W
       /\ \A x \in W : \E k \in K : x \in tokenmap[k]
  BY <1>3
<1>11. \A x \in W \cap Calls : req[x] # Nothing /\ req[x].name = n
  BY <1>1, <1>7, <1>10 DEF BaseInv, TokenInv
<1>12. Answered(W, a)
  BY <1>1, <1>4, <1>11, ResumeTypes DEF BaseInv
<1>13. a # Error /\ a # Nothing
  BY DEF RegistryAssumption
<1>14. boot' = IF Boot \notin W THEN boot
               ELSE IF boot = "logger" THEN "bootstrap" ELSE "quit"
  BY <1>4, <1>13 DEF Resume
<1>15. /\ InitInv' /\ AskInv' /\ FewerOf("call")
       /\ \A r : <<"call", r>> \in Mail(inbox) => <<"call", r>> \in Mail(inbox)'
       /\ \A j : InMaking(j) /\ j # u => InMaking(j)'
  BY <1>1, <1>4, <1>5, <1>6, InitedStays
<1>16. \A m \in Name : m # n => /\ <<"unique", m>> \in Key /\ <<"unique", m>> \notin K
                               /\ <<"query", m>> \in Key /\ <<"query", m>> \notin K
  BY DEF Key
<1>17. \A m : <<"unique", m>> = u => m = n
  OBVIOUS
<1> HIDE DEF q, u, K
<1>18. MailInv'
  <2>1. BootInv /\ making' \subseteq making
    BY <1>4 DEF RootInv, MailInv
  <2>2. Boot \in W => boot = "logger" /\ \A k \in Key : Boot \in tokenmap[k] => k \in K
    <3> SUFFICES ASSUME Boot \in W
                 PROVE  boot = "logger" /\ \A k \in Key : Boot \in tokenmap[k] => k \in K
      OBVIOUS
    <3>1. PICK k \in K : Boot \in tokenmap[k]
      BY <1>10
    <3>2. k \in Key
      BY <1>7 DEF K
    <3> QED
      BY <2>1, <3>1, <3>2 DEF BootInv
  <2>3. BootInv'
    <3>1. CASE Boot \in W
      <4>1. boot = "logger" /\ boot' = "bootstrap"
        BY <2>2, <3>1, <1>14
      <4>2. \A k \in Key : Boot \notin tokenmap'[k]
        BY <2>2, <3>1, <1>9
      <4>3. quitting'["boot"].at = "no"
        BY <2>1, <4>1, <1>4 DEF BootInv
      <4>4. \A b \in making' : job'[b] # <<"spawn", Boot>>
        BY <2>1, <4>1, <1>4 DEF BootInv
      <4> QED
        BY <4>1, <4>2, <4>3, <4>4 DEF BootInv
    <3>2. CASE Boot \notin W
      BY <2>1, <3>2, <1>4, <1>9, <1>14 DEF BootInv
    <3> QED
      BY <3>1, <3>2
  <2> QED
    BY <2>3, <1>6, <1>15 DEF MailInv
<1>19. TokenInv'
  BY <1>4, <1>9, <1>12, <1>15, TokenStays DEF RootInv, Answered
<1>20. \A m \in Name, b \in making : job[b] = <<"unique", m>> /\ m = n => b = a
  BY <1>6 DEF RootInv, NameInv, u
<1>21. NameInv'
  <2>1. ListedOnce' /\ \A m : Registered(m) => Registered(m)'
    BY <1>8 DEF Lists
  <2>2. Registered(n)'
    BY <1>8 DEF Lists
  <2>3. \A m \in Name, b \in making' :
          job'[b] = <<"unique", m>> => tokenmap'[<<"unique", m>>] # {}
    <3> SUFFICES ASSUME NEW m \in Name, NEW b \in making', job'[b] = <<"unique", m>>
                 PROVE  tokenmap'[<<"unique", m>>] # {}
      OBVIOUS
    <3>1. b \in making /\ b # a /\ job[b] = <<"unique", m>>
      BY <1>4
    <3>2. m # n
      BY <3>1, <1>20
    <3>3. tokenmap'[<<"unique", m>>] = tokenmap[<<"unique", m>>]
      BY <3>2, <1>9, <1>16
    <3> QED
      BY <3>1, <3>3 DEF RootInv, NameInv
  <2>4. \A m \in Name, b \in Address \ making' :
          job'[b] = <<"unique", m>> /\ Live(b)' => Registered(m)'
    <3> SUFFICES ASSUME NEW m \in Name, NEW b \in Address \ making',
                        job[b] = <<"unique", m>>, Live(b)
                 PROVE  Registered(m)'
      BY <1>4 DEF Live
    <3>1. CASE b = a
      BY <3>1, <2>2, <1>6, <1>17
    <3>2. CASE b # a
      <4>1. b \in Address \ making
        BY <3>2, <1>4
      <4> QED
        BY <4>1, <2>1 DEF RootInv, NameInv
    <3> QED
      BY <3>1, <3>2
  <2> QED
    BY <2>1, <2>3, <2>4, <1>4 DEF RootInv, NameInv, Live
<1>22. AnswerInv'
  <2> SUFFICES ASSUME NEW x \in Calls, req'[x] # Nothing,
                      req'[x].op \in {"unique", "query"}
               PROVE  \/ req'[x].answer \in {Nothing, Error}
                      \/ /\ Registered(req[x].name)'
                         /\ req'[x].answer = Lookup(req[x].name)'
    BY DEF AnswerInv
  <2>1. req[x] # Nothing /\ req'[x].op = req[x].op /\ req'[x].name = req[x].name
    BY <1>12 DEF Answered, CallKept
  <2>2. CASE x \in W
    BY <2>1, <2>2, <1>8, <1>11, <1>12 DEF Lists, Answered
  <2>3. CASE x \notin W
    <3>1. req'[x] = req[x]
      BY <2>3, <1>12 DEF Answered
    <3> QED
      BY <2>1, <3>1, <1>8 DEF RootInv, AnswerInv, NamesGrow
  <2> QED
    BY <2>2, <2>3
<1>23. WaitInv'
  <2> SUFFICES ASSUME NEW m \in Name, tokenmap'[<<"unique", m>>] # {}
               PROVE  InMaking(<<"unique", m>>)' \/ m \in broken'
    BY DEF WaitInv
  <2>1. m # n
    BY <1>9 DEF K, u
  <2>2. tokenmap[<<"unique", m>>] # {}
    BY <2>1, <1>9, <1>16
  <2>3. <<"unique", m>> # u
    BY <2>1, <1>17
  <2> QED
    BY <2>2, <2>3, <1>4, <1>15 DEF RootInv, OwedInv, WaitInv
<1>24. NoCallForgotten'
  <2> SUFFICES ASSUME NEW x \in Calls, req'[x] # Nothing, req'[x].answer = Nothing
               PROVE  Owed(x)'
    BY DEF NoCallForgotten
  <2>1. x \notin W
    BY <1>12, <1>13 DEF Answered
  <2>2. StillOwed(x) /\ req[x] # Nothing /\ req'[x] = req[x]
    BY <2>1, <1>12, <1>15 DEF StillOwed, Answered
  <2>3. InMaking(<<"spawn", x>>) => InMaking(<<"spawn", x>>)'
    BY <1>15 DEF u
  <2>4. ASSUME NEW m, req[x].op = "query", req[x].name = m, ~Registered(m),
               x \in tokenmap[<<"query", m>>]
        PROVE  ~Registered(m)' /\ x \in tokenmap'[<<"query", m>>]
    <3>1. m \in Name
      BY <2>2, <2>4, <1>1, CallTyped DEF BaseInv
    <3>2. m # n
      BY <2>1, <2>4, <1>10 DEF K, q
    <3> QED
      BY <3>1, <3>2, <2>4, <1>8, <1>9, <1>16 DEF Lists
  <2>5. ASSUME NEW m, req[x].op = "unique", req[x].name = m,
               x \in tokenmap[<<"unique", m>>],
               InMaking(<<"unique", m>>) \/ m \in broken
        PROVE  /\ x \in tokenmap'[<<"unique", m>>]
               /\ InMaking(<<"unique", m>>)' \/ m \in broken'
    <3>1. m \in Name
      BY <2>2, <2>5, <1>1, CallTyped DEF BaseInv
    <3>2. m # n
      BY <2>1, <2>5, <1>10 DEF K, u
    <3>3. <<"unique", m>> # u
      BY <3>2, <1>17
    <3>4. x \in tokenmap'[<<"unique", m>>]
      BY <3>1, <3>2, <2>5, <1>9, <1>16
    <3> QED
      BY <3>3, <3>4, <2>5, <1>4, <1>15
  <2> QED
    BY <2>2, <2>3, <2>4, <2>5, <1>1, <1>2, OwedMoves DEF RootInv, OwedInv
<1>25. EndInv'
  <2>1. HasName(a)'
    BY <1>8 DEF Lists
  <2>2. \A b \in Address :
          Live(b)' /\ b \in anonymous_services => b \in anonymous_services' \/ HasName(b)'
    <3> SUFFICES ASSUME NEW b \in Address, b \in anonymous_services
                 PROVE  b \in anonymous_services' \/ HasName(b)'
      OBVIOUS
    <3>1. CASE b = a
      BY <2>1, <3>1
    <3>2. CASE b # a
      BY <3>2, <1>9
    <3> QED
      BY <3>1, <3>2
  <2> QED
    BY <2>2, <1>4, <1>8, EndStays DEF RootInv, Live, Quits
<1> QED
  BY <1>2, <1>18, <1>19, <1>21, <1>22, <1>23, <1>24, <1>25 DEF RootInv, OwedInv

(* The service of a spawn is there, and who asked for it is answered. *)
LEMMA StepMadeSpawned ==
  ASSUME RegistryAssumption, RootInv, NEW a \in Address, MadeSpawned(a)
  PROVE  RootInv'
<1>0. PICK c : c = job[a][2]
  OBVIOUS
<1> DEFINE j == <<"spawn", c>>
<1>1. BaseInv /\ RootTypeOK
  BY RootBase
<1>2. RecordInv' /\ RootTypeOK' /\ Answered({c}, a)
  BY <1>0, <1>1, RecordMadeSpawned DEF RecordInv
<1>3. /\ Resume({c}, a) /\ Made(a) /\ making' = making \ {a}
      /\ UNCHANGED <<state, job, quitting, asked, ended, late, anonymous_services,
                     named_services, tokenmap, broken>>
  BY <1>0 DEF MadeSpawned, Made
<1>4. TakesMail(<<"inited", a, TRUE>>)
  BY <1>1, <1>3, ResumedMail DEF MadeSpawned, BaseInv
<1>5. job[a] = j /\ a \in making /\ NoRivals(inbox)'
  BY <1>0, <1>1, <1>4, InitedMakes DEF MadeSpawned
<1>6. /\ InitInv' /\ AskInv' /\ FewerOf("call")
      /\ \A r : <<"call", r>> \in Mail(inbox) => <<"call", r>> \in Mail(inbox)'
      /\ \A i : InMaking(i) /\ i # j => InMaking(i)'
  BY <1>1, <1>3, <1>4, <1>5, InitedStays
<1>7. /\ \A n : <<"unique", n>> # j
      /\ \A x : <<"spawn", x>> = j <=> x = c
  OBVIOUS
<1>8. a # Error /\ a # Nothing
  BY DEF RegistryAssumption
<1>9. boot' = IF c # Boot THEN boot
              ELSE IF boot = "logger" THEN "bootstrap" ELSE "quit"
  BY <1>3, <1>8 DEF Resume
<1>10. \A x \in Calls : x = c => req[x] # Nothing /\ req[x].op = "spawn"
  BY <1>5 DEF RootInv, TokenInv
<1> HIDE DEF j
<1>11. NamesGrow /\ \A x : Registered(x)' <=> Registered(x)
  BY <1>3, NamesStay
<1>12. MailInv'
  <2>1. BootInv
    BY DEF RootInv, MailInv
  <2>2. BootInv'
    <3>1. CASE c = Boot
      <4>1. j = <<"spawn", Boot>>
        BY <3>1 DEF j
      <4>2. boot = "spawning" /\ \A b \in making : job[b] = j => b = a
        BY <2>1, <4>1, <1>5 DEF BootInv
      <4> QED
        BY <2>1, <4>1, <4>2, <1>3 DEF BootInv
    <3>2. CASE c # Boot
      BY <2>1, <3>2, <1>3, <1>9 DEF BootInv
    <3> QED
      BY <3>1, <3>2
  <2> QED
    BY <2>2, <1>5, <1>6 DEF MailInv
<1>13. TokenInv'
  BY <1>2, <1>3, <1>6, TokenStays DEF RootInv, Answered
<1>14. NameInv'
  <2>1. \A n \in Name : job[a] # <<"unique", n>>
    BY <1>5, <1>7
  <2> QED
    BY <2>1, <1>3, <1>11 DEF RootInv, NameInv, ListedOnce, Live
<1>15. AnswerInv'
  <2> SUFFICES ASSUME NEW x \in Calls, req'[x] # Nothing
               PROVE  \/ req'[x].answer \in {Nothing, Error}
                      \/ req[x] # Nothing /\ req'[x].answer = req[x].answer
                      \/ req'[x].op \notin {"unique", "query"}
    BY <1>2, <1>11, AnswerStays DEF RootInv, Answered
  <2>1. CASE x = c
    BY <2>1, <1>2, <1>10 DEF Answered, CallKept
  <2>2. CASE x # c
    BY <2>2, <1>2 DEF Answered
  <2> QED
    BY <2>1, <2>2
<1>16. WaitInv'
  BY <1>3, <1>6, <1>7 DEF RootInv, OwedInv, WaitInv
<1>17. NoCallForgotten'
  <2> SUFFICES ASSUME NEW x \in Calls, req'[x] # Nothing, req'[x].answer = Nothing
               PROVE  Owed(x)'
    BY DEF NoCallForgotten
  <2>1. x # c
    BY <1>2, <1>8 DEF Answered
  <2>2. StillOwed(x)
    BY <2>1, <1>2, <1>6 DEF StillOwed, Answered
  <2>3. InMaking(<<"spawn", x>>) => InMaking(<<"spawn", x>>)'
    BY <2>1, <1>6, <1>7
  <2>4. \A m : InMaking(<<"unique", m>>) => InMaking(<<"unique", m>>)'
    BY <1>6, <1>7
  <2> QED
    BY <2>2, <2>3, <2>4, <1>1, <1>2, <1>3, <1>11, OwedMoves DEF RootInv, OwedInv
<1>18. EndInv'
  BY <1>3, EndSame DEF RootInv
<1> QED
  BY <1>2, <1>12, <1>13, <1>14, <1>15, <1>16, <1>17, <1>18 DEF RootInv, OwedInv

(* A service is not made, and who waits for it is told. *)
LEMMA StepNotMade ==
  ASSUME RegistryAssumption, RootInv, NEW a \in Address, NotMade(a)
  PROVE  RootInv'
<1>0. PICK W : W = ToldOf(a)
  OBVIOUS
<1>1. BaseInv /\ RootTypeOK
  BY RootBase
<1>2. RecordInv' /\ RootTypeOK' /\ Answered(W, Error)
  BY <1>0, <1>1, RecordNotMade DEF RecordInv
<1>3. /\ Resume(W, Error) /\ Made(a) /\ making' = making \ {a}
      /\ UNCHANGED <<job, quitting, asked, ended, late, anonymous_services,
                     named_services, broken>>
      /\ state' = [state EXCEPT ![a] = IF Live(a) THEN "dead" ELSE @]
  BY <1>0 DEF NotMade, Made
<1>4. TakesMail(<<"inited", a, FALSE>>)
  BY <1>1, <1>3, ResumedMail DEF NotMade, BaseInv
<1>5. /\ a \in making /\ NoRivals(inbox)' /\ job[a][1] \in {"unique", "spawn"}
      /\ job[a][1] = "unique" => job[a] = <<"unique", job[a][2]>> /\ job[a][2] \in Name
      /\ job[a][1] = "spawn" => job[a] = <<"spawn", job[a][2]>>
  BY <1>1, <1>4, InitedMakes
<1>6. /\ \A b \in Address : b # a => state'[b] = state[b]
      /\ state'[a] = IF Live(a) THEN "dead" ELSE state[a]
  BY <1>1, <1>3 DEF RootTypeOK, Service
<1>7. (\A b \in Address : Live(b)' => Live(b) /\ b # a) /\ Live(a)' = FALSE
  BY <1>6 DEF Live
<1>8. /\ InitInv' /\ AskInv' /\ FewerOf("call")
      /\ \A r : <<"call", r>> \in Mail(inbox) => <<"call", r>> \in Mail(inbox)'
      /\ \A j : InMaking(j) /\ j # job[a] => InMaking(j)'
  <2>1. \A b \in Address : state'[b] \in {"none", "init"} => state'[b] = state[b]
    BY <1>6
  <2> QED
    BY <2>1, <1>1, <1>3, <1>4, InitedStays
<1>9. boot' = IF Boot \in W THEN "failed" ELSE boot
  BY <1>3 DEF Resume
<1>10. /\ \A k \in Key : tokenmap'[k] \subseteq tokenmap[k]
       /\ \A k \in Key : k # job[a] => tokenmap'[k] = tokenmap[k]
       /\ \A k \in Key : k = job[a] => tokenmap'[k] = {} /\ tokenmap[k] = W
  <2>1. CASE job[a][1] = "unique"
    <3>1. tokenmap' = [tokenmap EXCEPT ![job[a]] = @ \ W] /\ W = tokenmap[job[a]]
      BY <1>0, <2>1 DEF NotMade, ToldOf
    <3> QED
      BY <3>1, <1>1 DEF RootTypeOK
  <2>2. CASE job[a][1] # "unique"
    <3>1. job[a] \notin Key \/ job[a][1] = "query"
      BY <2>2 DEF Key
    <3>2. tokenmap' = tokenmap
      BY <2>2 DEF NotMade
    <3> QED
      BY <3>1, <3>2, <2>2, <1>5
  <2> QED
    BY <2>1, <2>2
<1>11. job[a][1] = "spawn" => W = {job[a][2]}
  BY <1>0 DEF ToldOf
<1>12. NamesGrow /\ \A x : Registered(x)' <=> Registered(x)
  BY <1>3, NamesStay
<1>13. \A n \in Name : /\ <<"unique", n>> \in Key /\ <<"query", n>> \in Key
                       /\ <<"query", n>> # job[a]
  BY <1>5 DEF Key
<1>14. MailInv'
  <2>1. BootInv
    BY DEF RootInv, MailInv
  <2>2. BootInv'
    <3>1. CASE Boot \notin W
      BY <2>1, <3>1, <1>3, <1>9, <1>10 DEF BootInv
    <3>2. CASE Boot \in W /\ job[a][1] = "unique"
      <4>1. job[a] \in Key /\ Boot \in tokenmap[job[a]]
        <5>1. PICK n \in Name : job[a] = <<"unique", n>>
          BY <3>2, <1>5
        <5>2. job[a] \in Key
          BY <5>1, <1>13
        <5> QED
          BY <5>2, <3>2, <1>10
      <4>2. boot = "logger" /\ \A k \in Key : Boot \in tokenmap[k] => k = job[a]
        BY <2>1, <4>1 DEF BootInv
      <4> QED
        BY <2>1, <4>2, <1>3, <1>10 DEF BootInv
    <3>3. CASE Boot \in W /\ job[a][1] = "spawn"
      <4>1. job[a] = <<"spawn", Boot>>
        BY <3>3, <1>5, <1>11
      <4>2. boot = "spawning" /\ \A b \in making : job[b] = <<"spawn", Boot>> => b = a
        BY <2>1, <4>1, <1>5 DEF BootInv
      <4> QED
        BY <2>1, <4>2, <1>3, <1>10 DEF BootInv
    <3> QED
      BY <3>1, <3>2, <3>3, <1>5
  <2> QED
    BY <2>2, <1>5, <1>8 DEF MailInv
<1>15. TokenInv'
  BY <1>2, <1>3, <1>8, <1>10, TokenStays DEF RootInv, Answered
<1>16. NameInv'
  <2>1. ASSUME NEW m \in Name, NEW b \in making', job'[b] = <<"unique", m>>
        PROVE  tokenmap'[<<"unique", m>>] # {}
    <3>1. b \in making /\ b # a /\ job[b] = <<"unique", m>>
      BY <2>1, <1>3
    <3>2. job[a] # <<"unique", m>>
      BY <3>1, <1>5 DEF RootInv, NameInv
    <3> QED
      BY <3>1, <3>2, <1>10, <1>13 DEF RootInv, NameInv
  <2>2. ASSUME NEW m \in Name, NEW b \in Address \ making',
               job'[b] = <<"unique", m>>, Live(b)'
        PROVE  Registered(m)'
    <3>1. b \in Address \ making /\ job[b] = <<"unique", m>> /\ Live(b)
      BY <2>2, <1>3, <1>7
    <3> QED
      BY <3>1, <1>12 DEF RootInv, NameInv
  <2> QED
    BY <2>1, <2>2, <1>3, <1>7 DEF RootInv, NameInv, ListedOnce
<1>17. AnswerInv'
  <2>1. \A x \in Calls : req'[x] # Nothing =>
          req'[x].answer \in {Nothing, Error} \/ req'[x] = req[x]
    BY <1>2 DEF Answered
  <2> QED
    BY <2>1, <1>2, <1>12, AnswerStays DEF RootInv, Answered
<1>18. WaitInv'
  BY <1>3, <1>8, <1>10, <1>13 DEF RootInv, OwedInv, WaitInv
<1>19. NoCallForgotten'
  <2> SUFFICES ASSUME NEW x \in Calls, req'[x] # Nothing, req'[x].answer = Nothing
               PROVE  Owed(x)'
    BY DEF NoCallForgotten
  <2>1. x \notin W
    BY <1>2 DEF Answered, RegistryAssumption
  <2>2. StillOwed(x) /\ req[x] # Nothing /\ req'[x] = req[x]
    BY <2>1, <1>2, <1>8 DEF StillOwed, Answered
  <2>3. InMaking(<<"spawn", x>>) => InMaking(<<"spawn", x>>)'
    <3>1. job[a] # <<"spawn", x>>
      BY <2>1, <1>11
    <3> QED
      BY <3>1, <1>8
  <2>4. ASSUME NEW m, req[x].op = "query", req[x].name = m,
               x \in tokenmap[<<"query", m>>]
        PROVE  x \in tokenmap'[<<"query", m>>]
    <3>1. m \in Name
      BY <2>2, <2>4, <1>1, CallTyped DEF BaseInv
    <3> QED
      BY <3>1, <2>4, <1>10, <1>13
  <2>5. ASSUME NEW m, req[x].op = "unique", req[x].name = m,
               x \in tokenmap[<<"unique", m>>],
               InMaking(<<"unique", m>>) \/ m \in broken
        PROVE  /\ x \in tokenmap'[<<"unique", m>>]
               /\ InMaking(<<"unique", m>>)' \/ m \in broken'
    <3>1. m \in Name
      BY <2>2, <2>5, <1>1, CallTyped DEF BaseInv
    <3>2. job[a] # <<"unique", m>>
      BY <2>1, <2>5, <3>1, <1>10, <1>13
    <3> QED
      BY <3>1, <3>2, <2>5, <1>3, <1>8, <1>10, <1>13
  <2> QED
    BY <2>2, <2>3, <2>4, <2>5, <1>1, <1>2, <1>12, OwedMoves DEF RootInv, OwedInv
<1>20. EndInv'
  BY <1>3, <1>7, <1>12, EndStays DEF RootInv, Quits
<1> QED
  BY <1>2, <1>14, <1>15, <1>16, <1>17, <1>18, <1>19, <1>20 DEF RootInv, OwedInv

(* What a step leaves alone that neither takes nor answers a call, and registers
   and makes nothing *)
LEMMA TablesStay ==
  ASSUME RootInv, RecordInv',
         UNCHANGED <<named_services, tokenmap, job, making, broken, req>>,
         FewerOf("call"),
         \A r : <<"call", r>> \in Mail(inbox) => <<"call", r>> \in Mail(inbox)',
         \A a \in Address : Live(a)' => Live(a)
  PROVE  /\ TokenInv' /\ NameInv' /\ AnswerInv' /\ OwedInv'
         /\ NamesGrow
<1>1. BaseInv /\ RootTypeOK /\ RootTypeOK'
  BY RootBase DEF RecordInv
<1>2. \A r \in Calls : CallKept(r) /\ StillOwed(r)
  BY DEF CallKept, StillOwed
<1>3. NamesGrow /\ \A x : Registered(x)' <=> Registered(x)
  BY NamesStay
<1>4. TokenInv'
  BY <1>2, TokenStays DEF RootInv
<1>5. NameInv'
  BY NameStays DEF RootInv
<1>6. AnswerInv'
  BY <1>2, <1>3, AnswerStays DEF RootInv
<1>7. WaitInv'
  BY WaitStays DEF RootInv, OwedInv
<1>8. NoCallForgotten'
  <2> SUFFICES ASSUME NEW x \in Calls
               PROVE  req'[x] # Nothing /\ req'[x].answer = Nothing => Owed(x)'
    BY DEF NoCallForgotten
  <2>1. \A j : InMaking(j) => InMaking(j)'
    BY DEF InMaking
  <2> QED
    BY <2>1, <1>1, <1>2, <1>3, OwedMoves DEF RootInv, OwedInv
<1> QED
  BY <1>3, <1>4, <1>5, <1>6, <1>7, <1>8 DEF OwedInv

(* A message that is no call leaves the calls in the queue where they are. *)
LEMMA CallsStay ==
  ASSUME NEW m, TakesMail(m) \/ AddsMail(m), m[1] # "call"
  PROVE  /\ FewerOf("call")
         /\ \A r : <<"call", r>> \in Mail(inbox) => <<"call", r>> \in Mail(inbox)'
<1>1. FewerOf("call")
  BY OtherMail
<1>2. \A r : <<"call", r>>[1] = "call"
  OBVIOUS
<1> QED
  BY <1>1, <1>2 DEF TakesMail, AddsMail

(* boot spawns the bootstrap service. *)
LEMMA StepBootSpawn ==
  ASSUME RegistryAssumption, RootInv, BootSpawn
  PROVE  RootInv'
<1> DEFINE j == <<"spawn", Boot>>
<1>1. BaseInv /\ RootTypeOK
  BY RootBase
<1>2. RecordInv' /\ RootTypeOK'
  BY <1>1, RecordBootSpawn DEF RecordInv
<1>3. /\ boot = "bootstrap"
      /\ UNCHANGED <<named_services, tokenmap, quitting, asked, ended, req, broken>>
  BY DEF BootSpawn
<1>4. /\ \A k \in Key : Boot \notin tokenmap[k]
      /\ \A a \in making : job[a] # j
      /\ quitting["boot"].at = "no"
  BY <1>3 DEF RootInv, MailInv, BootInv
<1>5. Boot \notin Calls
  BY DEF RegistryAssumption
<1>6. CASE Free # {}
  <2>1. NewService(j) /\ boot' = "spawning" /\ UNCHANGED inbox
    BY <1>6 DEF BootSpawn
  <2>2. PICK a \in Address : Creates(a, j)
    BY <2>1, <1>1, <1>6, CreateCreates
  <2>3. FewerOf("call") /\ FewerOf("inited") /\ FewerOf("quitted")
    BY <2>1 DEF FewerOf, Mail
  <2>4. NameInv' /\ WaitInv' /\ EndInv' /\ InitInv'
    BY <2>2, <2>3, <1>3, SpawnedStays
  <2>5. /\ making' = making \cup {a} /\ job'[a] = j
        /\ \A b \in making : b # a /\ job'[b] = job[b]
    BY <2>2, <1>1, <1>3, CreatedStays DEF RootTypeOK
  <2>6. NamesGrow
    BY <1>3, NamesStay
  <2>7. \A x : <<"spawn", x>> = j => x = Boot
    OBVIOUS
  <2>8. MailInv'
    <3>1. AskInv'
      BY <1>3, <2>3, AskStays DEF RootInv, MailInv
    <3>2. BootInv'
      <4> HIDE DEF j
      <4>1. \A b \in making' : job'[b] = j => b = a
        BY <2>5, <1>4
      <4> QED
        BY <4>1, <1>3, <1>4, <2>1 DEF BootInv, j
    <3>3. NoRivals(inbox)'
      BY <2>1 DEF NoRivals, RootInv, MailInv
    <3> QED
      BY <2>4, <3>1, <3>2, <3>3 DEF MailInv
  <2> HIDE DEF j
  <2>9. TokenInv'
    <3>1. TokenInv
      BY DEF RootInv
    <3>2. \A b \in making', x \in Calls :
            job'[b] = <<"spawn", x>> => b \in making /\ job[b] = <<"spawn", x>>
      BY <2>5, <2>7, <1>5
    <3> QED
      BY <3>1, <3>2, <2>1, <1>3 DEF TokenInv, Mail
  <2>10. AnswerInv'
    BY <1>3, <2>6, AnswerStays DEF RootInv, CallKept
  <2>11. NoCallForgotten'
    <3> SUFFICES ASSUME NEW x \in Calls
                 PROVE  req'[x] # Nothing /\ req'[x].answer = Nothing => Owed(x)'
      BY DEF NoCallForgotten
    <3>1. StillOwed(x)
      BY <1>3, <2>1 DEF StillOwed, Mail
    <3> QED
      BY <3>1, <1>1, <1>2, <1>3, <2>5, OwedStays, CallTyped
         DEF RootInv, OwedInv, BaseInv
  <2> QED
    BY <1>2, <2>4, <2>8, <2>9, <2>10, <2>11 DEF RootInv, OwedInv
<1>7. CASE Free = {}
  <2>1. /\ UNCHANGED <<state, anonymous_services, job, making, late>>
        /\ boot' = "failed" /\ PostRoot(<<"init_error">>)
    BY <1>7 DEF BootSpawn, NoNewService, PostRoot
  <2>2. AddsMail(<<"init_error">>) /\ <<"init_error">>[1] = "init_error"
    BY <2>1, <1>1, PostedMail DEF BaseInv, Letter
  <2>3. FewerOf("inited") /\ FewerOf("quitted")
    BY <2>2, OtherMail
  <2>4. \A a \in Address : Live(a)' => Live(a)
    BY <2>1 DEF Live
  <2>5. TokenInv' /\ NameInv' /\ AnswerInv' /\ OwedInv'
    BY <1>2, <1>3, <2>1, <2>2, <2>4, CallsStay, TablesStay
  <2>6. MailInv'
    <3>1. AskInv'
      BY <1>3, <2>3, AskStays DEF RootInv, MailInv
    <3>2. InitInv'
      BY <2>1, <2>3, InitStays DEF RootInv, MailInv
    <3>3. BootInv'
      BY <1>3, <1>4, <2>1 DEF BootInv
    <3>4. NoRivals(inbox)'
      <4>1. \A o : ~Rivals(<<"init_error">>, o) /\ ~Rivals(o, <<"init_error">>)
        BY DEF Rivals
      <4> QED
        BY <4>1, <2>2 DEF AddsMail, RootInv, MailInv
    <3> QED
      BY <3>1, <3>2, <3>3, <3>4 DEF MailInv
  <2>7. EndInv'
    BY <1>3, <2>1, EndSame DEF RootInv
  <2> QED
    BY <1>2, <2>5, <2>6, <2>7 DEF RootInv
<1> QED
  BY <1>6, <1>7

(* quit begins when nobody is anonymous: all who live have names. *)
LEMMA QuitBegins ==
  ASSUME RootInv, NEW ok, NEW w \in Quitter, QuitWhen(ok, w),
         ok => anonymous_services' = {},
         UNCHANGED <<named_services, late>>,
         \A a \in Address : Live(a)' => Live(a),
         \A a \in Address : Live(a)' /\ a \in anonymous_services => a \in anonymous_services'
  PROVE  EndInv' /\ (~ok => quitting' = quitting)
         /\ (ok => /\ quitting'[w] = [at |-> "next", i |-> Len(named_services)]
                   /\ \A v \in Quitter \ {w} : quitting'[v] = quitting[v])
<1>1. RootTypeOK /\ EndInv
  BY RootBase DEF RootInv
<1>2. /\ ~ok => quitting' = quitting
      /\ ok => /\ quitting'[w] = [at |-> "next", i |-> Len(named_services)]
               /\ \A v \in Quitter \ {w} : quitting'[v] = quitting[v]
  BY <1>1 DEF QuitWhen, RootTypeOK
<1>3. \A a : HasName(a)' <=> HasName(a)
  BY DEF HasName
<1>4. \A a \in Address : Live(a)' => a \in anonymous_services' \/ HasName(a)'
  BY <1>1, <1>3 DEF EndInv
<1>5. EndsLast'
  <2>1. CASE ok
    BY <1>4, <2>1 DEF EndsLast, HasName
  <2>2. CASE ~ok
    BY <1>1, <1>2, <2>2 DEF EndInv, EndsLast, Quits
  <2> QED
    BY <2>1, <2>2
<1> QED
  BY <1>2, <1>4, <1>5 DEF EndInv

(* boot ends. *)
LEMMA StepBootQuit ==
  ASSUME RegistryAssumption, RootInv, BootQuit
  PROVE  RootInv'
<1>1. BaseInv /\ RootTypeOK
  BY RootBase
<1>2. RecordInv'
  BY <1>1, RecordBootQuit
<1>3. /\ boot = "quit" /\ boot' = "done" /\ QuitWhen(anonymous_services = {}, "boot")
      /\ UNCHANGED <<state, anonymous_services, named_services, tokenmap, job, making,
                     asked, ended, inbox, req, broken, late>>
  BY DEF BootQuit
<1>4. Mail(inbox)' = Mail(inbox) /\ \A a : Live(a)' <=> Live(a)
  BY <1>3 DEF Mail, Live
<1>5. TokenInv' /\ NameInv' /\ AnswerInv' /\ OwedInv'
  BY <1>2, <1>3, <1>4, TablesStay DEF FewerOf
<1>6. /\ EndInv' /\ (anonymous_services # {} => quitting' = quitting)
      /\ anonymous_services = {} =>
           /\ quitting'["boot"] = [at |-> "next", i |-> Len(named_services)]
           /\ \A v \in Quitter \ {"boot"} : quitting'[v] = quitting[v]
  BY <1>3, <1>4, QuitBegins DEF Quitter
<1>7. quitting["boot"].at = "no"
  BY <1>3 DEF RootInv, MailInv, BootInv
<1>8. MailInv'
  <2>1. InitInv'
    BY <1>3, <1>4, InitStays DEF RootInv, MailInv, FewerOf
  <2>2. BootInv'
    BY <1>3 DEF RootInv, MailInv, BootInv
  <2>3. AskInv'
    <3>1. AskInv
      BY DEF RootInv, MailInv
    <3>2. \A v \in Quitter : \/ quitting'[v] = quitting[v]
                             \/ quitting[v].at = "no" /\ quitting'[v].at = "next"
      <4>1. CASE anonymous_services = {}
        <5>1. quitting'["boot"].at = "next"
          BY <4>1, <1>6
        <5> QED
          BY <5>1, <4>1, <1>6, <1>7
      <4>2. CASE anonymous_services # {}
        BY <4>2, <1>6
      <4> QED
        BY <4>1, <4>2
    <3> QED
      BY <3>1, <3>2, <1>3, <1>4 DEF AskInv
  <2> QED
    BY <2>1, <2>2, <2>3, <1>3 DEF MailInv, NoRivals, RootInv
<1> QED
  BY <1>2, <1>5, <1>6, <1>8 DEF RootInv

(* The error of boot ends root. *)
LEMMA StepInitError ==
  ASSUME RegistryAssumption, RootInv, InitError
  PROVE  RootInv'
<1>1. BaseInv
  BY RootBase
<1>2. RecordInv' /\ TakesMail(<<"init_error">>) /\ <<"init_error">>[1] = "init_error"
  BY <1>1, RecordInitError
<1>3. UNCHANGED <<state, anonymous_services, named_services, tokenmap, job, making, boot,
                  quitting, asked, req, broken, late>>
  BY DEF InitError
<1>4. MailInv'
  BY <1>2, <1>3, TakenMailInv DEF RootInv
<1>5. \A a \in Address : Live(a)' => Live(a)
  BY <1>3 DEF Live
<1>6. TokenInv' /\ NameInv' /\ AnswerInv' /\ OwedInv'
  BY <1>2, <1>3, <1>5, CallsStay, TablesStay
<1>7. EndInv'
  BY <1>3, EndSame DEF RootInv
<1> QED
  BY <1>2, <1>4, <1>6, <1>7 DEF RootInv

(* A service is deleted: its answers to "quit" are root's own now, and quit
   begins when it was the last that is anonymous. *)
LEMMA StepDelService ==
  ASSUME RegistryAssumption, RootInv, NEW s \in Service, DelService(s)
  PROVE  RootInv'
<1>1. BaseInv /\ RootTypeOK
  BY RootBase
<1>2. RecordInv' /\ RootTypeOK'
  BY <1>1, RecordDelService DEF RecordInv
<1>3. /\ inbox # <<>> /\ Head(inbox) = <<"signal", s>>
      /\ state' = [state EXCEPT ![s] = "closed"]
      /\ anonymous_services' = anonymous_services \ {s}
      /\ asked' = {x \in asked : x[1] # s}
      /\ UNCHANGED <<named_services, tokenmap, job, making, boot, ended, req, broken,
                     late>>
  BY DEF DelService, Receive
<1>4. PICK ok : /\ ok = (~Quits /\ anonymous_services' = {})
                /\ QuitWhen(ok, "signal")
  BY DEF DelService
<1>5. /\ NoRivals(inbox)'
      /\ Mail(inbox) \ {<<"signal", s>>} \subseteq Mail(inbox)'
      /\ Mail(inbox)' \subseteq Mail(inbox) \cup {<<"quitted", x>> : x \in OwnRequests(s)}
  BY <1>1, <1>3, AnswersMail DEF DelService
<1>6. /\ \A a \in Service : a # s => state'[a] = state[a]
      /\ state'[s] = "closed"
  BY <1>1, <1>3 DEF RootTypeOK
<1>7. \A a \in Address : Live(a)' => Live(a) /\ a # s
  BY <1>6 DEF Live, Service
<1>8. /\ EndInv' /\ (~ok => quitting' = quitting)
      /\ ok => /\ quitting'["signal"] = [at |-> "next", i |-> Len(named_services)]
               /\ \A v \in Quitter \ {"signal"} : quitting'[v] = quitting[v]
  BY <1>3, <1>4, <1>7, QuitBegins DEF Quitter
<1>9. /\ FewerOf("call") /\ FewerOf("inited")
      /\ \A r : <<"call", r>> \in Mail(inbox) => <<"call", r>> \in Mail(inbox)'
  <2>1. /\ \A x : <<"quitted", x>>[1] = "quitted"
        /\ \A r : <<"call", r>> # <<"signal", s>>
    OBVIOUS
  <2> QED
    BY <2>1, <1>5 DEF FewerOf
<1>10. TokenInv' /\ NameInv' /\ AnswerInv' /\ OwedInv'
  BY <1>2, <1>3, <1>7, <1>9, TablesStay
<1>11. InitInv'
  BY <1>3, <1>6, <1>9, InitStays DEF RootInv, MailInv, Service
<1>12. BootInv'
  <2>1. quitting'["boot"].at = quitting["boot"].at
    BY <1>8 DEF Quitter
  <2> QED
    BY <2>1, <1>3, BootStays DEF RootInv, MailInv
<1>13. \A x : x \in OwnRequests(s) <=> x \in asked /\ x[1] = s
  BY DEF OwnRequests
<1>14. AskInv'
  <2>1. AskInv
    BY DEF RootInv, MailInv
  <2>2. \A v \in Quitter :
          \/ quitting'[v] = quitting[v]
          \/ quitting[v].at = "no" /\ quitting'[v].at = "next"
    <3>1. CASE ok
      <4>1. quitting["signal"].at = "no"
        BY <3>1, <1>4 DEF Quits, Quitter
      <4>2. quitting'["signal"].at = "next"
        BY <3>1, <1>8
      <4> QED
        BY <3>1, <4>1, <4>2, <1>8
    <3>2. CASE ~ok
      BY <3>2, <1>8
    <3> QED
      BY <3>1, <3>2
  <2>3. \A o \in Service, w \in Quitter :
          <<"quitted", <<o, w>> >> \in Mail(inbox)' =>
            \/ <<"quitted", <<o, w>> >> \in Mail(inbox)
            \/ <<o, w>> \in asked /\ o = s
    <3>1. \A x, y : <<"quitted", x>> = <<"quitted", y>> => x = y
      OBVIOUS
    <3>2. \A o, w : <<o, w>>[1] = o
      OBVIOUS
    <3> QED
      BY <3>1, <3>2, <1>5, <1>13
  <2>4. \A o \in Service, w \in Quitter :
          <<o, w>> \in asked' => <<o, w>> \in asked /\ o # s
    BY <1>3
  <2>5. \A w \in Quitter : quitting'[w].at = "asking" => quitting'[w].i # 0
    BY <2>1, <2>2 DEF AskInv
  <2>6. ASSUME NEW o \in Service, NEW w \in Quitter, <<o, w>> \in asked'
        PROVE  /\ quitting'[w].at = "asking"
               /\ \A p \in Service : /\ <<p, w>> \in asked' => p = o
                                     /\ <<"quitted", <<p, w>> >> \notin Mail(inbox)'
    <3>1. /\ <<o, w>> \in asked /\ o # s /\ quitting[w].at = "asking"
          /\ \A p \in Service : /\ <<p, w>> \in asked => p = o
                                /\ <<"quitted", <<p, w>> >> \notin Mail(inbox)
      BY <2>1, <2>4, <2>6 DEF AskInv
    <3>2. quitting'[w].at = "asking"
      BY <3>1, <2>2
    <3> QED
      BY <3>1, <3>2, <2>3, <2>4
  <2>7. ASSUME NEW o \in Service, NEW w \in Quitter,
               <<"quitted", <<o, w>> >> \in Mail(inbox)'
        PROVE  quitting'[w].at = "asking"
    <3>1. quitting[w].at = "asking"
      BY <2>1, <2>3, <2>7 DEF AskInv
    <3> QED
      BY <3>1, <2>2
  <2> QED
    BY <2>5, <2>6, <2>7 DEF AskInv
<1> QED
  BY <1>2, <1>5, <1>8, <1>10, <1>11, <1>12, <1>14 DEF RootInv, MailInv

(* The loop of quit asks the next service that lives. *)
LEMMA StepQuitNext ==
  ASSUME RegistryAssumption, RootInv, NEW w \in Quitter, QuitNext(w)
  PROVE  RootInv'
<1> DEFINE i == quitting[w].i
           s == named_services[i][2]
<1>1. BaseInv /\ RootTypeOK
  BY RootBase
<1>2. RecordInv' /\ quitting[w].at = "next"
  BY <1>1, RecordQuitNext DEF QuitNext
<1>3. UNCHANGED <<state, anonymous_services, named_services, tokenmap, job, making, boot,
                  inbox, req, broken, late>>
  BY DEF QuitNext
<1>4. \/ UNCHANGED <<quitting, asked>>
      \/ /\ i # 0 /\ quitting' = [quitting EXCEPT ![w].at = "asking"]
         /\ asked' = asked \cup {<<s, w>>}
      \/ quitting' = [quitting EXCEPT ![w].i = @ - 1] /\ UNCHANGED asked
  BY DEF QuitNext
<1>5. /\ \A v \in Quitter : quitting'[v].at # "no" => quitting[v].at # "no"
      /\ \A v \in Quitter : v # w => quitting'[v] = quitting[v]
  BY <1>1, <1>2, <1>4 DEF RootTypeOK
<1>6. Mail(inbox)' = Mail(inbox) /\ \A a : Live(a)' <=> Live(a)
  BY <1>3 DEF Mail, Live
<1>7. TokenInv' /\ NameInv' /\ AnswerInv' /\ OwedInv' /\ NamesGrow
  BY <1>2, <1>3, <1>6, TablesStay DEF FewerOf
<1>8. EndInv'
  <2>1. Quits' => Quits
    BY <1>5 DEF Quits
  <2> QED
    BY <2>1, <1>3, <1>6, <1>7, EndStays DEF RootInv
<1>9. AskInv'
  <2>1. /\ AskInv
        /\ \A o \in Service : /\ <<o, w>> \notin asked
                              /\ <<"quitted", <<o, w>> >> \notin Mail(inbox)
    BY <1>2 DEF RootInv, MailInv, AskInv
  <2>2. CASE UNCHANGED <<quitting, asked>>
    BY <2>1, <2>2, <1>6 DEF AskInv
  <2>3. CASE /\ i # 0 /\ quitting' = [quitting EXCEPT ![w].at = "asking"]
             /\ asked' = asked \cup {<<s, w>>}
    <3>1. /\ quitting'[w].at = "asking" /\ quitting'[w].i = i
          /\ \A v \in Quitter : v # w => quitting'[v] = quitting[v]
      BY <2>3, <1>1 DEF RootTypeOK
    <3>2. \A o, v : <<o, v>> = <<s, w>> => o = s /\ v = w
      OBVIOUS
    <3> HIDE DEF i, s
    <3>3. \A v \in Quitter : quitting'[v].at = "asking" => quitting'[v].i # 0
      BY <2>1, <2>3, <3>1 DEF AskInv
    <3>4. ASSUME NEW o \in Service, NEW v \in Quitter
          PROVE  /\ <<o, v>> \in asked' =>
                      /\ quitting'[v].at = "asking"
                      /\ \A p \in Service :
                           /\ <<p, v>> \in asked' => p = o
                           /\ <<"quitted", <<p, v>> >> \notin Mail(inbox)'
                 /\ <<"quitted", <<o, v>> >> \in Mail(inbox)' =>
                      quitting'[v].at = "asking"
      <4>1. CASE v = w
        BY <4>1, <2>1, <2>3, <3>1, <3>2, <1>6
      <4>2. CASE v # w
        <5>1. \A p : <<p, v>> \in asked' <=> <<p, v>> \in asked
          BY <4>2, <2>3, <3>2
        <5> QED
          BY <4>2, <5>1, <2>1, <3>1, <1>6 DEF AskInv
      <4> QED
        BY <4>1, <4>2
    <3> QED
      BY <3>3, <3>4 DEF AskInv
  <2>4. CASE quitting' = [quitting EXCEPT ![w].i = @ - 1] /\ UNCHANGED asked
    <3>1. /\ quitting'[w].at = "next"
          /\ \A v \in Quitter : v # w => quitting'[v] = quitting[v]
      BY <2>4, <1>1, <1>2 DEF RootTypeOK
    <3> QED
      BY <2>1, <2>4, <3>1, <1>6 DEF AskInv
  <2> QED
    BY <1>4, <2>2, <2>3, <2>4
<1>10. MailInv'
  <2>1. InitInv'
    BY <1>3, <1>6, InitStays DEF RootInv, MailInv, FewerOf
  <2>2. BootInv'
    BY <1>3, <1>5, BootStays DEF RootInv, MailInv, Quitter
  <2> QED
    BY <2>1, <2>2, <1>3, <1>9 DEF MailInv, NoRivals, RootInv
<1> QED
  BY <1>2, <1>7, <1>8, <1>10 DEF RootInv

(* A service that was asked has answered. *)
LEMMA StepQuitted ==
  ASSUME RegistryAssumption, RootInv, NEW s \in Service, NEW w \in Quitter,
         Quitted(s, w)
  PROVE  RootInv'
<1> DEFINE m == <<"quitted", <<s, w>> >>
<1>1. BaseInv /\ RootTypeOK
  BY RootBase
<1>2. RecordInv' /\ TakesMail(m) /\ quitting[w].at = "asking"
  BY <1>1, RecordQuitted
<1>3. /\ quitting' = [quitting EXCEPT ![w] = [at |-> "next", i |-> @.i - 1]]
      /\ UNCHANGED <<state, anonymous_services, named_services, tokenmap, job, making,
                     boot, asked, ended, req, broken, late>>
  BY DEF Quitted
<1>4. /\ quitting'[w].at = "next"
      /\ \A v \in Quitter : v # w => quitting'[v] = quitting[v]
  BY <1>1, <1>3 DEF RootTypeOK
<1>5. \A a \in Address : Live(a)' <=> Live(a)
  BY <1>3 DEF Live
<1>6. m[1] = "quitted" /\ m[2][2] = w
  OBVIOUS
<1> HIDE DEF m
<1>7. TokenInv' /\ NameInv' /\ AnswerInv' /\ OwedInv' /\ NamesGrow
  BY <1>2, <1>3, <1>5, <1>6, CallsStay, TablesStay
<1>8. \A v \in Quitter : quitting'[v].at # "no" => quitting[v].at # "no"
  BY <1>2, <1>4
<1>9. EndInv'
  BY <1>3, <1>5, <1>7, <1>8, EndStays DEF RootInv, Quits
<1>10. FewerOf("inited") /\ FewerOf("quitted")
  BY <1>2, TakenFewer
<1>11. AskInv'
  <2>1. AskInv /\ NoRivals(inbox) /\ m \in Mail(inbox)
    BY <1>2 DEF RootInv, MailInv, TakesMail
  <2>2. \A o \in Service : <<o, w>> \notin asked
    BY <2>1 DEF AskInv, m
  <2>3. \A o \in Service : <<"quitted", <<o, w>> >> \notin Mail(inbox)'
    <3>1. \A o : <<"quitted", <<o, w>> >>[1] = "quitted"
                 /\ <<"quitted", <<o, w>> >>[2][2] = w
      OBVIOUS
    <3>2. \A o : Rivals(<<"quitted", <<o, w>> >>, m)
      BY <3>1, <1>6 DEF Rivals
    <3> QED
      BY <3>2, <2>1, <1>2 DEF TakesMail
  <2>4. \A o, v : <<"quitted", <<o, v>> >> \in Mail(inbox)' =>
                    <<"quitted", <<o, v>> >> \in Mail(inbox)
    <3>1. \A o, v : <<"quitted", <<o, v>> >>[1] = "quitted"
      OBVIOUS
    <3> QED
      BY <3>1, <1>10 DEF FewerOf
  <2>5. \A v \in Quitter : quitting'[v].at = "asking" => quitting'[v].i # 0
    BY <2>1, <1>4 DEF AskInv
  <2>6. ASSUME NEW o \in Service, NEW v \in Quitter
        PROVE  /\ <<o, v>> \in asked' =>
                    /\ quitting'[v].at = "asking"
                    /\ \A p \in Service :
                         /\ <<p, v>> \in asked' => p = o
                         /\ <<"quitted", <<p, v>> >> \notin Mail(inbox)'
               /\ <<"quitted", <<o, v>> >> \in Mail(inbox)' =>
                    quitting'[v].at = "asking"
    <3>1. CASE v = w
      BY <3>1, <2>2, <2>3, <1>3
    <3>2. CASE v # w
      BY <3>2, <2>1, <2>4, <1>3, <1>4 DEF AskInv
    <3> QED
      BY <3>1, <3>2
  <2> QED
    BY <2>5, <2>6 DEF AskInv
<1>12. MailInv'
  <2>1. InitInv'
    BY <1>3, <1>10, InitStays DEF RootInv, MailInv
  <2>2. BootInv'
    BY <1>3, <1>8, BootStays DEF RootInv, MailInv, Quitter
  <2> QED
    BY <2>1, <2>2, <1>2, <1>11 DEF MailInv, TakesMail, RootInv
<1> QED
  BY <1>2, <1>7, <1>9, <1>12 DEF RootInv

(* A service calls root: the call is in the queue. *)
LEMMA StepCall ==
  ASSUME RegistryAssumption, RootInv, NEW s \in Service, NEW op \in Operation,
         NEW n \in Name \cup {Nothing}, op # "spawn" => n \in Name, CallRoot(s, op, n)
  PROVE  RootInv'
<1>1. BaseInv /\ RootTypeOK
  BY RootBase
<1>2. RecordInv' /\ RootTypeOK'
  BY <1>1, RecordCall DEF RecordInv
<1>3. PICK r \in Calls :
        /\ req[r] = Nothing /\ AddsMail(<<"call", r>>)
        /\ req'[r] # Nothing /\ req'[r].op = op /\ req'[r].name = n
        /\ req'[r].answer = Nothing
        /\ \A x \in Calls \ {r} : req'[x] = req[x]
  BY <1>1, RecordCall
<1>4. UNCHANGED <<state, asked, anonymous_services, named_services, tokenmap, job, making,
                  boot, quitting, ended, broken, late>>
  BY DEF CallRoot, ServiceOnly
<1>5. <<"call", r>>[1] = "call" /\ \A x : <<"call", x>> = <<"call", r>> => x = r
  OBVIOUS
<1>6. /\ FewerOf("inited") /\ FewerOf("quitted")
      /\ <<"call", r>> \in Mail(inbox)'
      /\ \A m \in Mail(inbox) : m \in Mail(inbox)'
      /\ \A m \in Mail(inbox)' : m = <<"call", r>> \/ m \in Mail(inbox)
      /\ NoRivals(inbox)'
  <2>1. FewerOf("inited") /\ FewerOf("quitted")
    BY <1>3, <1>5, OtherMail
  <2>2. \A o : ~Rivals(<<"call", r>>, o) /\ ~Rivals(o, <<"call", r>>)
    BY <1>5 DEF Rivals
  <2> QED
    BY <2>1, <2>2, <1>3 DEF AddsMail, RootInv, MailInv
<1>7. \A x \in Calls : CallKept(x)
  BY <1>3 DEF CallKept
<1>8. NamesGrow
  BY <1>4, NamesStay
<1>9. MailInv'
  <2>1. InitInv'
    BY <1>4, <1>6, InitStays DEF RootInv, MailInv
  <2>2. BootInv'
    BY <1>4, BootStays DEF RootInv, MailInv
  <2>3. AskInv'
    BY <1>4, <1>6, AskStays DEF RootInv, MailInv
  <2> QED
    BY <2>1, <2>2, <2>3, <1>6 DEF MailInv
<1>10. TokenInv'
  <2>1. TokenInv
    BY DEF RootInv
  <2>2. \A x \in Calls : <<"call", x>> \in Mail(inbox)' => req'[x] # Nothing
    BY <2>1, <1>3, <1>5, <1>6 DEF TokenInv
  <2>3. \A x \in Calls : req[x] # Nothing => req'[x] = req[x]
    BY <1>3
  <2> QED
    BY <2>1, <2>2, <2>3, <1>4 DEF TokenInv
<1>11. NameInv'
  BY <1>4, NameStays DEF RootInv, Live
<1>12. AnswerInv'
  <2>1. \A x \in Calls : req'[x] # Nothing =>
          \/ req'[x].answer \in {Nothing, Error}
          \/ req[x] # Nothing /\ req'[x].answer = req[x].answer
    BY <1>3
  <2> QED
    BY <2>1, <1>7, <1>8, AnswerStays DEF RootInv
<1>13. WaitInv'
  BY <1>4, WaitStays DEF RootInv, OwedInv
<1>14. NoCallForgotten'
  <2> SUFFICES ASSUME NEW x \in Calls, req'[x] # Nothing, req'[x].answer = Nothing
               PROVE  Owed(x)'
    BY DEF NoCallForgotten
  <2>1. CASE x = r
    <3>1. Contains(inbox', <<"call", x>>)
      BY <2>1, <1>2, <1>6, ContainsMail DEF RootTypeOK
    <3> QED
      BY <3>1 DEF Owed
  <2>2. CASE x # r
    <3>1. StillOwed(x)
      BY <2>2, <1>3, <1>6 DEF StillOwed
    <3> QED
      BY <3>1, <1>1, <1>2, <1>4, OwedStays, CallTyped DEF RootInv, OwedInv, BaseInv
  <2> QED
    BY <2>1, <2>2
<1>15. EndInv'
  BY <1>4, EndSame DEF RootInv
<1> QED
  BY <1>2, <1>9, <1>10, <1>11, <1>12, <1>13, <1>14, <1>15 DEF RootInv, OwedInv

(* A service answers init, once. *)
LEMMA StepInited ==
  ASSUME RegistryAssumption, RootInv, NEW a \in Address,
         NEW result \in {"up", "failed", "dead"}, Inited(a, result)
  PROVE  RootInv'
<1>0. PICK m : m = <<"inited", a, result = "up">>
  OBVIOUS
<1>1. BaseInv /\ RootTypeOK
  BY RootBase
<1>2. RecordInv' /\ AddsMail(m)
  BY <1>0, <1>1, RecordInited
<1>3. /\ state[a] = "init" /\ state' = [state EXCEPT ![a] = result]
      /\ UNCHANGED <<anonymous_services, named_services, tokenmap, job, making, boot,
                     quitting, ended, broken, late, asked, req>>
  BY DEF Inited, ServiceOnly
<1>4. /\ \A b \in Address : b # a => state'[b] = state[b]
      /\ state'[a] = result
  BY <1>1, <1>3 DEF RootTypeOK, Service
<1>5. \A b \in Address : Live(b)' => Live(b)
  BY <1>3, <1>4 DEF Live
<1>6. /\ m[1] = "inited" /\ m[2] = a
      /\ \A b, ok : <<"inited", b, ok>>[1] = "inited" /\ <<"inited", b, ok>>[2] = b
  BY <1>0
<1>7. TokenInv' /\ NameInv' /\ AnswerInv' /\ OwedInv' /\ NamesGrow
  BY <1>2, <1>3, <1>5, <1>6, CallsStay, TablesStay
<1>8. EndInv'
  BY <1>3, <1>5, <1>7, EndStays DEF RootInv, Quits
<1>9. FewerOf("quitted")
  BY <1>2, <1>6, OtherMail
<1>10. a \in making /\ \A ok \in BOOLEAN : <<"inited", a, ok>> \notin Mail(inbox)
  BY <1>3 DEF RootInv, MailInv, InitInv
<1>11. MailInv'
  <2>1. InitInv'
    <3>1. InitInv
      BY DEF RootInv, MailInv
    <3>2. \A b, ok : <<"inited", b, ok>> \in Mail(inbox)' =>
                       b = a \/ <<"inited", b, ok>> \in Mail(inbox)
      BY <1>2, <1>6 DEF AddsMail
    <3> QED
      BY <3>1, <3>2, <1>3, <1>4, <1>10 DEF InitInv
  <2>2. BootInv'
    BY <1>3, BootStays DEF RootInv, MailInv
  <2>3. AskInv'
    BY <1>3, <1>9, AskStays DEF RootInv, MailInv
  <2>4. \A o \in Mail(inbox) : ~Rivals(m, o) /\ ~Rivals(o, m)
    <3> SUFFICES ASSUME NEW o \in Mail(inbox), o[1] = "inited", o[2] = a
                 PROVE  FALSE
      BY <1>6 DEF Rivals
    <3>1. o \in Letter
      BY <1>1 DEF RootTypeOK, Mail
    <3>2. PICK ok \in BOOLEAN : o = <<"inited", a, ok>>
      BY <3>1 DEF Letter
    <3> QED
      BY <3>2, <1>10
  <2> QED
    BY <2>1, <2>2, <2>3, <2>4, <1>2 DEF RootInv, MailInv, AddsMail
<1> QED
  BY <1>2, <1>7, <1>8, <1>11 DEF RootInv

(* A service dies, and root knows nothing of it. *)
LEMMA StepDie ==
  ASSUME RegistryAssumption, RootInv, NEW a \in Address, Die(a)
  PROVE  RootInv'
<1>1. BaseInv /\ RootTypeOK
  BY RootBase
<1>2. RecordInv'
  BY <1>1, RecordDie
<1>3. /\ state[a] = "up" /\ state' = [state EXCEPT ![a] = "dead"]
      /\ UNCHANGED <<anonymous_services, named_services, tokenmap, job, making, boot,
                     quitting, ended, broken, late, asked, inbox, req>>
  BY DEF Die, ServiceOnly
<1>4. /\ \A b \in Address : b # a => state'[b] = state[b]
      /\ state'[a] = "dead"
  BY <1>1, <1>3 DEF RootTypeOK, Service
<1>5. (\A b \in Address : Live(b)' => Live(b)) /\ Mail(inbox)' = Mail(inbox)
  BY <1>3, <1>4 DEF Live, Mail
<1>6. TokenInv' /\ NameInv' /\ AnswerInv' /\ OwedInv' /\ NamesGrow
  BY <1>2, <1>3, <1>5, TablesStay DEF FewerOf
<1>7. EndInv'
  BY <1>3, <1>5, <1>6, EndStays DEF RootInv, Quits
<1>8. MailInv'
  <2>1. InitInv'
    BY <1>3, <1>4, <1>5, InitStays DEF RootInv, MailInv, FewerOf
  <2>2. BootInv'
    BY <1>3, BootStays DEF RootInv, MailInv
  <2>3. AskInv'
    BY <1>3, <1>5, AskStays DEF RootInv, MailInv, FewerOf
  <2> QED
    BY <2>1, <2>2, <2>3, <1>3 DEF MailInv, NoRivals, RootInv
<1> QED
  BY <1>2, <1>6, <1>7, <1>8 DEF RootInv

(* Root is told that a service has died. *)
LEMMA StepSignal ==
  ASSUME RegistryAssumption, RootInv, NEW a \in Address, SignalRoot(a)
  PROVE  RootInv'
<1>0. PICK m : m = <<"signal", a>>
  OBVIOUS
<1>1. BaseInv /\ RootTypeOK
  BY RootBase
<1>2. RecordInv' /\ AddsMail(m)
  BY <1>0, <1>1, RecordSignal
<1>3. /\ state[a] = "dead" /\ state' = [state EXCEPT ![a] = "signalled"]
      /\ UNCHANGED <<anonymous_services, named_services, tokenmap, job, making, boot,
                     quitting, ended, broken, late, asked, req>>
  BY DEF SignalRoot, ServiceOnly
<1>4. /\ \A b \in Address : b # a => state'[b] = state[b]
      /\ state'[a] = "signalled"
  BY <1>1, <1>3 DEF RootTypeOK, Service
<1>5. \A b \in Address : Live(b)' => Live(b)
  BY <1>4 DEF Live
<1>6. m[1] = "signal"
  BY <1>0
<1>7. TokenInv' /\ NameInv' /\ AnswerInv' /\ OwedInv' /\ NamesGrow
  BY <1>2, <1>3, <1>5, <1>6, CallsStay, TablesStay
<1>8. EndInv'
  BY <1>3, <1>5, <1>7, EndStays DEF RootInv, Quits
<1>9. FewerOf("quitted") /\ FewerOf("inited")
  BY <1>2, <1>6, OtherMail
<1>10. MailInv'
  <2>1. InitInv'
    BY <1>3, <1>4, <1>9, InitStays DEF RootInv, MailInv
  <2>2. BootInv'
    BY <1>3, BootStays DEF RootInv, MailInv
  <2>3. AskInv'
    BY <1>3, <1>9, AskStays DEF RootInv, MailInv
  <2>4. \A o \in Mail(inbox) : ~Rivals(m, o) /\ ~Rivals(o, m)
    BY <1>6 DEF Rivals
  <2> QED
    BY <2>1, <2>2, <2>3, <2>4, <1>2 DEF RootInv, MailInv, AddsMail
<1> QED
  BY <1>2, <1>7, <1>8, <1>10 DEF RootInv

(* A service answers "quit", once. *)
LEMMA StepAnswerQuit ==
  ASSUME RegistryAssumption, RootInv, NEW s \in Service, NEW w \in Quitter,
         AnswerQuit(s, w)
  PROVE  RootInv'
<1>0. PICK m : m = <<"quitted", <<s, w>> >>
  OBVIOUS
<1>1. BaseInv /\ RootTypeOK
  BY RootBase
<1>2. RecordInv' /\ AddsMail(m)
  BY <1>0, <1>1, RecordAnswerQuit
<1>3. /\ <<s, w>> \in asked /\ asked' = asked \ {<<s, w>>}
      /\ UNCHANGED <<anonymous_services, named_services, tokenmap, job, making, boot,
                     quitting, ended, broken, late, state, req>>
  BY DEF AnswerQuit, ServiceOnly
<1>4. \A b \in Address : Live(b)' <=> Live(b)
  BY <1>3 DEF Live
<1>5. /\ m[1] = "quitted" /\ m[2][2] = w
      /\ \A x : <<"quitted", x>> = m => x = <<s, w>>
      /\ \A o, v : <<o, v>> = <<s, w>> => o = s /\ v = w
  BY <1>0
<1>6. TokenInv' /\ NameInv' /\ AnswerInv' /\ OwedInv' /\ NamesGrow
  BY <1>2, <1>3, <1>4, <1>5, CallsStay, TablesStay
<1>7. EndInv'
  BY <1>3, <1>4, <1>6, EndStays DEF RootInv, Quits
<1>8. FewerOf("inited")
  BY <1>2, <1>5, OtherMail
<1>9. /\ quitting[w].at = "asking"
      /\ \A o \in Service : /\ <<o, w>> \in asked => o = s
                            /\ <<"quitted", <<o, w>> >> \notin Mail(inbox)
  BY <1>3 DEF RootInv, MailInv, AskInv
<1>10. MailInv'
  <2>1. InitInv'
    BY <1>3, <1>8, InitStays DEF RootInv, MailInv
  <2>2. BootInv'
    BY <1>3, BootStays DEF RootInv, MailInv
  <2>3. AskInv'
    <3>1. AskInv
      BY DEF RootInv, MailInv
    <3>2. \A o \in Service, v \in Quitter :
            <<"quitted", <<o, v>> >> \in Mail(inbox)' =>
              \/ <<"quitted", <<o, v>> >> \in Mail(inbox)
              \/ o = s /\ v = w
      BY <1>2, <1>5 DEF AddsMail
    <3>3. \A o \in Service, v \in Quitter :
            <<o, v>> \in asked' => <<o, v>> \in asked /\ v # w
      BY <1>3, <1>5, <1>9
    <3>4. \A v \in Quitter : quitting'[v].at = "asking" => quitting'[v].i # 0
      BY <3>1, <1>3 DEF AskInv
    <3>5. ASSUME NEW o \in Service, NEW v \in Quitter
          PROVE  /\ <<o, v>> \in asked' =>
                      /\ quitting'[v].at = "asking"
                      /\ \A p \in Service :
                           /\ <<p, v>> \in asked' => p = o
                           /\ <<"quitted", <<p, v>> >> \notin Mail(inbox)'
                 /\ <<"quitted", <<o, v>> >> \in Mail(inbox)' =>
                      quitting'[v].at = "asking"
      <4>1. CASE v = w
        BY <4>1, <3>3, <1>3, <1>9
      <4>2. CASE v # w
        BY <4>2, <3>1, <3>2, <3>3, <1>3 DEF AskInv
      <4> QED
        BY <4>1, <4>2
    <3> QED
      BY <3>4, <3>5 DEF AskInv
  <2>4. \A o \in Mail(inbox) : ~Rivals(m, o) /\ ~Rivals(o, m)
    <3> SUFFICES ASSUME NEW o \in Mail(inbox), o[1] = "quitted", o[2][2] = w
                 PROVE  FALSE
      BY <1>5 DEF Rivals
    <3>1. o \in Letter
      BY <1>1 DEF RootTypeOK, Mail
    <3>2. PICK p \in Service : o = <<"quitted", <<p, w>> >>
      BY <3>1 DEF Letter
    <3> QED
      BY <3>2, <1>9
  <2> QED
    BY <2>1, <2>2, <2>3, <2>4, <1>2 DEF RootInv, MailInv, AddsMail
<1> QED
  BY <1>2, <1>6, <1>7, <1>10 DEF RootInv

-----------------------------------------------------------------------------
(* boot waits for the logger, which is being made. *)
LEMMA RootBegins ==
  ASSUME RegistryAssumption, RootInit
  PROVE  RootInv
<1>1. /\ 1 \in Address /\ 1 # Exclusive /\ Exclusive \notin Address
      /\ Logger \in Name
  BY DEF RegistryAssumption
<1>2. /\ \A s \in Service : state[s] = IF s = 1 THEN "init"
                                       ELSE IF s = Exclusive THEN "up" ELSE "none"
      /\ DOMAIN state = Service /\ state = [s \in Service |-> state[s]]
  <2>1. state = [s \in Service |-> CASE s = 1 -> "init" [] s = Exclusive -> "up"
                                     [] OTHER -> "none"]
    BY DEF RootInit
  <2> QED
    BY <2>1, <1>1
<1>3. /\ anonymous_services = {1} /\ named_services = << <<Exclusive, Exclusive>> >>
      /\ tokenmap = [k \in Key |-> IF k = <<"unique", Logger>> THEN {Boot} ELSE {}]
      /\ job = [a \in Address |-> IF a = 1 THEN <<"unique", Logger>> ELSE Nothing]
      /\ making = {1} /\ boot = "logger"
      /\ quitting = [w \in Quitter |-> [at |-> "no", i |-> 0]]
      /\ asked = {} /\ ended = FALSE
      /\ inbox = <<>> /\ req = [r \in Calls |-> Nothing]
      /\ broken = {} /\ late = {}
  BY DEF RootInit
<1>4. \A a \in Address : (state[a] = "init" <=> a = 1) /\ (Live(a) <=> a = 1)
  BY <1>1, <1>2 DEF Live, Service
<1>5. \A r \in Calls : req[r] = Nothing
  BY <1>3
<1>6. Mail(inbox) = {} /\ NoRivals(inbox)
  <2>1. DOMAIN <<>> = {}
    OBVIOUS
  <2> QED
    BY <2>1, <1>3 DEF Mail, NoRivals
<1>7. job[1] = <<"unique", Logger>> /\ <<"unique", Logger>> \in Key
  BY <1>1, <1>3 DEF Key
<1>8. /\ DOMAIN named_services = {1} /\ Len(named_services) = 1
      /\ named_services \in Seq((Name \cup {Exclusive}) \X Service)
  <2>1. <<Exclusive, Exclusive>> \in (Name \cup {Exclusive}) \X Service
    BY DEF Service
  <2> QED
    BY <2>1, <1>3
<1>9. ~Quits
  BY <1>3 DEF Quits
<1>10. RootTypeOK
  <2>1. state \in [Service -> {"none", "init", "failed", "up", "dead", "signalled",
                               "closed"}]
    BY <1>2
  <2>2. tokenmap \in [Key -> SUBSET Caller] /\ job \in [Address -> Purpose \cup {Nothing}]
    BY <1>1, <1>3 DEF Caller, Purpose
  <2>3. quitting \in [Quitter -> [at : {"no", "next", "asking"},
                                  i : 0..Len(named_services)]]
    BY <1>3, <1>8
  <2>4. inbox \in Seq(Letter) /\ req \in [Calls -> CallRecord \cup {Nothing}]
    BY <1>3
  <2> QED
    BY <1>1, <1>3, <1>8, <2>1, <2>2, <2>3, <2>4 DEF RootTypeOK
<1>11. RecordInv
  BY <1>1, <1>3, <1>5, <1>7, <1>10 DEF RecordInv, Purpose
<1>12. MailInv
  <2>1. InitInv
    BY <1>1, <1>2, <1>3, <1>4, <1>6 DEF InitInv, Service
  <2>2. BootInv
    <3>1. <<"unique", Logger>> # <<"spawn", Boot>>
      OBVIOUS
    <3> QED
      BY <3>1, <1>3, <1>7 DEF BootInv, Quitter
  <2>3. AskInv
    BY <1>3, <1>6 DEF AskInv
  <2> QED
    BY <2>1, <2>2, <2>3, <1>6 DEF MailInv
<1>13. TokenInv
  <2>1. \A k \in Key, r \in Calls : r \notin tokenmap[k]
    BY <1>3 DEF RegistryAssumption
  <2>2. \A r : <<"unique", Logger>> # <<"spawn", r>>
    OBVIOUS
  <2> QED
    BY <2>1, <2>2, <1>3, <1>6, <1>7 DEF TokenInv
<1>14. NameInv
  <2>1. ListedOnce
    BY <1>8 DEF ListedOnce
  <2>2. \A n \in Name, a \in making :
          job[a] = <<"unique", n>> => tokenmap[<<"unique", n>>] # {}
    BY <1>3, <1>7
  <2> QED
    BY <2>1, <2>2, <1>3, <1>4 DEF NameInv
<1>15. AnswerInv
  BY <1>5 DEF AnswerInv
<1>16. OwedInv
  <2>1. WaitInv
    <3> SUFFICES ASSUME NEW n \in Name, tokenmap[<<"unique", n>>] # {}
                 PROVE  InMaking(<<"unique", n>>)
      BY DEF WaitInv
    <3>1. <<"unique", n>> \in Key
      BY DEF Key
    <3>2. <<"unique", n>> = <<"unique", Logger>>
      BY <3>1, <1>3
    <3> QED
      BY <3>2, <1>3, <1>7 DEF InMaking
  <2> QED
    BY <2>1, <1>5 DEF OwedInv, NoCallForgotten
<1>17. EndInv
  BY <1>3, <1>4, <1>9 DEF EndInv, EndsLast
<1> QED
  BY <1>11, <1>12, <1>13, <1>14, <1>15, <1>16, <1>17 DEF RootInv

(* Each step of root or of a service keeps the invariant. *)
LEMMA RootStepsKeep ==
  ASSUME RegistryAssumption, RootInv, [RootNext]_rootVars
  PROVE  RootInv'
<1>1. CASE UNCHANGED rootVars
  <2>1. UNCHANGED <<state, anonymous_services, named_services, tokenmap, job, making,
                    boot, quitting, asked, ended, inbox, req, broken, late>>
    BY <1>1 DEF rootVars
  <2>2. RootTypeOK'
    BY <2>1, RootBase DEF RootTypeOK
  <2>3. RecordInv'
    BY <2>1, <2>2, RecordsKept DEF RootInv, RecordInv, CallKept
  <2>4. Mail(inbox)' = Mail(inbox) /\ \A a \in Address : Live(a)' <=> Live(a)
    BY <2>1 DEF Mail, Live
  <2>5. TokenInv' /\ NameInv' /\ AnswerInv' /\ OwedInv'
    BY <2>1, <2>3, <2>4, TablesStay DEF FewerOf
  <2>6. InitInv' /\ BootInv' /\ AskInv'
    BY <2>1, <2>4, InitStays, BootStays, AskStays DEF RootInv, MailInv, FewerOf
  <2>7. EndInv'
    BY <2>1, EndSame DEF RootInv
  <2> QED
    BY <2>1, <2>3, <2>5, <2>6, <2>7 DEF RootInv, MailInv, NoRivals
<1>2. CASE RootStep
  <2>1. ASSUME NEW r \in Calls, QueryService(r) PROVE RootInv'
    BY <2>1, StepQuery
  <2>2. ASSUME NEW r \in Calls, UniqueService(r) PROVE RootInv'
    BY <2>2, StepUniqueKnown, StepUniqueNew
  <2>3. ASSUME NEW r \in Calls, Spawn(r) PROVE RootInv'
    BY <2>3, StepSpawn
  <2>4. ASSUME NEW r \in Calls, RegisterSelf(r) PROVE RootInv'
    BY <2>4, StepRegisterKnown, StepRegisterNew
  <2>5. ASSUME NEW a \in Address, MadeUnique(a) PROVE RootInv'
    BY <2>5, StepMadeUniqueKnown, StepMadeUniqueNew
  <2>6. ASSUME NEW a \in Address, MadeSpawned(a) PROVE RootInv'
    BY <2>6, StepMadeSpawned
  <2>7. ASSUME NEW a \in Address, NotMade(a) PROVE RootInv'
    BY <2>7, StepNotMade
  <2>8. CASE BootSpawn
    BY <2>8, StepBootSpawn
  <2>9. CASE BootQuit
    BY <2>9, StepBootQuit
  <2>10. CASE InitError
    BY <2>10, StepInitError
  <2>11. ASSUME NEW s \in Service, DelService(s) PROVE RootInv'
    BY <2>11, StepDelService
  <2>12. ASSUME NEW w \in Quitter, QuitNext(w) PROVE RootInv'
    BY <2>12, StepQuitNext
  <2>13. ASSUME NEW w \in Quitter, NEW s \in Service, Quitted(s, w) PROVE RootInv'
    BY <2>13, StepQuitted
  <2> QED
    BY <1>2, <2>1, <2>2, <2>3, <2>4, <2>5, <2>6, <2>7, <2>8, <2>9, <2>10, <2>11,
       <2>12, <2>13 DEF RootStep
<1>3. CASE ServiceStep
  <2>1. ASSUME NEW s \in Service, NEW op \in {"query", "unique", "register"},
               NEW n \in Name, CallRoot(s, op, n)
        PROVE  RootInv'
    BY <2>1, StepCall DEF Operation
  <2>2. ASSUME NEW s \in Service, CallRoot(s, "spawn", Nothing) PROVE RootInv'
    BY <2>2, StepCall DEF Operation
  <2>3. ASSUME NEW a \in Address, NEW result \in {"up", "failed", "dead"},
               Inited(a, result)
        PROVE  RootInv'
    BY <2>3, StepInited
  <2>4. ASSUME NEW a \in Address, Die(a) PROVE RootInv'
    BY <2>4, StepDie
  <2>5. ASSUME NEW a \in Address, SignalRoot(a) PROVE RootInv'
    BY <2>5, StepSignal
  <2>6. ASSUME NEW s \in Service, NEW w \in Quitter, AnswerQuit(s, w) PROVE RootInv'
    BY <2>6, StepAnswerQuit
  <2> QED
    BY <1>3, <2>1, <2>2, <2>3, <2>4, <2>5, <2>6 DEF ServiceStep
<1> QED
  BY <1>1, <1>2, <1>3 DEF RootNext

-----------------------------------------------------------------------------
(***************************************************************************)
(* What root keeps.                                                        *)
(***************************************************************************)

(* Root's tables, messages and calls agree, whatever is called, made, killed
   and quitted, in every order. *)
THEOREM RootInvariant ==
  RootSpec => []RootInv
<1>1. RootInit => RootInv
  BY RegistryAssumed, RootBegins
<1>2. RootInv /\ [RootNext]_rootVars => RootInv'
  BY RegistryAssumed, RootStepsKeep
<1> QED
  BY <1>1, <1>2, PTL DEF RootSpec

(* Whatever calls for a name cross each other, at most one service is made for
   it that lives, and who was answered has the one that is registered. *)
THEOREM OneServicePerName ==
  RootSpec => []OnePerName
<1>1. RootInv => OnePerName
  <2> SUFFICES ASSUME RootInv PROVE OnePerName
    OBVIOUS
  <2>1. ASSUME NEW n \in Name
        PROVE  Cardinality({a \in Address : Live(a) /\ job[a] = <<"unique", n>>}) <= 1
    <3> DEFINE A == {a \in Address : Live(a) /\ job[a] = <<"unique", n>>}
    <3>1. \A a, b \in A : a = b
      BY DEF RootInv, NameInv
    <3>2. A = {} \/ \E a \in A : A = {a}
      BY <3>1
    <3> HIDE DEF A
    <3>3. Cardinality(A) = 0 \/ Cardinality(A) = 1
      BY <3>2, FS_EmptySet, FS_Singleton
    <3> QED
      BY <3>3 DEF A
  <2>2. \A n \in Name, r \in Calls :
          req[r] # Nothing /\ req[r].op \in {"unique", "query"} /\ req[r].name = n
            => req[r].answer \in {Nothing, Error} \/ req[r].answer = Lookup(n)
    BY DEF RootInv, AnswerInv
  <2> QED
    BY <2>1, <2>2, RootBase DEF OnePerName, OneMade
<1> QED
  BY <1>1, RootInvariant, PTL

(* Root owes every call that it has not answered. *)
THEOREM CallsAreOwed ==
  RootSpec => []NoCallForgotten
<1>1. RootInv => NoCallForgotten
  BY DEF RootInv, OwedInv
<1> QED
  BY <1>1, RootInvariant, PTL

(* When root begins to quit whoever still lives has a name and is told. *)
THEOREM NamedOnesLast ==
  RootSpec => []EndsLast
<1>1. RootInv => EndsLast
  BY DEF RootInv, EndInv
<1> QED
  BY <1>1, RootInvariant, PTL

(* The fairness of root, of the signals and of the answers to "quit" changes
   none of this. *)
THEOREM FairRoot ==
  FairSpec => [](OnePerName /\ NoCallForgotten /\ EndsLast)
<1>1. FairSpec => RootSpec
  BY PTL DEF FairSpec, RootSpec
<1> QED
  BY <1>1, OneServicePerName, CallsAreOwed, NamedOnesLast, PTL

=============================================================================
