---------------------------- MODULE Transactions ----------------------------
(***************************************************************************)
(* What the state layer promises the logic that runs in the workers         *)
(* (README.md l.36 and l.42): a request sees all the states it asked for    *)
(* as they are at one moment, no other request has any of them while it is  *)
(* at work, and all its changes happen at one moment.                       *)
(***************************************************************************)
CONSTANTS Objects, Requests,
          Values(_),  \* what a request may make of an object of this value
          Default(_), \* the value an object begins with
          Idle        \* what a request sees that is not at work

VARIABLES value,      \* the value of each object
          seen        \* what each request at work sees: a function

vars == <<value, seen>>

Init ==
  /\ value = [o \in Objects |-> Default(o)]
  /\ seen = [r \in Requests |-> Idle]

AtWork(o) == \E r \in Requests : seen[r] # Idle /\ o \in DOMAIN seen[r]

Begin(r, S) ==
  /\ seen[r] = Idle
  /\ \A o \in S : ~AtWork(o)
  /\ seen' = [seen EXCEPT ![r] = [o \in S |-> value[o]]]
  /\ UNCHANGED value

Commit(r) ==
  /\ seen[r] # Idle
  /\ \E new \in [DOMAIN seen[r] -> UNION {Values(v) : v \in {seen[r][o] :
                                             o \in DOMAIN seen[r]}}] :
       /\ \A o \in DOMAIN new : new[o] \in Values(seen[r][o])
       /\ value' = [o \in Objects |-> IF o \in DOMAIN new THEN new[o]
                                      ELSE value[o]]
  /\ seen' = [seen EXCEPT ![r] = Idle]

Next == \E r \in Requests : Commit(r) \/ \E S \in SUBSET Objects : Begin(r, S)

Spec == Init /\ [][Next]_vars
=============================================================================
