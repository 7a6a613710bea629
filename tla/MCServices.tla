----------------------------- MODULE MCServices -----------------------------
(* Small instances of the services for TLC: the timer service with its way to
   send, the network service with the gate, and root with its registry.  In a
   behaviour one of them moves, and the others stay as they begin.  Those of
   Sending keep their names; inbox is its queue, mail that of Gate, and letters
   that of Registry. *)
EXTENDS Sending, TLC

CONSTANTS timer, logger, other,   \* an exclusive service and names of root's registry
          c1, c2, Client, Pid, Fd, Base, RecvSize, Nil,  \* Gate
          Address, Exclusive, Name, Logger, Calls, Boot, Error, Done, Nothing  \* Registry

VARIABLES which, pid, stage, unsent, rx, backlog, sock, ready, efd, connection, loop, events,
          mail, jobs, players, cut,
          state, anonymous_services, named_services, tokenmap, job, making, boot, quitting,
          asked, ended, letters, req, broken, late

(* Packs of every length below the size of a header and above *)
Stream == c1 :> << <<1>>, <<>> >> @@ c2 :> << <<0, 1>> >>

G == INSTANCE Gate WITH stream <- Stream, inbox <- mail
gateVars == <<pid, stage, unsent, rx, backlog, sock, ready, efd, connection, loop, events,
              mail, jobs, players, cut>>

R == INSTANCE Registry WITH inbox <- letters
rootVars == <<state, anonymous_services, named_services, tokenmap, job, making, boot, quitting,
              asked, ended, letters, req, broken, late>>

(* The clients of a network that does not move are the same. *)
ServicesInit == /\ which \in {"timer", "network", "root"} /\ Init /\ G!Init /\ R!RootInit
                /\ which # "network" => pid = [c \in Client |-> CHOOSE p \in Pid : TRUE]

Timer(A) == which = "timer" /\ A /\ UNCHANGED <<which, gateVars, rootVars>>
Network(A) == which = "network" /\ A /\ UNCHANGED <<which, vars, rootVars>>
Root(A) == which = "root" /\ ~ended /\ A /\ UNCHANGED <<which, vars, gateVars>>

ServicesNext == \/ Timer(Thread) \/ \E d \in Receiver : Timer(Take(d))
                \/ Network(G!Network) \/ Network(G!Worker) \/ Network(G!Outside)
                \/ Root(R!RootStep) \/ Root(R!ServiceStep)

(* The fairness of the three specifications *)
ServicesSpec ==
  /\ ServicesInit /\ [][ServicesNext]_<<which, vars, gateVars, rootVars>>
  /\ WF_vars(Timer(Thread)) /\ (\A d \in Receiver : WF_vars(Timer(Take(d))))
  /\ WF_gateVars(Network(G!Network)) /\ WF_gateVars(Network(G!Worker))
  /\ WF_rootVars(Root(R!RootStep)) /\ (\A a \in Address : WF_rootVars(Root(R!SignalRoot(a))))
  /\ \A s \in R!Service, w \in R!Quitter : WF_rootVars(Root(R!AnswerQuit(s, w)))

-----------------------------------------------------------------------------
(* The properties of the three modules; Delivery and KeepsFiring are of Sending,
   and the other ones of Registry are in MCSession. *)
ASSUME ServicesAssumption == G!GateAssumption /\ R!RegistryAssumption

(* No event is of a closed connection, and the gate knows every one it gets
   data of and has nothing of an earlier one with the same fd
   (src/gate.lua:61). *)
OwnRecord == G!TypeOK /\ G!OwnRecord

(* The packs cut from a connection are those that were sent, in order. *)
CutAsSent == G!CutAsSent

(* An answer that reached the network service leaves it. *)
AnswersLeave == G!AnswersLeave

(* The network service survives every login. *)
GoesOn == G!GoesOn

(* Root ends once it has begun to quit, whoever dies or calls meanwhile. *)
QuitEnds == R!QuitEnds
=============================================================================
