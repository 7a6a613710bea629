-------------------------------- MODULE Gate --------------------------------
(***************************************************************************)
(* The TCP gate: the loop of the exclusive service network-tcp             *)
(* (service/network-tcp.lua) over epoll, the connections it keeps and the  *)
(* packs it cuts their bytes into (gate.lua), and the workers that log     *)
(* players in and answer their requests (service/worker.lua).              *)
(*                                                                         *)
(* The service blocks its thread in epoll.wait, where it does not see its  *)
(* messages either.  A worker therefore writes an eventfd after an answer. *)
(* Events are edges: epoll reports what has come since it reported last.   *)
(*                                                                         *)
(* A client does what client.lua does: it sends the token, its id, and the *)
(* packs, and before each of the first three it waits for the answer; the  *)
(* packs come one after the other, in pieces of any size, and then it may  *)
(* close.  The token and the id come in one piece.                         *)
(***************************************************************************)
EXTENDS Naturals, Sequences, FiniteSets, SequencesExt

CONSTANTS Client,   \* each connects once (bound)
          Pid,      \* the ids of players
          Fd,       \* what accept returns
          Base,     \* values of a byte: 256
          RecvSize, \* bytes socket.recv takes at most: 1024
          stream,   \* the packs each client sends (bound)
          Nil

AUTH_TOKEN == "token"
GateAssumption == /\ stream \in [Client -> Seq(Seq(0..(Base - 1)))]
                  /\ RecvSize \in Nat \ {0} /\ Base \in Nat \ {0}

VARIABLES
  pid, stage, \* of a client: its id, and how far it is
  unsent,   \* bytes of its packs that have not come yet
  rx,       \* what has come, and recv has not taken
  backlog,  \* clients not accepted
  sock,     \* the client at the other end of an fd
  ready,    \* what epoll has an edge of
  efd,      \* the eventfd has been written
  connection, \* of gate.lua
  loop,     \* where the loop of the service is
  events,   \* what it has still to handle of the last epoll.wait
  inbox,    \* the messages of the service
  jobs,     \* calls of the workers, in order
  players,  \* ids that have a state: "user@"..pid
  cut       \* the packs each client's bytes were cut into (history)

clients == <<pid, stage, unsent>>
kernel == <<rx, backlog, sock, ready, efd>>
service == <<connection, loop, events, cut>>
vars == <<clients, kernel, service, inbox, jobs, players>>

(* string.pack(">s2", s) *)
Header(n) == <<n \div Base, n % Base>>
Bytes(packs) == FlattenSeq([i \in DOMAIN packs |-> Header(Len(packs[i])) \o packs[i]])

Init ==
  /\ pid \in [Client -> Pid]
  /\ stage = [c \in Client |-> "out"] /\ unsent = [c \in Client |-> Bytes(stream[c])]
  /\ rx = [c \in Client |-> <<>>] /\ backlog = <<>>
  /\ sock = [fd \in Fd |-> Nil] /\ ready = {} /\ efd = FALSE
  /\ connection = [fd \in Fd |-> Nil] /\ loop = "wait" /\ events = {}
  /\ inbox = <<>> /\ jobs = <<>> /\ players = {}
  /\ cut = [c \in Client |-> <<>>]

-----------------------------------------------------------------------------
(* The clients and the network *)
Edge(c) == {fd \in Fd : sock[fd] = c}
Arrives(c, bytes) == /\ rx' = [rx EXCEPT ![c] = @ \o bytes]
                     /\ ready' = ready \cup Edge(c)
                     /\ UNCHANGED <<backlog, sock, efd>>
Becomes(c, s) == stage' = [stage EXCEPT ![c] = s]

(* The socket of socket.listen has a client for accept. *)
Queued(c) == backlog' = Append(backlog, c) /\ ready' = ready \cup {"listen"}

Connect(c) ==
  /\ stage[c] = "out" /\ Becomes(c, "connected")
  /\ Queued(c)
  /\ UNCHANGED <<pid, unsent, rx, sock, efd, service, inbox, jobs, players>>

SendToken(c) ==
  /\ stage[c] = "connected" /\ Becomes(c, "token")
  /\ \E token \in {AUTH_TOKEN, "something"} : Arrives(c, <<token>>)
  /\ UNCHANGED <<pid, unsent, service, inbox, jobs, players>>

SendId(c) ==
  /\ stage[c] = "authed" /\ Becomes(c, "id") /\ Arrives(c, <<pid[c]>>)
  /\ UNCHANGED <<pid, unsent, service, inbox, jobs, players>>

SendPiece(c) ==
  /\ stage[c] = "playing"
  /\ \E n \in 1..Len(unsent[c]) :
       /\ Arrives(c, SubSeq(unsent[c], 1, n))
       /\ unsent' = [unsent EXCEPT ![c] = SubSeq(@, n + 1, Len(@))]
  /\ UNCHANGED <<pid, stage, service, inbox, jobs, players>>

Close(c) ==
  /\ stage[c] \in {"token", "authed", "playing"} /\ Becomes(c, "closed")
  /\ ready' = ready \cup Edge(c)
  /\ UNCHANGED <<pid, unsent, rx, backlog, sock, efd, service, inbox, jobs, players>>

-----------------------------------------------------------------------------
(* gate.lua *)

NewConnection == [authed |-> FALSE, login |-> FALSE, pid |-> Nil, last |-> <<>>]

(* mutant: what on_close has left is used again *)
RecordKept(fd) == IF connection[fd] = Nil THEN NewConnection ELSE connection[fd]

(* on_accept *)
Record(fd) == NewConnection

(* mutant: the low byte first *)
PackSizeLittle(s) == s[2] * Base + s[1]

PackSize(s) == s[1] * Base + s[2]

(* A pack is all there. *)
IsWhole(s) == Len(s) >= 2 /\ Len(s) >= PackSize(s) + 2

(* split: the packs, and what is left *)
Split(s) ==
  LET step[n \in 0..Len(s)] ==
        IF n = 0 THEN [last |-> s, packs |-> <<>>]
        ELSE LET b == step[n - 1]
             IN IF ~IsWhole(b.last) THEN b
                ELSE [last |-> SubSeq(b.last, 3 + PackSize(b.last), Len(b.last)),
                      packs |-> Append(b.packs, SubSeq(b.last, 3, 2 + PackSize(b.last)))]
  IN step[Len(s)]

(* What network.send brings to the client at the end of fd *)
Hears(fd, from, to) ==
  stage' = [c \in Client |-> IF c = sock[fd] /\ stage[c] = from THEN to ELSE stage[c]]

Call(kind, fd, id, pack) ==
  [kind |-> kind, fd |-> fd, pid |-> id, pack |-> pack, state |-> "asked"]

(* socket.shutdown and socket.close: nothing more of the client is received. *)
CloseSocket(fd) == sock' = [sock EXCEPT ![fd] = Nil]

OnData(fd, message) ==
  LET c == connection[fd]
      s == Split(c.last \o message)
  IN IF ~c.authed
     THEN IF message = <<AUTH_TOKEN>>
          THEN /\ connection' = [connection EXCEPT ![fd].authed = TRUE]
               /\ Hears(fd, "token", "authed")
               /\ UNCHANGED <<sock, loop, jobs, cut>>
          ELSE /\ connection' = [connection EXCEPT ![fd] = Nil]  \* shutdown
               /\ CloseSocket(fd)
               /\ UNCHANGED <<stage, loop, jobs, cut>>
     ELSE IF ~c.login
     THEN /\ connection' = [connection EXCEPT ![fd].pid = message[1], ![fd].login = TRUE]
          /\ jobs' = Append(jobs, Call("player_login", fd, message[1], <<>>))
          /\ loop' = "login"
          /\ UNCHANGED <<sock, stage, cut>>
     ELSE /\ connection' = [connection EXCEPT ![fd].last = s.last]
          /\ jobs' = jobs \o [i \in DOMAIN s.packs |->
                                Call("player_request", fd, c.pid, s.packs[i])]
          /\ cut' = [cut EXCEPT ![sock[fd]] = @ \o s.packs]
          /\ UNCHANGED <<sock, stage, loop>>

-----------------------------------------------------------------------------
(* network-tcp.lua: the loop *)

HasData(e) ==
  CASE e = "listen" -> backlog # <<>>
    [] e = "efd" -> efd
    [] OTHER -> sock[e] # Nil /\ (rx[sock[e]] # <<>> \/ stage[sock[e]] = "closed")

(* epoll.wait returns. *)
Wait ==
  /\ loop = "wait" /\ \E e \in ready : HasData(e)
  /\ events' = {e \in ready : HasData(e)} /\ ready' = {} /\ loop' = "events"
  /\ UNCHANGED <<clients, rx, backlog, sock, efd, connection, cut, inbox, jobs, players>>

Handles(e) == loop = "events" /\ e \in events /\ events' = events \ {e}

(* socket.eread *)
EventFd ==
  /\ Handles("efd") /\ efd' = FALSE
  /\ UNCHANGED <<clients, rx, backlog, sock, ready, connection, loop, cut, inbox, jobs, players>>

(* accept: one connection.  Registering it makes an edge of what has come. *)
Accept(fd) ==
  LET c == Head(backlog)
  IN /\ Handles("listen") /\ sock[fd] = Nil
     /\ backlog' = Tail(backlog) /\ sock' = [sock EXCEPT ![fd] = c]
     /\ ready' = IF rx[c] # <<>> \/ stage[c] = "closed" THEN ready \cup {fd} ELSE ready
     /\ connection' = [connection EXCEPT ![fd] = Record(fd)]
     /\ UNCHANGED <<clients, rx, efd, loop, cut, inbox, jobs, players>>

(* The process has no fd left: the client stays in the backlog. *)
AcceptError ==
  /\ Handles("listen") /\ \A fd \in Fd : sock[fd] # Nil
  /\ UNCHANGED <<clients, kernel, connection, loop, cut, inbox, jobs, players>>

(* The edges without those of a closed fd *)
Unregistered(fd) == ready \ {fd}

(* recv *)
Recv(fd) ==
  LET c == sock[fd]
      n == IF Len(rx[c]) < RecvSize THEN Len(rx[c]) ELSE RecvSize
  IN /\ fd \in Fd /\ Handles(fd)
     /\ IF rx[c] # <<>>
        THEN /\ rx' = [rx EXCEPT ![c] = SubSeq(@, n + 1, Len(@))]
             /\ OnData(fd, SubSeq(rx[c], 1, n))
        ELSE /\ CloseSocket(fd)  \* gate.on_close is empty
             /\ UNCHANGED <<rx, stage, connection, loop, jobs, cut>>
     /\ ready' = IF sock'[fd] = Nil THEN Unregistered(fd) ELSE ready
     /\ UNCHANGED <<pid, unsent, backlog, efd, inbox, players>>

(* ltask.sleep(0), by a message of the service to itself *)
Sleep ==
  /\ loop = "events" /\ events = {} /\ loop' = "sleep"
  /\ inbox' = Append(inbox, [kind |-> "wakeup"])
  /\ UNCHANGED <<clients, kernel, connection, events, cut, jobs, players>>

(* The service has its next message: the end of the sleep, the answer to the
   login, or to a request, that goes to whoever is at the end of fd now.  An
   error of player_login ends the loop, one of player_request a coroutine. *)
Resume ==
  LET m == Head(inbox)
  IN /\ loop \notin {"wait", "events"} /\ inbox # <<>>
     /\ inbox' = Tail(inbox)
     /\ CASE m.kind = "wakeup" -> loop' = "wait" /\ UNCHANGED stage
          [] m.kind = "player_login" ->
               /\ loop' = IF m.ok THEN "events" ELSE "dead"
               /\ IF m.ok THEN Hears(m.fd, "id", "playing") ELSE UNCHANGED stage
          [] m.kind = "player_request" -> UNCHANGED <<loop, stage>>
     /\ UNCHANGED <<pid, unsent, kernel, connection, events, cut, jobs, players>>

-----------------------------------------------------------------------------
(* worker.lua *)

(* Requests for one player have its state one after the other. *)
ItsTurn(i) == \A j \in 1..(i - 1) : jobs[j].pid # jobs[i].pid \/ jobs[j].state # "asked"

(* S.player_login: starre.new fails when the player has a state. *)
Login(i) ==
  LET j == jobs[i]
  IN /\ j.kind = "player_login" /\ ItsTurn(i)
     /\ jobs' = RemoveAt(jobs, i)
     /\ inbox' = Append(inbox, [kind |-> j.kind, fd |-> j.fd, ok |-> j.pid \notin players])
     /\ players' = players \cup {j.pid}
     /\ UNCHANGED <<clients, kernel, service>>

(* mutant: the eventfd is written before the answer is sent *)
StepsWakeFirst == [asked |-> "wake", answered |-> "answer"]

(* S.player_request: the answer, and then the coroutine it forked *)
Steps == [asked |-> "answer", answered |-> "wake"]

(* socket.ewrite *)
WriteEventFd == efd' = TRUE /\ ready' = ready \cup {"efd"}

WithAnswer(i) ==
  LET j == jobs[i]
  IN /\ j.kind = "player_request" /\ (j.state = "asked" => ItsTurn(i))
     /\ jobs' = IF j.state = "asked" THEN [jobs EXCEPT ![i].state = "answered"]
                ELSE RemoveAt(jobs, i)
     /\ IF Steps[j.state] = "answer"
        THEN /\ inbox' = Append(inbox, [kind |-> j.kind, fd |-> j.fd, ok |-> TRUE])
             /\ UNCHANGED <<efd, ready>>
        ELSE WriteEventFd /\ UNCHANGED inbox
     /\ UNCHANGED <<clients, rx, backlog, sock, service, players>>

(* It raises an error, or has nothing to answer: nothing wakes the service. *)
WithoutAnswer(i) ==
  LET j == jobs[i]
  IN /\ j.kind = "player_request" /\ j.state = "asked" /\ ItsTurn(i)
     /\ jobs' = RemoveAt(jobs, i)
     /\ inbox' = Append(inbox, [kind |-> j.kind, fd |-> j.fd, ok |-> FALSE])
     /\ UNCHANGED <<clients, kernel, service, players>>

Network == \/ Wait \/ EventFd \/ AcceptError \/ Sleep \/ Resume
           \/ \E fd \in Fd : Accept(fd) \/ Recv(fd)
Worker == \E i \in DOMAIN jobs : Login(i) \/ WithAnswer(i) \/ WithoutAnswer(i)
Outside == \E c \in Client : Connect(c) \/ SendToken(c) \/ SendId(c) \/ SendPiece(c) \/ Close(c)
Next == Network \/ Worker \/ Outside

(* The thread of the service runs, and the workers do. *)
Spec == Init /\ [][Next]_vars /\ WF_vars(Network) /\ WF_vars(Worker)

-----------------------------------------------------------------------------
(* The records of the connections, and what the loop still has to look at:
   nothing that is closed. *)
TypeOK ==
  /\ loop \in {"wait", "events", "login", "sleep", "dead"}
  /\ events \subseteq Fd \cup {"listen", "efd"} /\ ready \subseteq Fd \cup {"listen", "efd"}
  /\ \A fd \in (events \cup ready) \cap Fd : sock[fd] # Nil
  /\ \A fd \in Fd : connection[fd] # Nil =>
       Len(connection[fd].last) < 2 + Base * Base
  /\ players \subseteq Pid

(* Data is received only for a connection the gate knows (the assert of
   on_data), and never with what was left of another client's, although
   on_close does nothing and an fd comes back. *)
OwnRecord ==
  \A fd \in Fd :
    sock[fd] # Nil => /\ connection[fd] # Nil
                      /\ connection[fd].login => connection[fd].pid = pid[sock[fd]]
                      /\ connection[fd].last # <<>> =>
                           IsSuffix(connection[fd].last \o rx[sock[fd]] \o unsent[sock[fd]],
                                    Bytes(stream[sock[fd]]))

(* Whatever pieces its bytes come in, the packs that are cut are the packs the
   client sent, in order. *)
CutAsSent == \A c \in Client : IsPrefix(cut[c], stream[c])

(* An answer a worker sent leaves: the service is not left in epoll.wait with
   it. *)
Answers == {i \in DOMAIN inbox : inbox[i].kind = "player_request" /\ inbox[i].ok}
AnswersLeave == (Answers # {}) ~> (Answers = {})

(* Whoever logs in, the service goes on, for this player and all others. *)
GoesOn == loop # "dead"
=============================================================================
