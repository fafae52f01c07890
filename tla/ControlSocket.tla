---------------------------- MODULE ControlSocket ---------------------------
(***************************************************************************)
(* The control socket: front-ends (shared/uf_ctl_client.hpp, class Client) *)
(* that greet the daemon and send it commands, and the one thread that     *)
(* serves them all (daemon/uf_ctl_server.hpp, class CtlServer).            *)
(*                                                                         *)
(* A message is a header and the rest of it, which arrive one after the    *)
(* other; the serving thread waits for each with nothing else to do.  A    *)
(* client may end between the two.  What a command says is left out: it is *)
(* known by its number on its connection.                                  *)
(***************************************************************************)
EXTENDS Naturals, Sequences

CONSTANTS
  Clients,     \* front-ends
  Current,     \* those built with the daemon's protocol version
  MaxMessages, \* bound on the messages a client sends on one connection
  MaxConnects, \* bound on connections
  MaxLives,    \* bound on the daemon's starts
  MaxCrashes   \* bound on crashes of the daemon that have no cause here

ASSUME SocketAssumption ==
  /\ Current \subseteq Clients
  /\ MaxMessages \in Nat /\ MaxConnects \in Nat /\ MaxLives \in Nat
  /\ MaxCrashes \in Nat

VARIABLES
  life,     \* the daemon: "down", "up", or "stopping", inside CtlServer::stop
  thread,   \* the serving thread: where it is, the message it is at, whom it has to
            \* serve yet
  fd,       \* client -> its connection: "none", "backlog", "open", or "dropped" by the
            \* daemon
  hung,     \* client -> it has closed an end the daemon still holds
  pipe,     \* client -> the pieces on their way to the daemon
  reply,    \* client -> the HelloAck on its way: "none", "ok" or "refused"
  client,   \* client -> "off", "greet", "mid", "await" or "ready"
  writing,  \* client -> the kind of the message it is in the middle of
  written,  \* client -> messages sent on this connection after the greeting
  pushed,   \* client -> the commands queued from this connection
  faulty,   \* client -> it has sent a length that is not its type's
  connects, lives, crashes

socketVars == <<life, thread, fd, hung, pipe, reply, client, writing, written, pushed,
                faulty, connects, lives, crashes>>
bounds == <<lives, crashes>>
clientVars == <<client, writing, written, faulty, connects>>

Off == [at |-> "off", cur |-> "none", kind |-> "none", n |-> 0, todo |-> {}]

SocketInit ==
  /\ life = "down" /\ thread = Off /\ lives = 0 /\ crashes = 0 /\ connects = 0
  /\ fd = [c \in Clients |-> "none"] /\ hung = [c \in Clients |-> FALSE]
  /\ pipe = [c \in Clients |-> <<>>] /\ reply = [c \in Clients |-> "none"]
  /\ client = [c \in Clients |-> "off"] /\ writing = [c \in Clients |-> "none"]
  /\ written = [c \in Clients |-> 0] /\ pushed = [c \in Clients |-> <<>>]
  /\ faulty = [c \in Clients |-> FALSE]

\* The daemon closes the connections of a set of clients; of one whose client is
\* gone nothing is left.
Dropped(cs) ==
  /\ fd' = [c \in Clients |-> IF c \notin cs THEN fd[c]
                              ELSE IF hung[c] THEN "none" ELSE "dropped"]
  /\ hung' = [c \in Clients |-> hung[c] /\ c \notin cs]
  /\ pipe' = [c \in Clients |-> IF c \in cs THEN <<>> ELSE pipe[c]]

-----------------------------------------------------------------------------
(* Clients *)

\* Client::connect, up to the connection itself, which a daemon that listens gets
\* to accept later.
Connect(c) ==
  /\ client[c] = "off" /\ fd[c] = "none" /\ life = "up" /\ connects < MaxConnects
  /\ connects' = connects + 1
  /\ fd' = [fd EXCEPT ![c] = "backlog"] /\ client' = [client EXCEPT ![c] = "greet"]
  /\ reply' = [reply EXCEPT ![c] = "none"]
  /\ written' = [written EXCEPT ![c] = 0] /\ pushed' = [pushed EXCEPT ![c] = <<>>]
  /\ faulty' = [faulty EXCEPT ![c] = FALSE]
  /\ UNCHANGED <<life, thread, hung, pipe, writing, bounds>>

\* The kinds of message a client sends after the greeting: the commands of the
\* protocol, a type this daemon does not know, a length that is not its type's.
MsgKinds == {"command", "unknown", "malformed"}

\* send_all: the header, then the rest; to a connection the daemon has dropped it
\* fails.
SendHeader(c, kind) ==
  /\ fd[c] # "dropped"
  /\ \/ client[c] = "greet" /\ kind = "hello"
     \/ client[c] = "ready" /\ kind \in MsgKinds /\ written[c] < MaxMessages
  /\ client' = [client EXCEPT ![c] = "mid"] /\ writing' = [writing EXCEPT ![c] = kind]
  /\ pipe' = [pipe EXCEPT ![c] =
       Append(@, [part |-> "header", kind |-> kind, n |-> written[c] + 1])]
  /\ faulty' = [faulty EXCEPT ![c] = @ \/ kind = "malformed"]
  /\ UNCHANGED <<life, thread, fd, hung, reply, written, pushed, connects, bounds>>

SendRest(c) ==
  /\ client[c] = "mid" /\ fd[c] # "dropped"
  /\ client' = [client EXCEPT ![c] = IF writing[c] = "hello" THEN "await" ELSE "ready"]
  /\ pipe' = [pipe EXCEPT ![c] =
       Append(@, [part |-> "rest", kind |-> writing[c], n |-> written[c] + 1])]
  /\ written' = [written EXCEPT ![c] = IF writing[c] = "hello" THEN @ ELSE @ + 1]
  /\ UNCHANGED <<life, thread, fd, hung, reply, writing, pushed, faulty, connects,
                 bounds>>

\* Client::close, by the client itself or because its process ended.
Close(c) ==
  /\ client' = [client EXCEPT ![c] = "off"] /\ writing' = [writing EXCEPT ![c] = "none"]
  /\ fd' = [fd EXCEPT ![c] = IF @ = "dropped" THEN "none" ELSE @]
  /\ hung' = [hung EXCEPT ![c] = fd[c] # "dropped"]
  /\ UNCHANGED <<life, thread, pipe, reply, written, pushed, faulty, connects, bounds>>

Quit(c) == client[c] # "off" /\ Close(c)

\* The rest of Client::connect: an accepting answer, a refusing one, or none from a
\* daemon that is gone.
Greeted(c) ==
  /\ client[c] = "await" /\ reply[c] = "ok"
  /\ client' = [client EXCEPT ![c] = "ready"]
  /\ UNCHANGED <<life, thread, fd, hung, pipe, reply, writing, written, pushed, faulty,
                 connects, bounds>>
TurnedAway(c) ==
  /\ client[c] = "await" /\ reply[c] # "ok"
  /\ reply[c] = "refused" \/ fd[c] = "dropped"
  /\ Close(c)

-----------------------------------------------------------------------------
(* The serving thread *)

Open == {c \in Clients : fd[c] = "open"}
Ready(c) == pipe[c] # <<>> \/ hung[c]

\* poll, and accept if someone waits; the new connection is looked at next time.
Poll ==
  /\ thread.at = "poll" /\ life = "up"
  /\ \/ /\ \A c \in Clients : fd[c] # "backlog"
        /\ \E c \in Open : Ready(c)
        /\ UNCHANGED fd
     \/ \E c \in Clients : fd[c] = "backlog" /\ fd' = [fd EXCEPT ![c] = "open"]
  /\ thread' = [thread EXCEPT !.at = "each", !.todo = {c \in Open : Ready(c)}]
  /\ UNCHANGED <<life, hung, pipe, reply, pushed, bounds, clientVars>>

Pick ==
  /\ thread.at = "each"
  /\ \/ thread.todo = {} /\ thread' = [thread EXCEPT !.at = "poll"]
     \/ \E c \in thread.todo :
          thread' = [thread EXCEPT !.at = "header", !.cur = c, !.todo = @ \ {c}]
  /\ UNCHANGED <<life, fd, hung, pipe, reply, pushed, bounds, clientVars>>

\* On to the next client, this one kept or dropped.
OnToNext ==
  thread' = [thread EXCEPT !.at = "each", !.cur = "none", !.kind = "none", !.n = 0]
Drop(c) == OnToNext /\ Dropped({c})
Take(c) == pipe' = [pipe EXCEPT ![c] = SubSeq(@, 2, Len(@))]

\* Mutation: a type that is not known is skipped without its rest.
RestFollows_NotOfUnknown(piece) == piece.kind # "unknown"

\* The header says how much follows.
RestFollows(piece) == TRUE

\* handle: the header arrives, or the client is gone.  A length no message has is
\* not read further; other wrong lengths are noticed with the type.
RecvHeader(c) ==
  /\ thread.at = "header" /\ thread.cur = c
  /\ \/ pipe[c] = <<>> /\ hung[c] /\ Drop(c)
     \/ pipe[c] # <<>> /\ Head(pipe[c]).kind = "malformed" /\ Drop(c)
     \/ /\ pipe[c] # <<>>
        /\ IF Head(pipe[c]).part # "header" THEN Drop(c)
           ELSE /\ Take(c)
                /\ IF RestFollows(Head(pipe[c]))
                     THEN thread' = [thread EXCEPT !.at = "rest", !.n = Head(pipe[c]).n,
                                                   !.kind = Head(pipe[c]).kind]
                     ELSE OnToNext
                /\ UNCHANGED <<fd, hung>>
  /\ UNCHANGED <<life, reply, pushed, bounds, clientVars>>

\* All of the message is there.
BodyHere(c) == pipe[c] # <<>>

Gone(c) ==
  /\ thread.at = "rest" /\ thread.cur = c /\ ~BodyHere(c) /\ hung[c] /\ Drop(c)
  /\ UNCHANGED <<life, reply, pushed, bounds, clientVars>>

\* The daemon's process ends, and its connections with it.
Dies ==
  /\ life' = "down" /\ thread' = Off
  /\ Dropped({c \in Clients : fd[c] \in {"backlog", "open"}})

\* The answer to a client that is gone by then is a SIGPIPE, which the daemon does
\* not handle.
BrokenPipe(c) ==
  /\ thread.at = "rest" /\ thread.cur = c /\ BodyHere(c)
  /\ thread.kind = "hello" /\ hung[c] /\ Dies
  /\ UNCHANGED <<reply, pushed, bounds, clientVars>>

\* Another version is refused, in words if it is a greeting.
Refuse(c) ==
  /\ thread.at = "rest" /\ thread.cur = c /\ BodyHere(c) /\ c \notin Current
  /\ ~(thread.kind = "hello" /\ hung[c])
  /\ reply' = [reply EXCEPT ![c] = IF thread.kind = "hello" THEN "refused" ELSE @]
  /\ Drop(c)
  /\ UNCHANGED <<life, pushed, bounds, clientVars>>

\* A greeting is answered.
Welcome(c) ==
  /\ thread.at = "rest" /\ thread.cur = c /\ BodyHere(c) /\ c \in Current
  /\ thread.kind = "hello" /\ ~hung[c]
  /\ reply' = [reply EXCEPT ![c] = "ok"]
  /\ OnToNext /\ Take(c)
  /\ UNCHANGED <<life, fd, hung, pushed, bounds, clientVars>>

\* A command goes to the queue; an unknown type is skipped; a length that is not
\* the type's costs the client its connection.
Handle(c) ==
  /\ thread.at = "rest" /\ thread.cur = c /\ BodyHere(c) /\ c \in Current
  /\ \/ /\ thread.kind = "command" /\ OnToNext /\ Take(c) /\ UNCHANGED <<fd, hung>>
        /\ pushed' = [pushed EXCEPT ![c] = Append(@, thread.n)]
     \/ thread.kind = "unknown" /\ OnToNext /\ Take(c) /\ UNCHANGED <<fd, hung, pushed>>
     \/ thread.kind = "malformed" /\ Drop(c) /\ UNCHANGED pushed
  /\ UNCHANGED <<life, reply, bounds, clientVars>>

\* Mutation: the connections of its clients are left to the process's end.
Closing_None == {}

\* The connections the thread closes on its way out.
Closing == Open

\* Mutation: poll waits for an event without a timeout.
Notices_WithEvent == life # "up" /\ \E c \in Open : Ready(c)

\* The poll's timeout looks at run_.
Notices == life # "up"

ServeEnds ==
  /\ thread.at = "poll" /\ Notices /\ thread' = Off /\ Dropped(Closing)
  /\ UNCHANGED <<life, reply, pushed, bounds, clientVars>>

-----------------------------------------------------------------------------
(* The daemon *)

Start ==
  /\ life = "down" /\ lives < MaxLives /\ lives' = lives + 1
  /\ life' = "up" /\ thread' = [Off EXCEPT !.at = "poll"]
  /\ UNCHANGED <<fd, hung, pipe, reply, pushed, crashes, clientVars>>

\* The clients that wait at the listening socket.
Waiting == {c \in Clients : fd[c] = "backlog"}

\* stop: run_ is cleared and the listening socket closed with whoever waits there.
Stop ==
  /\ life = "up" /\ life' = "stopping" /\ Dropped(Waiting)
  /\ UNCHANGED <<thread, reply, pushed, bounds, clientVars>>
Joined ==
  /\ life = "stopping" /\ thread.at = "off" /\ life' = "down"
  /\ UNCHANGED <<thread, fd, hung, pipe, reply, pushed, bounds, clientVars>>

\* Everything else that ends the process.
Crash ==
  /\ life # "down" /\ crashes < MaxCrashes /\ crashes' = crashes + 1 /\ Dies
  /\ UNCHANGED <<reply, pushed, lives, clientVars>>

-----------------------------------------------------------------------------
Serve ==
  \/ Poll \/ Pick \/ ServeEnds
  \/ \E c \in Clients : RecvHeader(c) \/ Gone(c) \/ BrokenPipe(c) \/ Refuse(c)
                       \/ Welcome(c) \/ Handle(c)
Finish(c) == SendRest(c) \/ Greeted(c) \/ TurnedAway(c)
SocketNext ==
  \/ \E c \in Clients : Connect(c) \/ Quit(c) \/ Finish(c)
                          \/ \E kind \in MsgKinds \cup {"hello"} : SendHeader(c, kind)
  \/ Serve \/ Start \/ Stop \/ Joined \/ Crash
\* The thread runs, and a client that lives finishes the message it is sending.
SocketSpec ==
  /\ SocketInit /\ [][SocketNext]_socketVars
  /\ WF_socketVars(Serve) /\ WF_socketVars(Joined)
  /\ \A c \in Clients : WF_socketVars(Finish(c))

-----------------------------------------------------------------------------
\* The values every variable stays within.
Pieces == [part: {"header", "rest"}, kind: MsgKinds \cup {"hello"}, n: 1..(MaxMessages + 1)]
SocketTypeOK ==
  /\ life \in {"down", "up", "stopping"}
  /\ thread \in [at: {"off", "poll", "each", "header", "rest"}, cur: Clients \cup {"none"},
                 kind: MsgKinds \cup {"hello", "none"}, n: 0..(MaxMessages + 1),
                 todo: SUBSET Clients]
  /\ \A c \in thread.todo \cup ({thread.cur} \ {"none"}) : fd[c] = "open"
  /\ fd \in [Clients -> {"none", "backlog", "open", "dropped"}]
  /\ hung \in [Clients -> BOOLEAN] /\ faulty \in [Clients -> BOOLEAN]
  /\ pipe \in [Clients -> Seq(Pieces)]
  /\ reply \in [Clients -> {"none", "ok", "refused"}]
  /\ client \in [Clients -> {"off", "greet", "mid", "await", "ready"}]
  /\ writing \in [Clients -> MsgKinds \cup {"hello", "none"}]
  /\ written \in [Clients -> 0..MaxMessages] /\ pushed \in [Clients -> Seq(1..MaxMessages)]
  /\ connects \in 0..MaxConnects /\ lives \in 0..MaxLives
  /\ crashes \in 0..MaxCrashes

\* What reaches the queue from a connection is commands its client sent to their
\* last byte, in that order and none twice, though the client may end in the
\* middle of a message and the thread serves others in between.
WholeAndInOrder ==
  \A c \in Clients :
    /\ \A i, j \in DOMAIN pushed[c] : i < j => pushed[c][i] < pushed[c][j]
    /\ \A i \in DOMAIN pushed[c] : pushed[c][i] \in 1..written[c]

\* A running daemon only drops a client that is gone, speaks another version or
\* sent a length that is not its type's: whatever else it sends, the two stay in
\* step about where the next message begins.
StaysInSync ==
  [][\A c \in Current :
       fd[c] = "open" /\ fd'[c] = "dropped" /\ life = "up" /\ life' = "up"
         => faulty[c]]_socketVars

\* A client that greets does not wait for ever: it is accepted, refused, or sees
\* the connection end, wherever the daemon stops or dies.
HandshakeEnds == \A c \in Clients : []<>(client[c] # "await")

\* CtlServer::stop returns, whatever its thread is waiting for, if clients finish
\* or abandon the messages they have begun.
StopReturns == []<>(life # "stopping")

\* The daemon goes on, whatever its clients do: CtlServer says of a control plane
\* that does not work that "the daemon must keep streaming regardless".
OutlivesClients == [][life = "up" => life' # "down"]_socketVars

\* Server and clients agree on the stream of messages: commands arrive whole and
\* in order, and no client that keeps to the protocol is dropped.
SocketInSync == []WholeAndInOrder /\ StaysInSync
=============================================================================
