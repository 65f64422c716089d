------------------------------ MODULE Connector ------------------------------
(***************************************************************************)
(* Connector.cpp: a connector is a record, its methods are functions of    *)
(* it, composed as the code calls them.  What it queues in its loop is     *)
(* left in `queued` for whoever runs the loop (module TcpClient).          *)
(*                                                                         *)
(* Every call that fails an assertion, goes through a null pointer or ends *)
(* in LOG_FATAL sets `fatal`: the process is gone.  How long a retry waits *)
(* is not modelled.                                                        *)
(***************************************************************************)
EXTENDS Naturals, Sequences

CONSTANT MaxFds            \* descriptors the process may have

ASSUME MaxFdsAssumption == MaxFds \in Nat \ {0}

Fds == 1..MaxFds
NoFd == 0

States == {"kDisconnected", "kConnecting", "kConnected"}

Calls == {"stopInLoop", "resetChannel", "insertTimer"}

ConnectorType ==
  [connect_ : BOOLEAN,
   state_   : States,
   channel_ : {"null", "added", "removed"},  \* removed: of a fd not in the poller
   sockfd   : Fds \cup {NoFd},               \* channel_'s fd, until it is given away
   queued   : Seq(Calls),                    \* queueInLoop of this call
   fatal    : BOOLEAN]

NewConnector ==
  [connect_ |-> FALSE, state_ |-> "kDisconnected", channel_ |-> "null",
   sockfd |-> NoFd, queued |-> <<>>, fatal |-> FALSE]

Fatal(c) == [c EXCEPT !.fatal = TRUE]
Queue(c, call) == [c EXCEPT !.queued = Append(@, call)]

(* sockets::close.                                                          *)
Close(c) == [c EXCEPT !.sockfd = NoFd]

ResetChannel(c) == [c EXCEPT !.channel_ = "null"]

(* Mutation: the channel is deleted at once.                                *)
RemoveAndDeleteChannel(c) ==
  IF c.channel_ = "null" THEN Fatal(c) ELSE ResetChannel(c)

(* On a channel that is already removed, disableAll adds the fd again and   *)
(* remove takes it out: epoll_ctl fails if the fd has been closed.          *)
RemoveAndResetChannel(c) ==
  IF c.channel_ = "null" \/ (c.channel_ = "removed" /\ c.sockfd = NoFd)
  THEN Fatal(c)
  ELSE Queue([c EXCEPT !.channel_ = "removed"], "resetChannel")

(* Mutation: the descriptor is not closed.                                  *)
RetryLeaking(c) == Queue(RemoveAndResetChannel(c), "insertTimer")

(* Mutation: two timers.                                                    *)
RetryTwice(c) ==
  Queue(Queue(Close(RemoveAndResetChannel(c)), "insertTimer"), "insertTimer")

(* The channel is removed here, whether or not the caller has done so.      *)
Retry(c) == Queue(Close(RemoveAndResetChannel(c)), "insertTimer")

Connecting(c, fd) ==
  IF c.channel_ # "null" THEN Fatal(c)
  ELSE [c EXCEPT !.state_ = "kConnecting", !.channel_ = "added", !.sockfd = fd]

(* What connect() may answer: wait; "refused" (EAGAIN, EADDRINUSE,          *)
(* EADDRNOTAVAIL, ECONNREFUSED, ENETUNREACH); any other error.  It is not   *)
(* asked when createNonblockingOrDie gets no descriptor.                    *)
Results == {"inProgress", "refused", "error", "noDescriptor"}

Connect(c, result, fd) ==
  CASE result = "inProgress"   -> Connecting(c, fd)
    [] result = "refused"      -> Retry(c)
    [] result = "error"        -> c
    [] result = "noDescriptor" -> Fatal(c)

StartInLoop(c, result, fd) ==
  IF c.state_ # "kDisconnected" THEN Fatal(c)
  ELSE IF c.connect_ THEN Connect(c, result, fd) ELSE c

Start(c, result, fd) == StartInLoop([c EXCEPT !.connect_ = TRUE], result, fd)

Restart(c, result, fd) ==
  StartInLoop([c EXCEPT !.state_ = "kDisconnected", !.connect_ = TRUE], result, fd)

Stop(c) == Queue([c EXCEPT !.connect_ = FALSE], "stopInLoop")

StopInLoop(c) ==
  IF c.state_ # "kConnecting" THEN c
  ELSE Retry(Close(RemoveAndResetChannel([c EXCEPT !.state_ = "kDisconnected"])))

(* What the socket says of itself now, whatever epoll_wait() said of it.    *)
GetSocketError(socket) == socket = "failed"
IsSelfConnect(socket) == socket = "self"

(* Does handleWrite() call newConnectionCallback_?                          *)
HandsOver(c, socket) ==
  /\ c.state_ = "kConnecting" /\ c.connect_
  /\ ~GetSocketError(socket) /\ ~IsSelfConnect(socket)

(* Mutation: the state is left as it was.                                   *)
HandleWriteStateless(c, socket) ==
  IF HandsOver(c, socket) THEN Close(RemoveAndResetChannel(c)) ELSE c

HandleWrite(c, socket) ==
  LET removed == RemoveAndResetChannel(c) IN
  CASE c.state_ # "kConnecting" -> c
    [] HandsOver(c, socket) -> Close([removed EXCEPT !.state_ = "kConnected"])
    [] OTHER -> Retry(Close(removed))

(* Mutation: the descriptor is closed first, as handleWrite does.           *)
HandleErrorClosing(c) ==
  IF c.state_ # "kConnecting" THEN c ELSE Retry(Close(RemoveAndResetChannel(c)))

(* Mutation: only the channel is removed.                                   *)
HandleErrorGivingUp(c) ==
  IF c.state_ # "kConnecting" THEN c ELSE Close(RemoveAndResetChannel(c))

HandleError(c) ==
  IF c.state_ # "kConnecting" THEN c ELSE Retry(RemoveAndResetChannel(c))
==============================================================================
