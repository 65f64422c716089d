------------------------------ MODULE TcpServer ------------------------------
(***************************************************************************)
(* TcpServer.cpp, Acceptor.cpp and EventLoopThreadPoll.cpp: connections    *)
(* from accept() to the close of their descriptor, and who refers to each: *)
(* connections_, the functors of the loop, the program, the poller.        *)
(*                                                                         *)
(* What happens inside a connection is in TcpConnection; here it has       *)
(* messages, and output whose backlog may drain, until its peer closes.    *)
(* setThreadNum() has no effect, so one loop, the base loop, serves the    *)
(* acceptor and every connection.                                          *)
(***************************************************************************)
EXTENDS Integers, FiniteSets, Sequences, SequencesExt, FiniteSetsExt

CONSTANTS MaxConns,    \* clients that connect
          MaxFds,      \* descriptors the process may have for them
          MaxThreads   \* the most setThreadNum() is called with

ASSUME ConstantsAssumption ==
  /\ MaxConns \in Nat
  /\ MaxFds \in Nat \ {0}
  /\ MaxThreads \in Nat

Conns == 1..MaxConns           \* a connection is its number in its name
Fds == 1..MaxFds
None == 0
BaseLoop == 0

VARIABLES
  numThreads_, loops_, next_,  \* EventLoopThreadPoll
  requested,     \* what setThreadNum() was last called with
  listening,     \* is the acceptor's channel registered?
  serverAlive,   \* is there still a TcpServer?
  nextConnId_,   \* nextConnId_
  connections_,  \* connections_, the connections in it
  live,          \* the TcpConnection objects there are
  fd,            \* the descriptor of each
  held,          \* those to which the program keeps a pointer
  channels_,     \* the poller's map of descriptors to channels
  enabled,       \* the connections whose channel epoll watches ...
  deaf,          \* ... and those of them it no longer watches for input
  active,        \* activeChannels_ still to be called; None is the acceptor
  seenClosed,    \* those of them whose revents_ tell of the peer's close
  phase,         \* which part of loop() runs: the events or the functors
  pending,       \* pendingFunctors_: connectDestroyed of these
  executing,     \* those that doPendingFunctors took and has not run ...
  ran,           \* ... and those it has, in its vector until it returns
  backlog,       \* clients that wait for accept()
  peerClosed,    \* connections whose peer has closed ...
  peerReset,     \* ... and those of them whose peer has reset, too
  rash           \* history: a callback destroyed the server too early

poolVars == <<numThreads_, loops_, next_, requested>>
serverVars == <<listening, serverAlive, nextConnId_>>
connVars == <<connections_, live, fd, held>>
pollVars == <<channels_, enabled, deaf>>
loopVars == <<active, seenClosed, phase, pending, executing, ran>>
peerVars == <<backlog, peerClosed, peerReset>>
vars == <<poolVars, serverVars, connVars, pollVars, loopVars, peerVars, rash>>

TypeOK ==
  /\ numThreads_ \in 0..MaxThreads /\ requested \in 0..MaxThreads
  /\ loops_ \in Seq(1..MaxThreads) /\ next_ \in 0..MaxThreads
  /\ listening \in BOOLEAN /\ serverAlive \in BOOLEAN
  /\ nextConnId_ \in 1..(MaxConns + 1)
  /\ connections_ \subseteq live /\ held \subseteq live
  /\ enabled \subseteq live /\ deaf \subseteq enabled
  /\ live \subseteq 1..(nextConnId_ - 1)
  /\ fd \in [Conns -> Fds \cup {None}]
  /\ \A i, j \in live : fd[i] # None /\ (fd[i] = fd[j] => i = j)
  /\ channels_ \in [Fds -> Conns \cup {None}]
  /\ active \subseteq Conns \cup {None} /\ seenClosed \subseteq active \ {None}
  /\ phase \in {"events", "functors", "ended"}
  /\ pending \in Seq(Conns) /\ executing \in Seq(Conns) /\ ran \subseteq live
  /\ backlog \in 0..MaxConns /\ rash \in BOOLEAN
  /\ peerClosed \subseteq Conns /\ peerReset \subseteq peerClosed

Init ==
  /\ numThreads_ = 0 /\ loops_ = <<>> /\ next_ = 0 /\ requested = 0
  /\ listening = FALSE /\ serverAlive = TRUE /\ nextConnId_ = 1
  /\ connections_ = {} /\ live = {} /\ held = {}
  /\ fd = [i \in Conns |-> None]
  /\ channels_ = [f \in Fds |-> None] /\ enabled = {} /\ deaf = {}
  /\ active = {} /\ seenClosed = {} /\ phase = "functors"
  /\ pending = <<>> /\ executing = <<>> /\ ran = {}
  /\ backlog = 0 /\ peerClosed = {} /\ peerReset = {} /\ rash = FALSE

------------------------------------------------------------------------------
(* EventLoopThreadPoll.                                                     *)

(* setThreadNum: setTheadNum assigns to its parameter.                      *)
SetThreadNum(n) ==
  /\ ~listening /\ serverAlive
  /\ requested' = n
  /\ numThreads_' = numThreads_
  /\ UNCHANGED <<loops_, next_, serverVars, connVars, pollVars, loopVars, peerVars>>

(* TcpServer::start: the pool, and Acceptor::listen.                        *)
Start ==
  /\ ~listening /\ serverAlive
  /\ loops_' = [i \in 1..numThreads_ |-> i]
  /\ listening' = TRUE
  /\ UNCHANGED <<numThreads_, next_, requested, serverAlive, nextConnId_, connVars,
                 pollVars, loopVars, peerVars>>

(* getNextLoop.                                                             *)
GetNextLoop ==
  IF loops_ = <<>> THEN BaseLoop ELSE loops_[next_ + 1]

AdvanceLoop ==
  next_' = IF loops_ = <<>> THEN next_
           ELSE IF next_ + 1 >= Len(loops_) THEN 0 ELSE next_ + 1

------------------------------------------------------------------------------
(* A TcpConnection lives as long as connections_, a functor or the program  *)
(* points to it, and closes its descriptor when it is deleted; epoll drops  *)
(* a closed descriptor by itself, the poller's map does not.                *)
Referred == connections_ \cup held \cup ToSet(pending) \cup ToSet(executing) \cup ran

DeleteUnreferred(watched) ==
  /\ live' = live \cap Referred'
  /\ enabled' = watched \cap live'
  /\ deaf' = deaf \cap enabled'

(* Mutation: the entry of the descriptor before is erased.                  *)
ConnectDestroyedOffByOne(conns) ==
  channels_' = [f \in Fds |-> IF \E i \in conns : fd[i] - 1 = f THEN None ELSE channels_[f]]

(* TcpConnection::connectDestroyed: the channel leaves the poller.          *)
ConnectDestroyed(conns) ==
  channels_' = [f \in Fds |-> IF \E i \in conns : fd[i] = f THEN None ELSE channels_[f]]

(* Mutation: a descriptor is given back when the server forgets it.         *)
FreeFdsOfListed == Fds \ {fd[i] : i \in connections_}

FreeFds == Fds \ {fd[i] : i \in live}

(* TcpServer::newConnection and TcpConnection::connectEstablished; the      *)
(* connection callback may keep a pointer.                                  *)
NewConnection(conn, connfd) ==
  /\ nextConnId_' = conn + 1
  /\ GetNextLoop = BaseLoop /\ AdvanceLoop
  /\ connections_' = connections_ \cup {conn}
  /\ live' = live \cup {conn}
  /\ fd' = [fd EXCEPT ![conn] = connfd]
  /\ channels_' = [channels_ EXCEPT ![connfd] = conn]
  /\ enabled' = enabled \cup {conn} /\ deaf' = deaf
  /\ \/ held' = held
     \/ held' = held \cup {conn}

(* Mutation: with no descriptor the acceptor stops listening.               *)
AcceptFailsForGood ==
  /\ listening' = FALSE
  /\ UNCHANGED <<connVars, pollVars, backlog, nextConnId_, next_>>

(* accept() fails: that is logged.                                          *)
AcceptFails ==
  UNCHANGED <<listening, connVars, pollVars, backlog, nextConnId_, next_>>

(* Acceptor::handleRead.  Without a descriptor accept() fails, which is     *)
(* logged; the client still waits, so the listening socket is ready again   *)
(* in the next round.                                                       *)
HandleAccept ==
  /\ phase = "events" /\ None \in active /\ listening
  /\ active' = active \ {None}
  /\ \/ /\ FreeFds # {} /\ backlog > 0
        /\ NewConnection(nextConnId_, Min(FreeFds))
        /\ backlog' = backlog - 1
        /\ UNCHANGED listening
     \/ (FreeFds = {} \/ backlog = 0) /\ AcceptFails
  /\ UNCHANGED <<numThreads_, loops_, requested, serverAlive, seenClosed, phase, pending,
                 executing, ran, peerClosed, peerReset>>

(* Mutation: connectDestroyed is not queued.                                *)
RemoveConnectionUndestroyed(i) ==
  /\ connections_' = connections_ \ {i}
  /\ pending' = pending

(* Mutation: connections_ keeps it.                                         *)
RemoveConnectionUnerased(i) ==
  /\ connections_' = connections_
  /\ pending' = Append(pending, i)

(* removeConnectionInLoop.                                                  *)
RemoveConnection(i) ==
  /\ connections_' = connections_ \ {i}
  /\ pending' = Append(pending, i)

(* TcpConnection::handleClose, when the peer has closed.                    *)
HandleClose(i) ==
  /\ phase = "events" /\ i \in seenClosed /\ i \in live
  /\ serverAlive
  /\ active' = active \ {i} /\ seenClosed' = seenClosed \ {i}
  /\ RemoveConnection(i)
  /\ UNCHANGED <<poolVars, serverVars, fd, held, channels_, phase, executing, ran,
                 peerVars>>
  /\ DeleteUnreferred(enabled \ {i})

(* TcpConnection::handleRead: the message callback; or handleWrite that     *)
(* leaves a backlog or finds none.                                          *)
HandleMessage(i) ==
  /\ phase = "events" /\ i \in active \ seenClosed /\ i \in live
  /\ active' = active \ {i}
  /\ UNCHANGED <<poolVars, serverVars, connVars, pollVars, seenClosed, phase, pending,
                 executing, ran, peerVars>>

(* TcpConnection::handleWrite when the last of a backlog is written, after  *)
(* a message perhaps: it is reading that is disabled.                       *)
BacklogDrains(i) ==
  /\ phase = "events" /\ i \in active \ seenClosed /\ i \in enabled \ deaf
  /\ active' = active \ {i}
  /\ deaf' = deaf \cup {i}
  /\ UNCHANGED <<poolVars, serverVars, connVars, channels_, enabled, seenClosed, phase,
                 pending, executing, ran, peerVars>>

(* ~TcpServer: connectDestroyed at once for each connection; ~Acceptor.     *)
Destructor ==
  /\ serverAlive' = FALSE /\ listening' = FALSE
  /\ connections_' = {}
  /\ ConnectDestroyed(connections_)
  /\ UNCHANGED <<poolVars, nextConnId_, fd, held, seenClosed, phase, pending, executing,
                 ran, peerVars>>
  /\ DeleteUnreferred(enabled \ connections_)

(* A message callback destroys the server it is called for.  The pointer    *)
(* that handleEvent gets from tie_ keeps the connection until the handler   *)
(* returns.  This is rash if the acceptor's channel waits to be called, or  *)
(* that of a connection to which nobody but the server points, or that of   *)
(* one which will then tell the server that it is closed.                   *)
MessageDestroysServer(i) ==
  /\ phase = "events" /\ i \in active \ seenClosed /\ i \in live
  /\ i \notin deaf /\ serverAlive
  /\ active' = active \ {i}
  /\ rash' = (active' \cap ({None} \cup (connections_ \ held) \cup seenClosed) # {})
  /\ Destructor

(* The server is destroyed when its loop is over.                           *)
DestroyServer ==
  /\ phase = "ended" /\ serverAlive
  /\ Destructor
  /\ UNCHANGED active

------------------------------------------------------------------------------
(* The loop.                                                                *)

(* epoll_wait reports a close as input, for which EPOLLRDHUP is not asked,  *)
(* and a reset as EPOLLHUP, which need not be asked for.                    *)
Noticeable == (peerClosed \ deaf) \cup peerReset

Poll ==
  /\ phase = "functors" /\ executing = <<>>
  /\ phase' = "events"
  /\ seenClosed' = enabled \cap Noticeable
  /\ \E others \in SUBSET enabled :
       active' = others \cup seenClosed' \cup {c \in {None} : listening /\ backlog > 0}
  /\ UNCHANGED <<poolVars, serverVars, connVars, pollVars, pending, executing, ran,
                 peerVars>>

DoPendingFunctors ==
  /\ phase = "events" /\ active = {}
  /\ phase' = "functors"
  /\ executing' = pending /\ pending' = <<>>
  /\ UNCHANGED <<poolVars, serverVars, connVars, pollVars, active, seenClosed, ran,
                 peerVars>>

RunFunctor ==
  /\ phase = "functors" /\ executing # <<>>
  /\ executing' = Tail(executing)
  /\ ran' = IF executing' = <<>> THEN {} ELSE ran \cup {Head(executing)}
  /\ ConnectDestroyed({Head(executing)})
  /\ UNCHANGED <<poolVars, serverVars, connections_, fd, held, active, seenClosed, phase,
                 pending, peerVars>>
  /\ DeleteUnreferred(enabled \ {Head(executing)})

(* EventLoop::quit: the loop ends with the round.                           *)
Quit ==
  /\ phase = "functors" /\ executing = <<>>
  /\ phase' = "ended"
  /\ UNCHANGED <<poolVars, serverVars, connVars, pollVars, active, seenClosed, pending,
                 executing, ran, peerVars>>

------------------------------------------------------------------------------
(* The clients and the program.                                             *)

ClientConnects ==
  /\ listening /\ backlog + nextConnId_ <= MaxConns
  /\ backlog' = backlog + 1
  /\ UNCHANGED <<poolVars, serverVars, connVars, pollVars, loopVars, peerClosed,
                 peerReset>>

(* A FIN arrives, and all that was sent before it has been read.            *)
PeerCloses(i) ==
  /\ i \in live /\ i \notin peerClosed
  /\ peerClosed' = peerClosed \cup {i}
  /\ UNCHANGED <<poolVars, serverVars, connVars, pollVars, loopVars, backlog, peerReset>>

(* A reset arrives, and handleError has taken the error that comes with it. *)
PeerResets(i) ==
  /\ i \in live /\ i \notin peerReset
  /\ peerClosed' = peerClosed \cup {i} /\ peerReset' = peerReset \cup {i}
  /\ UNCHANGED <<poolVars, serverVars, connVars, pollVars, loopVars, backlog>>

(* The program gives up a pointer, the last one perhaps; but not the one    *)
(* that keeps a connection still to be called.                              *)
UserDrops(i) ==
  /\ i \in held
  /\ serverAlive \/ i \notin active
  /\ held' = held \ {i}
  /\ UNCHANGED <<poolVars, serverVars, connections_, fd, channels_, loopVars, peerVars>>
  /\ DeleteUnreferred(enabled)

LoopStep ==
  \/ Poll \/ DoPendingFunctors \/ RunFunctor \/ HandleAccept
  \/ \E i \in Conns : HandleClose(i) \/ HandleMessage(i) \/ BacklogDrains(i)

(* What follows a rash destruction is undefined.                            *)
Next ==
  /\ ~rash
  /\ \/ /\ \/ \E n \in 1..MaxThreads : SetThreadNum(n)
           \/ Start \/ ClientConnects \/ LoopStep
           \/ \E i \in Conns : PeerCloses(i) \/ PeerResets(i) \/ UserDrops(i)
           \/ Quit \/ DestroyServer
        /\ UNCHANGED rash
     \/ \E i \in Conns : MessageDestroysServer(i)

Spec == Init /\ [][Next]_vars

(* The loop goes round, every peer closes some time, and the program keeps  *)
(* no pointer for ever.                                                     *)
FairSpec ==
  /\ Spec
  /\ WF_vars(~rash /\ LoopStep /\ UNCHANGED rash)
  /\ \A i \in Conns : /\ WF_vars(~rash /\ PeerCloses(i) /\ UNCHANGED rash)
                      /\ WF_vars(~rash /\ UserDrops(i) /\ UNCHANGED rash)

------------------------------------------------------------------------------
(* Properties.                                                              *)

Closing == ToSet(pending) \cup ToSet(executing)

(* removeConnectionInLoop queues connectDestroyed with the last pointer to  *)
(* the connection: neither the poller's map nor activeChannels_ ever holds  *)
(* the channel of a deleted connection or acceptor.  Nor does either when a *)
(* callback destroys the server, unless it is rash.                         *)
NoDanglingChannel ==
  ~rash =>
    /\ \A f \in Fds : channels_[f] \in live \cup {None}
    /\ active \subseteq live \cup {None}
    /\ None \in active => serverAlive

(* newConnection, removeConnection and connectDestroyed: the server's map   *)
(* and the poller's agree, though descriptors are used again: the channel   *)
(* of a connection in connections_ is watched, that of one to be destroyed  *)
(* is known and not watched, and there is no other.                         *)
ServerAndPollerAgree ==
  /\ \A i \in connections_ : channels_[fd[i]] = i /\ i \in enabled
  /\ \A i \in Closing : i \in live /\ channels_[fd[i]] = i /\ i \notin enabled
  /\ \A f \in Fds : channels_[f] \in connections_ \cup Closing \cup {None}
  /\ connections_ \cap Closing = {}

(* A connection whose peer has closed is deleted, and so its descriptor is  *)
(* free again, unless the loop ends first.  One that no longer reads, since *)
(* a backlog of its output has drained (TcpConnection.cpp:190), is deleted  *)
(* only if its peer resets: of a close it is never told.                    *)
ClosedIsDeleted ==
  \A i \in Conns :
    /\ i \in peerReset ~> i \notin live \/ phase = "ended" \/ rash
    /\ i \in peerClosed ~> i \notin live \/ i \in deaf \/ phase = "ended" \/ rash

(* Connections that nobody will ever close have all the descriptors.        *)
Exhausted ==
  \A f \in Fds : \E i \in deaf : fd[i] = f /\ i \in peerClosed \ peerReset

(* Acceptor::handleRead: a client that came when the process had no         *)
(* descriptor left is accepted when there is one, and there will be one     *)
(* unless each is kept by a connection that is not told of its peer's close.*)
WaitingClientIsAccepted ==
  backlog > 0 ~> backlog = 0 \/ phase = "ended" \/ ~serverAlive \/ Exhausted

==============================================================================
