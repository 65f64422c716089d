------------------------------ MODULE TcpClient ------------------------------
(***************************************************************************)
(* TcpClient.cpp and the loop it lives in: the attempts of its connector   *)
(* (module Connector), the retry timers, the connection that comes of an   *)
(* attempt, the server that answers or does not.                           *)
(*                                                                         *)
(* All of it is called in the loop's thread: a step is one callback, one   *)
(* functor, or one call of the program's between two of them.              *)
(***************************************************************************)
EXTENDS Connector, FiniteSets, SequencesExt, FiniteSetsExt

VARIABLES
  connector,     \* *connector_
  connect_,      \* the client's connect_, not the connector's
  retry_,        \* retry_
  connection_,   \* connection_, by its descriptor, or NoFd
  alive,         \* is there still a TcpClient, and so a connector?
  live,          \* the connections there are, by their descriptors
  held,          \* those to which the program keeps a pointer
  watched,       \* those whose channel epoll watches
  socket,        \* the socket of the attempt
  serverUp,      \* does the server accept connections?
  peerClosed,    \* connections whose peer has closed
  timers,        \* retry timers in the loop's timer set
  expired,       \* has their time come?
  phase,         \* which part of loop() runs: the events or the functors
  active,        \* what epoll reported and is still to be handled ...
  activeConns,   \* ... and of which connections
  pending,       \* pendingFunctors_
  executing,     \* those that doPendingFunctors took and has not run ...
  ran,           \* ... and the connections of those it has
  crashed,       \* the process is gone
  mishap         \* history: something happened that the code cannot survive

clientVars == <<connect_, retry_, connection_, alive>>
connVars == <<live, held, watched>>
peerVars == <<serverUp, peerClosed>>
timerVars == <<timers, expired>>
roundVars == <<phase, active, activeConns, executing, ran>>
vars == <<connector, clientVars, connVars, socket, peerVars, timerVars, roundVars,
          pending, crashed, mishap>>

Functor == [call : Calls \cup {"connectDestroyed"}, conn : Fds \cup {NoFd}]

(* pendingFunctors_ is a sequence of functors; one retry timer is enough.   *)
TypeOK ==
  /\ connector \in ConnectorType /\ connector.queued = <<>>
  /\ {connect_, retry_, alive, serverUp, expired, crashed, mishap} \subseteq BOOLEAN
  /\ connection_ \in live \cup {NoFd}
  /\ live \subseteq Fds /\ held \subseteq live /\ watched \subseteq live
  /\ peerClosed \subseteq live
  /\ socket \in {"none", "pending", "connected", "self", "failed"}
  /\ timers \in 0..1 /\ (expired => timers > 0)
  /\ phase \in {"events", "functors", "ended"}
  /\ active \subseteq {"timer", "OUT", "ERR"} /\ activeConns \subseteq Fds
  /\ pending \in Seq(Functor) /\ executing \in Seq(Functor) /\ ran \subseteq live

Init ==
  /\ connector = NewConnector
  /\ connect_ = TRUE /\ retry_ = FALSE /\ connection_ = NoFd /\ alive = TRUE
  /\ live = {} /\ held = {} /\ watched = {}
  /\ socket = "none" /\ serverUp \in BOOLEAN /\ peerClosed = {}
  /\ timers = 0 /\ expired = FALSE
  /\ phase = "functors" /\ active = {} /\ activeConns = {}
  /\ pending = <<>> /\ executing = <<>> /\ ran = {}
  /\ crashed = FALSE /\ mishap = FALSE

------------------------------------------------------------------------------
(* What a step is made of.                                                  *)

FreeFds == Fds \ (live \cup {connector.sockfd})

(* The connector is c now: what it queued joins pendingFunctors_.           *)
Becomes(c, functors) ==
  /\ connector' = [c EXCEPT !.queued = <<>>]
  /\ pending' = pending \o functors
                  \o [i \in DOMAIN c.queued |-> [call |-> c.queued[i], conn |-> NoFd]]
  /\ crashed' = c.fatal
  /\ socket' = IF c.sockfd = NoFd THEN "none"
               ELSE IF connector.sockfd = NoFd THEN "pending" ELSE socket

Blame(badLuck) == mishap' = (mishap \/ badLuck)

StopQueued ==
  \E f \in ToSet(pending) \cup ToSet(executing) : f.call = "stopInLoop"

(* What an attempt may meet: an answer, and a descriptor to make it with.   *)
Answers == {r \in Results : r = "noDescriptor" <=> FreeFds = {}}
NewFd == IF FreeFds = {} THEN NoFd ELSE Min(FreeFds)
NoHope(result) == result # "inProgress" \/ StopQueued

(* A connection lives as long as connection_, a functor or the program      *)
(* points to it; then its descriptor is closed.                             *)
ConnsOf(functors) == {f.conn : f \in ToSet(functors)}

Referred == {connection_} \cup held \cup ran \cup ConnsOf(pending) \cup ConnsOf(executing)

DeleteUnreferred(conns) ==
  /\ live' = conns \cap Referred'
  /\ watched' = watched \cap live'
  /\ peerClosed' = peerClosed \cap live'

------------------------------------------------------------------------------
(* The program's calls.                                                     *)

(* connect().                                                               *)
ConnectClient ==
  /\ alive /\ phase # "ended"
  /\ connect_' = TRUE
  /\ \E result \in Answers :
       /\ Becomes(Start(connector, result, NewFd), <<>>)
       /\ Blame(NoHope(result) \/ connector.state_ # "kDisconnected")
  /\ UNCHANGED <<retry_, connection_, alive, connVars, peerVars, timerVars, roundVars>>

EnableRetry ==
  /\ alive /\ ~retry_
  /\ retry_' = TRUE
  /\ UNCHANGED <<connector, connect_, connection_, alive, connVars, socket, peerVars,
                 timerVars, roundVars, pending, crashed, mishap>>

(* disconnect(): the connection is shut down, which its peer may answer by  *)
(* closing; an attempt goes on.                                             *)
Disconnect ==
  /\ alive
  /\ connect_' = FALSE
  /\ UNCHANGED <<connector, retry_, connection_, alive, connVars, socket, peerVars,
                 timerVars, roundVars, pending, crashed, mishap>>

(* stop().  Bound: one at a time.                                           *)
StopClient ==
  /\ alive /\ phase # "ended" /\ ~StopQueued
  /\ connect_' = FALSE
  /\ Becomes(Stop(connector), <<>>)
  /\ Blame(connector.state_ = "kConnecting")
  /\ UNCHANGED <<retry_, connection_, alive, connVars, peerVars, timerVars, roundVars>>

(* ~TcpClient.  A connection is left to whoever else points to it, with a   *)
(* callback to this client, or is deleted, even if the round has still to   *)
(* call its channel; without one, a functor is queued that goes to the      *)
(* connector destroyed here.  ~Connector asserts that it has no channel.    *)
Destroy ==
  /\ alive
  /\ alive' = FALSE /\ connection_' = NoFd
  /\ Becomes(LET c == IF connection_ = NoFd THEN Stop(connector) ELSE connector
             IN  IF c.channel_ = "null" THEN c ELSE Fatal(c), <<>>)
  /\ Blame(\/ connector.channel_ # "null"
           \/ StopQueued
           \/ phase # "ended" /\ connection_ \in {NoFd} \cup held \cup activeConns)
  /\ UNCHANGED <<connect_, retry_, held, serverUp, timerVars, roundVars>>
  /\ DeleteUnreferred(live)

(* The program gives up a pointer, the last one perhaps.                    *)
UserDrops(fd) ==
  /\ fd \in held
  /\ held' = held \ {fd}
  /\ UNCHANGED <<connector, clientVars, socket, serverUp, timerVars, roundVars, pending,
                 crashed, mishap>>
  /\ DeleteUnreferred(live)

------------------------------------------------------------------------------
(* The server and the network.                                              *)

(* An attempt ends; on the loopback it may have met itself.                 *)
Resolve ==
  /\ socket = "pending"
  /\ socket' \in IF serverUp THEN {"connected"} ELSE {"failed", "self"}
  /\ Blame(socket' = "self")
  /\ UNCHANGED <<connector, clientVars, connVars, peerVars, timerVars, roundVars, pending,
                 crashed>>

(* The server resets a connection that nobody has taken over yet: the loop  *)
(* may be about to call handleWrite() for it.                               *)
SocketFails ==
  /\ socket = "connected" /\ ~serverUp
  /\ socket' = "failed"
  /\ Blame("OUT" \in active)
  /\ UNCHANGED <<connector, clientVars, connVars, peerVars, timerVars, roundVars, pending,
                 crashed>>

ServerChanges ==
  /\ serverUp' = ~serverUp
  /\ UNCHANGED <<connector, clientVars, connVars, socket, peerClosed, timerVars,
                 roundVars, pending, crashed, mishap>>

(* A FIN or a reset that epoll reports (a FIN is not reported when a        *)
(* backlog has drained, see TcpServer).  What comes after epoll_wait()      *)
(* returned is for the next round.                                          *)
PeerCloses(fd) ==
  /\ fd \in watched \ (peerClosed \cup activeConns)
  /\ peerClosed' = peerClosed \cup {fd}
  /\ UNCHANGED <<connector, clientVars, connVars, socket, serverUp, timerVars, roundVars,
                 pending, crashed, mishap>>

TimerExpires ==
  /\ timers > 0 /\ ~expired
  /\ expired' = TRUE
  /\ UNCHANGED <<connector, clientVars, connVars, socket, peerVars, timers, roundVars,
                 pending, crashed, mishap>>

------------------------------------------------------------------------------
(* The loop.                                                                *)

Poll ==
  /\ phase = "functors" /\ executing = <<>>
  /\ phase' = "events"
  /\ active' = {e \in {"timer", "OUT", "ERR"} :
                  \/ e = "timer" /\ expired
                  \/ e = "OUT" /\ socket \in {"connected", "self"}
                  \/ e = "ERR" /\ socket = "failed"}
  /\ \E others \in SUBSET watched : activeConns' = others \cup (peerClosed \cap watched)
  /\ UNCHANGED <<connector, clientVars, connVars, socket, peerVars, timerVars, pending,
                 executing, ran, crashed, mishap>>

(* The connector's handleWrite, and newConnection when it is called: the    *)
(* connection callback may keep a pointer.                                  *)
HandleWritable ==
  /\ phase = "events" /\ "OUT" \in active
  /\ active' = active \ {"OUT"}
  /\ Becomes(HandleWrite(connector, socket), <<>>)
  /\ IF HandsOver(connector, socket)
     THEN LET fd == connector.sockfd IN
          /\ connection_' = fd
          /\ live' = live \cup {fd} /\ watched' = watched \cup {fd}
          /\ held' \in {held, held \cup {fd}}
     ELSE UNCHANGED <<connection_, connVars>>
  /\ UNCHANGED <<connect_, retry_, alive, peerVars, timerVars, phase, activeConns,
                 executing, ran, mishap>>

HandleFailure ==
  /\ phase = "events" /\ "ERR" \in active
  /\ active' = active \ {"ERR"}
  /\ Becomes(HandleError(connector), <<>>)
  /\ UNCHANGED <<clientVars, connVars, peerVars, timerVars, phase, activeConns, executing,
                 ran, mishap>>

(* Mutation: a connection that disconnect() ended is made again.            *)
WantsAnotherAlways == retry_

WantsAnother == retry_ /\ connect_

(* TcpConnection::handleClose and removeConnection.  A connection that is   *)
(* not connection_ fails the assertion; a client or a connection destroyed  *)
(* is used after that.                                                      *)
HandleClose(fd) ==
  /\ phase = "events" /\ fd \in activeConns \cap peerClosed
  /\ activeConns' = activeConns \ {fd}
  /\ connection_' = NoFd
  /\ watched' = watched \ {fd}
  /\ LET c == IF alive /\ fd \in live /\ connection_ = fd THEN connector
              ELSE Fatal(connector)
         functors == <<[call |-> "connectDestroyed", conn |-> fd]>>
     IN  IF WantsAnother
         THEN \E result \in Answers :
                Becomes(Restart(c, result, NewFd), functors) /\ Blame(NoHope(result))
         ELSE Becomes(c, functors) /\ UNCHANGED mishap
  /\ UNCHANGED <<connect_, retry_, alive, live, held, peerVars, timerVars, phase, active,
                 executing, ran>>

(* TcpConnection::handleRead: the message callback; or handleWrite.  The    *)
(* channel of a connection deleted in this round is gone.                   *)
HandleMessage(fd) ==
  /\ phase = "events" /\ fd \in activeConns \ peerClosed
  /\ activeConns' = activeConns \ {fd}
  /\ Becomes(IF fd \in live THEN connector ELSE Fatal(connector), <<>>)
  /\ UNCHANGED <<clientVars, connVars, peerVars, timerVars, phase, active, executing, ran,
                 mishap>>

(* Connector::retry's timer holds a weak pointer.                           *)
TimerFires ==
  /\ phase = "events" /\ "timer" \in active
  /\ timers' = timers - 1 /\ expired' = (timers' > 0)
  /\ active' = IF timers' = 0 THEN active \ {"timer"} ELSE active
  /\ IF alive
     THEN \E result \in Answers :
            Becomes(Connect(connector, result, NewFd), <<>>) /\ Blame(NoHope(result))
     ELSE UNCHANGED <<connector, pending, crashed, socket, mishap>>
  /\ UNCHANGED <<clientVars, connVars, peerVars, phase, activeConns, executing, ran>>

DoPendingFunctors ==
  /\ phase = "events" /\ active = {} /\ activeConns = {}
  /\ phase' = "functors"
  /\ executing' = pending /\ pending' = <<>>
  /\ UNCHANGED <<connector, clientVars, connVars, socket, peerVars, timerVars, active,
                 activeConns, ran, crashed, mishap>>

(* The connector that stopInLoop() or resetChannel() is called of may have  *)
(* been destroyed.                                                          *)
RunFunctor ==
  /\ phase = "functors" /\ executing # <<>>
  /\ executing' = Tail(executing)
  /\ LET functor == Head(executing)
     IN  /\ ran' = IF executing' = <<>> THEN {} ELSE ran \cup ({functor.conn} \ {NoFd})
         /\ Becomes(CASE functor.call \in {"stopInLoop", "resetChannel"} /\ ~alive ->
                              Fatal(connector)
                      [] functor.call = "stopInLoop" /\ alive -> StopInLoop(connector)
                      [] functor.call = "resetChannel" /\ alive -> ResetChannel(connector)
                      [] OTHER -> connector, <<>>)
         /\ timers' = timers + (IF functor.call = "insertTimer" THEN 1 ELSE 0)
  /\ UNCHANGED <<clientVars, held, serverUp, expired, phase, active, activeConns, mishap>>
  /\ DeleteUnreferred(live)

(* EventLoop::quit: the loop ends with the round.                           *)
Quit ==
  /\ phase = "functors" /\ executing = <<>>
  /\ phase' = "ended"
  /\ UNCHANGED <<connector, clientVars, connVars, socket, peerVars, timerVars, active,
                 activeConns, pending, executing, ran, crashed, mishap>>

LoopStep ==
  /\ ~crashed
  /\ \/ Poll \/ HandleWritable \/ HandleFailure \/ TimerFires
     \/ \E fd \in Fds : HandleClose(fd) \/ HandleMessage(fd)
     \/ DoPendingFunctors \/ RunFunctor

UserCall ==
  /\ ~crashed
  /\ \/ ConnectClient \/ EnableRetry \/ Disconnect \/ StopClient \/ Destroy
     \/ \E fd \in Fds : UserDrops(fd)

Network ==
  /\ ~crashed
  /\ \/ Resolve \/ SocketFails \/ ServerChanges \/ TimerExpires
     \/ \E fd \in Fds : PeerCloses(fd)

Next == LoopStep \/ UserCall \/ Network \/ Quit

Spec == Init /\ [][Next]_vars

(* The loop goes round, an attempt has some answer, time passes.            *)
FairSpec ==
  /\ Spec
  /\ WF_vars(LoopStep)
  /\ WF_vars(~crashed /\ Resolve)
  /\ WF_vars(~crashed /\ TimerExpires)

------------------------------------------------------------------------------
(* Properties.                                                              *)

(* Connector::handleError, retry(), removeConnection: a client in a process *)
(* that has descriptors and is told to wait by every connect() survives     *)
(* any number of refused attempts, closed connections and restarts: only    *)
(* the mishaps end it, a stop() while it connects, a connect() while it is  *)
(* not disconnected, an attempt that fails at once or between epoll_wait()  *)
(* and handleWrite(), a destruction while its connector has a channel or a  *)
(* stopInLoop() is queued, or one before the loop has ended while it has no *)
(* connection, or one that can still call back or is still to be called.    *)
SurvivesRefusals == crashed => mishap

(* removeAndResetChannel: a channel is not deleted while epoll watches it,  *)
(* and the resetChannel() that an attempt queued never hits the channel of  *)
(* the next one.                                                            *)
ResetsOwnChannel ==
  [][connector.channel_ = "added" => connector'.channel_ # "null"]_connector

(* handleWrite, newConnection, removeConnection: while there is a           *)
(* connection_ there is no attempt, so that the assertion in                *)
(* removeConnection, connection_ == conn, holds of every close.  retry():   *)
(* no descriptor belongs to both, and between two attempts, and when there  *)
(* is none, the connector has no descriptor.                                *)
AttemptOrConnection ==
  ~crashed =>
    /\ connection_ # NoFd => connector.state_ = "kConnected" /\ connection_ \in watched
    /\ alive => watched \subseteq {connection_}
    /\ connector.sockfd \notin live
    /\ connector.channel_ = "null" => connector.sockfd = NoFd

(* removeConnection and connect(): an attempt begins when the program calls *)
(* connect(), or when a connection ends after enableRetry() and connect()   *)
(* with no disconnect() or stop() since; no functor and no other close      *)
(* begins one.  (An attempt that failed waits for its timer as kConnecting: *)
(* disconnect() then does not prevent the next try, Connector.cpp:197.)     *)
BeginsWhenAsked ==
  [][connector.state_ # "kConnecting" /\ connector'.state_ = "kConnecting"
       => ConnectClient \/ (retry_ /\ connect_)]_vars

(* retry() and its timer: once connecting, a client does connect unless the *)
(* server goes down or stays down, or the loop or the client ends.          *)
ConnectsWhenServerIsUp ==
  connector.state_ = "kConnecting"
    ~> \/ connector.state_ = "kConnected"
       \/ ~serverUp \/ mishap \/ ~alive \/ phase = "ended"
==============================================================================
