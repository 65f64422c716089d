---------------------------- MODULE TcpConnection ----------------------------
(***************************************************************************)
(* TcpConnection.cpp and Channel::handleEvent: one connection, from        *)
(* connectEstablished to connectDestroyed, with the kernel's socket and    *)
(* the peer behind it, on the loop that serves it.  The program calls      *)
(* send() and shutdown() between any two handlers, which includes the end  *)
(* of a callback.                                                          *)
(*                                                                         *)
(* The bytes the program sends are numbered 1, 2, ...                      *)
(***************************************************************************)
EXTENDS Channel, Integers, Sequences

CONSTANTS MaxSent,        \* bytes the program sends
          SendBuffer,     \* bytes the kernel holds for the peer
          highWaterMark,  \* highWaterMark_
          MaxInbound      \* bytes the peer sends

ASSUME ConstantsAssumption ==
  /\ MaxSent \in Nat
  /\ SendBuffer \in Nat \ {0}
  /\ highWaterMark \in Nat \ {0}
  /\ MaxInbound \in Nat

VARIABLES
  state_,       \* state_
  ch,           \* channel_, see Channel
  output,       \* outputBuffer_
  registered,   \* is it in TcpServer::connections_?
  destroyed,    \* is connectDestroyed done?
  ups, downs,   \* calls of connectionCallback_, by what connected() says
  sent,         \* bytes the program has sent
  delivered,    \* bytes messageCallback_ has been called for
  wire,         \* what the kernel took, in order, ...
  taken,        \* ... and how much of it has left for the peer
  writeShut,    \* has shutdownWrite been called?
  inbound,      \* bytes that wait to be read
  arrived,      \* bytes the peer has sent
  peerFin,      \* has the peer shut down its side?
  reset,        \* has it reset the connection ...
  soError,      \* ... and which error does the socket still hold?
  revents,      \* revents_ not yet acted upon; empty outside handleEvent
  phase,        \* which part of loop() runs: the events or the functors
  pending,      \* pendingFunctors_ of this connection
  executing,    \* those that doPendingFunctors took
  crashed       \* has the process been killed?

connVars == <<state_, ch, output, registered, destroyed>>
userVars == <<ups, downs, sent, delivered>>
sendVars == <<wire, taken, writeShut>>
peerVars == <<inbound, arrived, peerFin, reset, soError>>
loopVars == <<revents, phase, pending, executing>>
vars == <<connVars, userVars, sendVars, peerVars, loopVars, crashed>>

States == {"kConnecting", "kConnected", "kDisconnecting", "kDisconnected"}
Functors == {"writeComplete", "highWaterMark", "connectDestroyed"}
Errors == {"none", "ECONNRESET", "EPIPE"}

Junk == 0                      \* the byte before the program's data
Bytes == {Junk} \cup 1..MaxSent

TypeOK ==
  /\ state_ \in States
  /\ ch \in ChannelType /\ ~ch.fatal
  /\ output \in Seq(Bytes) /\ wire \in Seq(Bytes)
  /\ Len(wire) + Len(output) = sent
  /\ sent \in 0..MaxSent
  /\ taken \in 0..Len(wire) /\ Len(wire) - taken <= SendBuffer
  /\ arrived \in 0..MaxInbound /\ inbound \in 0..arrived
  /\ delivered \in 0..(arrived - inbound)
  /\ registered \in BOOLEAN /\ destroyed \in BOOLEAN /\ writeShut \in BOOLEAN
  /\ peerFin \in BOOLEAN /\ reset \in BOOLEAN /\ crashed \in BOOLEAN
  /\ soError \in Errors
  /\ ups \in Nat /\ downs \in Nat
  /\ revents \subseteq {"ERR", "HUP", "IN", "OUT"}
  /\ phase \in {"events", "functors"}
  /\ pending \in Seq(Functors) /\ executing \in Seq(Functors)

Init ==
  /\ state_ = "kConnecting" /\ ch = NewChannel /\ output = <<>>
  /\ registered = TRUE /\ destroyed = FALSE
  /\ ups = 0 /\ downs = 0 /\ sent = 0 /\ delivered = 0
  /\ wire = <<>> /\ taken = 0 /\ writeShut = FALSE
  /\ inbound = 0 /\ arrived = 0 /\ peerFin = FALSE
  /\ reset = FALSE /\ soError = "none"
  /\ revents = {} /\ phase = "events" /\ pending = <<>> /\ executing = <<>>
  /\ crashed = FALSE

Alive == ~crashed /\ ~destroyed

------------------------------------------------------------------------------
(* What the kernel says of the socket.                                      *)
Free == SendBuffer - (Len(wire) - taken)

Ready ==
  IF ~ch.watched THEN {} ELSE
    {e \in {"ERR", "HUP", "IN", "OUT"} :
       \/ e = "ERR" /\ soError # "none"
       \/ e = "HUP" /\ (reset \/ (peerFin /\ writeShut))
       \/ e = "IN"  /\ "read" \in ch.interest /\ (inbound > 0 \/ peerFin \/ reset)
       \/ e = "OUT" /\ "write" \in ch.interest /\ (Free > 0 \/ reset)}

(* write() on a socket that was reset returns the error the socket holds,   *)
(* once, and raises SIGPIPE, which nothing handles, when that is EPIPE or   *)
(* there is none left.                                                      *)
WriteRaisesSIGPIPE == reset /\ soError # "ECONNRESET"

Prefix(s, n) == SubSeq(s, 1, n)
Suffix(s, n) == SubSeq(s, n + 1, Len(s))
MinOf(a, b) == IF a < b THEN a ELSE b

------------------------------------------------------------------------------
(* connectEstablished(), which newConnection runs as its last step.         *)
ConnectEstablished ==
  /\ state_ = "kConnecting" /\ ~crashed
  /\ state_' = "kConnected"
  /\ ch' = EnableReading(ch)
  /\ ups' = ups + 1
  /\ UNCHANGED <<output, registered, destroyed, downs, sent, delivered, sendVars,
                 peerVars, loopVars, crashed>>

(* send(): the next n bytes.                                                *)
Message(n) == [i \in 1..n |-> sent + i]

(* sendInLoop, lines 136-155: the rest goes to the buffer.                  *)
Buffered(rest) ==
  /\ output' = output \o rest
  /\ ch' = IF IsWriting(ch) THEN ch ELSE EnableWriting(ch)
  /\ pending' = IF /\ Len(output) + Len(rest) >= highWaterMark
                   /\ Len(output) < highWaterMark
                THEN Append(pending, "highWaterMark") ELSE pending

(* sendInLoop with nothing buffered: what write() takes, then the rest.     *)
SendDirect(data) ==
  LET n == MinOf(Free, Len(data)) IN
    /\ wire' = wire \o Prefix(data, n)
    /\ IF n = Len(data)
       THEN /\ pending' = Append(pending, "writeComplete")
            /\ UNCHANGED <<ch, output>>
       ELSE Buffered(Suffix(data, n))

(* sendInLoop when write() would block: nwroter is -1, and what is buffered *)
(* begins one byte before the data and ends one byte before its end.        *)
SendBlocked(data) ==
  /\ Buffered(<<Junk>> \o Prefix(data, Len(data) - 1))
  /\ UNCHANGED wire

Send(n) ==
  /\ Alive /\ state_ = "kConnected"
  /\ n > 0 /\ sent + n <= MaxSent
  /\ IsWriting(ch) \/ output # <<>> \/ ~reset
  /\ sent' = sent + n
  /\ \/ /\ IsWriting(ch) \/ output # <<>>
        /\ Buffered(Message(n))
        /\ UNCHANGED wire
     \/ /\ ~IsWriting(ch) /\ output = <<>>
        /\ \/ Free > 0 /\ SendDirect(Message(n))
           \/ Free = 0 /\ SendBlocked(Message(n))
  /\ UNCHANGED <<state_, registered, destroyed, ups, downs, delivered, taken, writeShut,
                 peerVars, revents, phase, executing, crashed>>

(* send() of no bytes with nothing buffered: write() takes them, even when  *)
(* it has no room (otherwise nothing happens).  Bound: not while the        *)
(* program is still to be told of another write.                            *)
SendEmpty ==
  /\ Alive /\ state_ = "kConnected"
  /\ ~IsWriting(ch) /\ output = <<>> /\ ~reset
  /\ \A i \in DOMAIN pending : pending[i] # "writeComplete"
  /\ pending' = Append(pending, "writeComplete")
  /\ UNCHANGED <<connVars, userVars, sendVars, peerVars, revents, phase, executing, crashed>>

(* sendInLoop when write() fails: SIGPIPE, or line 115, whose snprintf      *)
(* prints into its own constant format and so is a segmentation fault.      *)
SendFails ==
  /\ Alive /\ state_ = "kConnected"
  /\ reset /\ ~IsWriting(ch) /\ output = <<>>
  /\ crashed' = TRUE
  /\ UNCHANGED <<connVars, userVars, sendVars, peerVars, loopVars>>

(* Mutation: shutdownInLoop does not look at the buffer.                    *)
ShutdownInLoopAtOnce(channel) == writeShut' = TRUE

ShutdownInLoop(channel) == writeShut' = (writeShut \/ ~IsWriting(channel))

Shutdown ==
  /\ Alive /\ state_ = "kConnected"
  /\ state_' = "kDisconnecting"
  /\ ShutdownInLoop(ch)
  /\ UNCHANGED <<ch, output, registered, destroyed, userVars, wire, taken, peerVars,
                 loopVars, crashed>>

------------------------------------------------------------------------------
(* Channel::handleEvent: the handlers.                                      *)

(* Mutation: connectDestroyed is queued only for a half-closed connection.  *)
RemoveConnectionForgetting ==
  /\ registered' = FALSE
  /\ pending' = IF registered /\ peerFin THEN Append(pending, "connectDestroyed")
                ELSE pending

(* The close callback, TcpServer::removeConnection.                         *)
RemoveConnection ==
  /\ registered' = FALSE
  /\ pending' = IF registered THEN Append(pending, "connectDestroyed") ELSE pending

(* Mutation: the channel still waits for room to write.                     *)
ChannelWhenClosedWriting == DisableReading(ch)

ChannelWhenClosed == DisableAll(ch)

(* handleClose(), with the connection callback.                             *)
HandleClose ==
  /\ state_' = "kDisconnected"
  /\ ch' = ChannelWhenClosed
  /\ downs' = downs + 1
  /\ RemoveConnection
  /\ UNCHANGED <<output, destroyed, ups, sent, delivered, sendVars, peerVars, crashed>>

(* handleError: getsockopt clears the error; nothing else is done.          *)
HandleError ==
  /\ soError' = "none"
  /\ UNCHANGED <<connVars, userVars, sendVars, inbound, arrived, peerFin, reset,
                 pending, crashed>>

(* Mutation: a connection whose peer has shut its side down is closed.      *)
DataFirstUnlessFin == inbound > 0 /\ ~peerFin

DataFirst == inbound > 0

(* handleRead: data first, then the error, then the end of the stream.      *)
HandleRead ==
  \/ /\ DataFirst
     /\ \E n \in 1..inbound : inbound' = inbound - n /\ delivered' = delivered + n
     /\ UNCHANGED <<connVars, ups, downs, sent, sendVars, arrived, peerFin, reset,
                    soError, pending, crashed>>
  \/ ~DataFirst /\ soError # "none" /\ HandleError
  \/ ~DataFirst /\ soError = "none" /\ (peerFin \/ reset) /\ HandleClose

(* Mutations: what write() took is not retrieved, but the end of the rest;  *)
(* it is not retrieved at all.                                              *)
RetrievedAtTheEnd(n) == Prefix(output, Len(output) - n)
RetrievedNothing(n) == output

Retrieved(n) == Suffix(output, n)

(* Mutation: both interests are dropped with the last byte.                 *)
ChannelWhenWrittenSilent == DisableAll(ch)

(* handleWrite, line 190.  With the last byte it is the interest in reading *)
(* that is dropped, so that isWriting() is still true for shutdownInLoop.   *)
ChannelWhenWritten == DisableReading(ch)

(* Mutation: the program is told only when it waits for the shutdown.       *)
AnnouncedSometimes ==
  IF state_ = "kDisconnecting" THEN Append(pending, "writeComplete") ELSE pending

Announced == Append(pending, "writeComplete")

(* handleWrite, lines 188-202.                                              *)
AllWritten ==
  /\ ch' = ChannelWhenWritten
  /\ pending' = Announced
  /\ IF state_ = "kDisconnecting" THEN ShutdownInLoop(ch') ELSE UNCHANGED writeShut

(* handleWrite: write() takes something; fails; or there is nothing to      *)
(* write or no room.                                                        *)
HandleWrite ==
  LET n == MinOf(Free, Len(output)) IN
  \/ /\ IsWriting(ch) /\ ~reset /\ n > 0
     /\ wire' = wire \o Prefix(output, n) /\ output' = Retrieved(n)
     /\ IF n = Len(output) THEN AllWritten ELSE UNCHANGED <<ch, pending, writeShut>>
     /\ UNCHANGED <<state_, registered, destroyed, userVars, taken, peerVars, crashed>>
  \/ /\ IsWriting(ch) /\ WriteRaisesSIGPIPE
     /\ crashed' = TRUE
     /\ UNCHANGED <<connVars, userVars, sendVars, peerVars, pending>>
  \/ /\ IsWriting(ch) /\ reset /\ ~WriteRaisesSIGPIPE
     /\ soError' = "none"
     /\ UNCHANGED <<connVars, userVars, sendVars, inbound, arrived, peerFin, reset,
                    pending, crashed>>
  \/ /\ ~IsWriting(ch) \/ (~reset /\ n = 0)
     /\ UNCHANGED <<connVars, userVars, sendVars, peerVars, pending, crashed>>

(* handleEventWithGuard: an error alone, else the hangup alone, else        *)
(* reading and then writing, by what epoll_wait said before either.         *)
HandleEvent ==
  /\ Alive /\ phase = "events" /\ revents # {}
  /\ \/ "ERR" \in revents /\ HandleError /\ revents' = {}
     \/ "ERR" \notin revents /\ "HUP" \in revents /\ HandleClose /\ revents' = {}
     \/ revents \cap {"ERR", "HUP"} = {} /\ "IN" \in revents
        /\ HandleRead /\ revents' = revents \ {"IN"}
     \/ revents = {"OUT"} /\ HandleWrite /\ revents' = {}
  /\ UNCHANGED <<phase, executing>>

------------------------------------------------------------------------------
(* The loop.                                                                *)

Poll ==
  /\ Alive /\ phase = "functors" /\ executing = <<>>
  /\ phase' = "events" /\ revents' = Ready
  /\ UNCHANGED <<connVars, userVars, sendVars, peerVars, pending, executing, crashed>>

DoPendingFunctors ==
  /\ Alive /\ phase = "events" /\ revents = {}
  /\ phase' = "functors" /\ executing' = pending /\ pending' = <<>>
  /\ UNCHANGED <<connVars, userVars, sendVars, peerVars, revents, crashed>>

(* Mutation: the state is not tested.                                       *)
StillUpAlways == TRUE

StillUp == state_ = "kConnected"

(* connectDestroyed().                                                      *)
ConnectDestroyed ==
  /\ IF StillUp
     THEN /\ state_' = "kDisconnected"
          /\ ch' = Remove(DisableAll(ch))
          /\ downs' = downs + 1
     ELSE /\ ch' = Remove(ch)
          /\ UNCHANGED <<state_, downs>>
  /\ destroyed' = TRUE
  /\ UNCHANGED <<output, ups, sent, delivered, sendVars, peerVars, crashed>>

RunFunctor ==
  /\ Alive /\ phase = "functors" /\ executing # <<>>
  /\ executing' = Tail(executing)
  /\ IF Head(executing) = "connectDestroyed"
     THEN ConnectDestroyed /\ UNCHANGED registered
     ELSE UNCHANGED <<connVars, userVars, sendVars, peerVars, crashed>>
  /\ UNCHANGED <<revents, phase, pending>>

(* TcpServer::~TcpServer runs connectDestroyed at once.                     *)
ServerDestroys ==
  /\ Alive /\ registered /\ state_ # "kConnecting" /\ revents = {}
  /\ registered' = FALSE
  /\ ConnectDestroyed
  /\ UNCHANGED loopVars

------------------------------------------------------------------------------
(* The peer.                                                                *)

PeerTakes ==
  /\ Alive /\ ~reset /\ taken < Len(wire)
  /\ taken' = taken + 1
  /\ UNCHANGED <<connVars, userVars, wire, writeShut, peerVars, loopVars, crashed>>

PeerSends ==
  /\ Alive /\ ~reset /\ ~peerFin /\ arrived < MaxInbound
  /\ arrived' = arrived + 1 /\ inbound' = inbound + 1
  /\ UNCHANGED <<connVars, userVars, sendVars, peerFin, reset, soError, loopVars, crashed>>

PeerShutsDown ==
  /\ Alive /\ ~reset /\ ~peerFin
  /\ peerFin' = TRUE
  /\ UNCHANGED <<connVars, userVars, sendVars, inbound, arrived, reset, soError, loopVars,
                 crashed>>

PeerResets ==
  /\ Alive /\ ~reset
  /\ reset' = TRUE
  /\ soError' = IF peerFin /\ ~writeShut THEN "EPIPE" ELSE "ECONNRESET"
  /\ UNCHANGED <<connVars, userVars, sendVars, inbound, arrived, peerFin, loopVars, crashed>>

------------------------------------------------------------------------------
LoopStep == Poll \/ HandleEvent \/ DoPendingFunctors \/ RunFunctor

Next ==
  \/ ConnectEstablished
  \/ \E n \in 1..MaxSent : Send(n)
  \/ SendEmpty \/ SendFails \/ Shutdown \/ ServerDestroys
  \/ LoopStep
  \/ PeerTakes \/ PeerSends \/ PeerShutsDown \/ PeerResets

Spec == Init /\ [][Next]_vars

(* newConnection ends with connectEstablished; poll() returns after         *)
(* kPollTimeMs at the latest, so the loop goes round; the peer reads what   *)
(* it is sent.                                                              *)
FairSpec ==
  Spec /\ WF_vars(ConnectEstablished) /\ WF_vars(LoopStep) /\ WF_vars(PeerTakes)

------------------------------------------------------------------------------
(* Properties.                                                              *)

Stream == wire \o output

(* send() and handleWrite: each byte that the program sent goes to the peer *)
(* in its place, through the kernel or by way of outputBuffer_.  Only the   *)
(* bytes of a message whose write() would block may be late, and by one:    *)
(* they follow the byte before the message (see PeerGetsWhatWasSent), and   *)
(* the next message begins where it should.                                 *)
StreamIsIntact ==
  \A i \in DOMAIN Stream :
    \/ Stream[i] \in {i, Junk}
    \/ i > 1 /\ Stream[i] = i - 1 /\ Stream[i - 1] # i - 1

(* The connection callback is called once when the connection is up, once   *)
(* at most when it is down, whichever of read, hangup, error and the        *)
(* server's destructor comes first, and no message outside of that.  A      *)
(* connection that the peer alone has ended goes down only after all its    *)
(* data was delivered: no more than a hangup of both sides, or a reset, may *)
(* drop some.                                                               *)
OneDownPerUp ==
  [][/\ ups' <= 1 /\ downs' <= ups
     /\ delivered' # delivered => ups = 1 /\ downs = 0
     /\ downs' # downs /\ ~destroyed' /\ ~writeShut /\ ~reset => inbound = 0]_vars

(* shutdownInLoop: the write side is not closed before the last byte was    *)
(* handed to the kernel, and nothing is written after.  handleClose,        *)
(* handleRead, handleWrite: nor is anything once the connection is down,    *)
(* not even by a handler that the same round had in store, so that no write *)
(* can end the process any more.                                            *)
NothingWrittenAfterEnd ==
  [][/\ writeShut' /\ ~reset => output' = <<>>
     /\ writeShut \/ state_ = "kDisconnected" => wire' = wire
     /\ state_ = "kDisconnected" => crashed' = crashed]_vars

(* sendInLoop and handleWrite: what has to be buffered is written when the  *)
(* peer reads, and the program is told.                                     *)
DrainIsAnnounced ==
  output # <<>> ~>
    \/ \E i \in DOMAIN executing : executing[i] = "writeComplete"
    \/ state_ = "kDisconnected" \/ destroyed \/ crashed

(* handleClose: a connection that is down gets destroyed.  handleError only *)
(* logs: the hangup that comes with the error still ends a connection that  *)
(* was reset.                                                               *)
EndedIsDestroyed == state_ = "kDisconnected" \/ reset ~> destroyed \/ crashed

(* README:80, TcpConnection.cpp:284: shutdown() closes the write side, once *)
(* the buffer is empty.                                                     *)
ShutdownClosesWriteSide ==
  state_ = "kDisconnecting" ~> writeShut \/ reset \/ destroyed \/ crashed

(* TcpConnection.cpp:123: a write that would block is no error, the data    *)
(* is sent later.                                                           *)
PeerGetsWhatWasSent == Stream = [i \in 1..sent |-> i]
==============================================================================
