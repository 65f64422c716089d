------------------------- MODULE TcpConnectionProofs -------------------------
(***************************************************************************)
(* Theorems about TcpConnection, for any sizes of the buffers and any      *)
(* amount of data.                                                         *)
(*                                                                         *)
(* What the handlers can do depends on the state and on what the channel   *)
(* is interested in.  Lifecycle ties the two together: the channel of a    *)
(* connection that is up is watched, and writes as long as there is        *)
(* something in the buffer; when the connection is down it is watched no   *)
(* more, and all that the round may still have in store for it is a        *)
(* handleWrite that does nothing.  WriteSide says what a closed write side *)
(* and a hangup imply.                                                     *)
(***************************************************************************)
EXTENDS TcpConnection, SequenceTheorems, TLAPS

Up == {"kConnected", "kDisconnecting"}

(* state_, the channel and the callbacks.                                   *)
Lifecycle ==
  /\ ups = IF state_ = "kConnecting" THEN 0 ELSE 1
  /\ downs = IF state_ = "kDisconnected" THEN 1 ELSE 0
  /\ state_ = "kConnecting" =>
       ~ch.watched /\ revents = {} /\ pending = <<>> /\ executing = <<>>
  /\ state_ \in Up /\ ~destroyed => ch.watched /\ ch.events # {}
  /\ state_ = "kDisconnected" => ch.events = {} /\ ~ch.watched /\ revents \subseteq {"OUT"}
  /\ phase = "functors" => revents = {}

(* The buffer, the shutdown and the hangup.                                 *)
WriteSide ==
  /\ state_ = "kConnecting" => output = <<>>
  /\ state_ \in Up /\ ~destroyed /\ output # <<>> => IsWriting(ch)
  /\ writeShut => output = <<>> /\ state_ \in {"kDisconnecting", "kDisconnected"}
  /\ "HUP" \in revents => reset \/ (peerFin /\ writeShut)

Inv ==
  /\ TypeOK
  /\ ChannelAgrees(ch)
  /\ Lifecycle
  /\ WriteSide

------------------------------------------------------------------------------
(* Channels.                                                                *)

(* updateChannel: index_, the map and the epoll set go on agreeing, a       *)
(* channel with events is watched, and one that is in the epoll set leaves  *)
(* it when it has none any more.                                            *)
LEMMA UpdateWatches ==
  ASSUME NEW c \in ChannelType, ChannelAgrees(c), NEW events \in SUBSET Events
  PROVE  LET d == UpdateChannel([c EXCEPT !.events = events]) IN
           /\ d \in ChannelType /\ ChannelAgrees(d) /\ d.events = events
           /\ events # {} => d.watched
           /\ events = {} /\ c.watched => ~d.watched
BY DEF ChannelType, ChannelAgrees, UpdateChannel, CtlAdd, CtlMod, CtlDel

(* What each method does to the events and to the epoll set: whatever it    *)
(* is, they go on agreeing.                                                 *)
LEMMA MethodFacts ==
  ASSUME NEW c \in ChannelType, ChannelAgrees(c)
  PROVE  /\ EnableReading(c).events = c.events \cup {"read"} /\ EnableReading(c).watched
         /\ EnableWriting(c).events = c.events \cup {"write"} /\ EnableWriting(c).watched
         /\ DisableReading(c).events = c.events \ {"read"}
         /\ IsWriting(c) => DisableReading(c).watched
         /\ DisableAll(c).events = {} /\ (c.watched => ~DisableAll(c).watched)
         /\ Remove(c).events = c.events /\ ~Remove(c).watched
         /\ \A d \in {EnableReading(c), EnableWriting(c), DisableReading(c), DisableAll(c),
                      Remove(c)} :
              d \in ChannelType /\ ChannelAgrees(d)
<1>1. c.events \in SUBSET Events
  BY DEF ChannelType
<1>2. c.events \cup {"read"} \in SUBSET Events /\ c.events \cup {"write"} \in SUBSET Events
      /\ c.events \ {"read"} \in SUBSET Events /\ {} \in SUBSET Events
  BY <1>1 DEF Events
<1>3. c.events \cup {"read"} # {} /\ c.events \cup {"write"} # {}
      /\ (IsWriting(c) => c.events \ {"read"} # {})
  BY DEF IsWriting
<1>4. EnableReading(c).events = c.events \cup {"read"} /\ EnableReading(c).watched
  BY <1>2, <1>3, UpdateWatches DEF EnableReading
<1>5. EnableWriting(c).events = c.events \cup {"write"} /\ EnableWriting(c).watched
  BY <1>2, <1>3, UpdateWatches DEF EnableWriting
<1>6. DisableReading(c).events = c.events \ {"read"}
      /\ (IsWriting(c) => DisableReading(c).watched)
  BY <1>2, <1>3, UpdateWatches DEF DisableReading
<1>7. DisableAll(c).events = {} /\ (c.watched => ~DisableAll(c).watched)
  BY <1>2, UpdateWatches DEF DisableAll
<1>8. Remove(c).events = c.events /\ ~Remove(c).watched
  BY DEF Remove, RemoveChannel, CtlDel, ChannelType, ChannelAgrees
<1>9. Remove(c) \in ChannelType /\ ChannelAgrees(Remove(c))
  BY DEF Remove, RemoveChannel, CtlDel, ChannelType, ChannelAgrees
<1>10. ASSUME NEW d \in {EnableReading(c), EnableWriting(c), DisableReading(c), DisableAll(c)}
       PROVE  d \in ChannelType /\ ChannelAgrees(d)
  BY <1>2, UpdateWatches DEF EnableReading, EnableWriting, DisableReading, DisableAll
<1>11. QED
  BY <1>4, <1>5, <1>6, <1>7, <1>8, <1>9, <1>10

------------------------------------------------------------------------------
(* Sequences.                                                               *)

(* Prefix and Suffix take a sequence apart.                                 *)
LEMMA Halves ==
  ASSUME NEW S, NEW s \in Seq(S), NEW n \in 0..Len(s)
  PROVE  /\ Prefix(s, n) \in Seq(S) /\ Len(Prefix(s, n)) = n
         /\ Suffix(s, n) \in Seq(S) /\ Len(Suffix(s, n)) = Len(s) - n
         /\ Prefix(s, n) \o Suffix(s, n) = s
<1>1. Len(s) \in Nat /\ \A i \in 1..Len(s) : s[i] \in S
  BY LenProperties
<1>2. Prefix(s, n) \in Seq(S) /\ Len(Prefix(s, n)) = n
  BY <1>1, SubSeqProperties DEF Prefix
<1>3. Suffix(s, n) \in Seq(S) /\ Len(Suffix(s, n)) = Len(s) - n
  BY <1>1, SubSeqProperties DEF Suffix
<1>4. SubSeq(s, 1, n) \o SubSeq(s, n + 1, Len(s)) = SubSeq(s, 1, Len(s))
  <2>1. 1 \in 1..Len(s)+1 /\ n \in 1-1..Len(s) /\ Len(s) \in n..Len(s)
    BY <1>1
  <2>2. QED
    BY ONLY <2>1, ConcatAdjacentSubSeq, s \in Seq(S)
<1>5. QED
  BY <1>2, <1>3, <1>4, SubSeqFull DEF Prefix, Suffix

(* send(): the program's bytes are bytes.                                   *)
LEMMA MessageIsSeq ==
  ASSUME sent \in Nat, NEW n \in Nat, sent + n <= MaxSent
  PROVE  Message(n) \in Seq(Bytes) /\ Len(Message(n)) = n
<1>1. \A i \in 1..n : sent + i \in Bytes
  BY ConstantsAssumption DEF Bytes
<1>2. QED
  BY <1>1 DEF Message

------------------------------------------------------------------------------
(* The invariant.                                                           *)

(* No byte is sent and no functor queued yet.                              *)
LEMMA InitInv == Init => Inv
<1> SUFFICES ASSUME Init PROVE Inv
  OBVIOUS
<1>1. NewChannel \in ChannelType /\ ChannelAgrees(NewChannel)
  BY DEF NewChannel, ChannelType, ChannelAgrees, Events
<1>2. <<>> \in Seq(Bytes) /\ <<>> \in Seq(Functors) /\ Len(<<>>) = 0
  BY EmptySeq
<1>3. TypeOK
  <2>1. Len(wire) + Len(output) = sent /\ sent \in 0..MaxSent /\ taken \in 0..Len(wire)
        /\ Len(wire) - taken <= SendBuffer
    BY <1>2, ConstantsAssumption DEF Init
  <2>2. /\ arrived \in 0..MaxInbound
        /\ inbound \in 0..arrived
        /\ delivered \in 0..(arrived - inbound)
    BY ConstantsAssumption DEF Init
  <2>3. QED
    BY <1>1, <1>2, <2>1, <2>2 DEF Init, TypeOK, States, Errors, ChannelAgrees
<1>4. Lifecycle /\ WriteSide
  BY DEF Init, Lifecycle, WriteSide, NewChannel, Up
<1>5. QED
  BY <1>1, <1>3, <1>4 DEF Init, Inv

(* connectEstablished().                                                    *)
LEMMA EstablishedInv == Inv /\ ConnectEstablished => Inv'
<1> SUFFICES ASSUME Inv, ConnectEstablished PROVE Inv'
  OBVIOUS
<1>1. /\ EnableReading(ch) \in ChannelType /\ ChannelAgrees(EnableReading(ch))
      /\ EnableReading(ch).events = ch.events \cup {"read"} /\ EnableReading(ch).watched
  BY MethodFacts DEF Inv, TypeOK
<1>2. TypeOK'
  BY <1>1 DEF Inv, TypeOK, States, ConnectEstablished, Lifecycle, ChannelAgrees,
              sendVars, peerVars, loopVars
<1>3. Lifecycle'
  BY <1>1 DEF Inv, Lifecycle, ConnectEstablished, Up, loopVars
<1>4. WriteSide'
  BY <1>1 DEF Inv, WriteSide, Lifecycle, ConnectEstablished, Up, sendVars, peerVars, loopVars,
              IsWriting
<1>5. QED
  BY <1>1, <1>2, <1>3, <1>4 DEF Inv, ConnectEstablished

(* shutdown().                                                              *)
LEMMA ShutdownInv == Inv /\ Shutdown => Inv'
<1> SUFFICES ASSUME Inv, Shutdown PROVE Inv'
  OBVIOUS
<1>1. TypeOK'
  BY DEF Inv, TypeOK, States, Shutdown, ShutdownInLoop, userVars, peerVars, loopVars
<1>2. Lifecycle'
  BY DEF Inv, Lifecycle, Shutdown, Up, userVars, loopVars
<1>3. WriteSide'
  BY DEF Inv, WriteSide, Shutdown, ShutdownInLoop, Alive, Up, userVars, peerVars, loopVars,
         IsWriting, TypeOK
<1>4. QED
  BY <1>1, <1>2, <1>3 DEF Inv, Shutdown

(* The peer, a send() of nothing, and one that ends the process.            *)
LEMMA OutsideInv ==
  Inv /\ (\/ PeerTakes \/ PeerSends \/ PeerShutsDown \/ PeerResets
          \/ SendEmpty \/ SendFails) => Inv'
<1>1. ASSUME Inv, PeerTakes PROVE Inv'
  <2>1. Len(wire) \in Nat
    BY <1>1, LenProperties DEF Inv, TypeOK
  <2>2. taken' \in 0..Len(wire) /\ Len(wire) - taken' <= SendBuffer
    BY <1>1, <2>1, ConstantsAssumption DEF PeerTakes, Inv, TypeOK
  <2>3. UNCHANGED <<connVars, userVars, wire, writeShut, peerVars, loopVars, crashed>>
    BY <1>1 DEF PeerTakes
  <2>4. TypeOK' /\ Lifecycle' /\ WriteSide' /\ ChannelAgrees(ch)'
    BY <1>1, <2>2, <2>3 DEF Inv, TypeOK, Lifecycle, WriteSide, connVars, userVars,
                            peerVars, loopVars
  <2>5. QED
    BY <2>4 DEF Inv
<1>2. ASSUME Inv, PeerSends PROVE Inv'
  <2>1. arrived' \in 0..MaxInbound /\ inbound' \in 0..arrived'
        /\ delivered \in 0..(arrived' - inbound')
    BY <1>2, ConstantsAssumption DEF PeerSends, Inv, TypeOK
  <2>2. UNCHANGED <<connVars, userVars, sendVars, peerFin, reset, soError, loopVars, crashed>>
    BY <1>2 DEF PeerSends
  <2>3. TypeOK'
    BY <1>2, <2>1, <2>2 DEF Inv, TypeOK, connVars, userVars, sendVars, loopVars
  <2>4. Lifecycle' /\ WriteSide' /\ ChannelAgrees(ch)'
    BY <1>2, <2>2 DEF Inv, Lifecycle, WriteSide, connVars, userVars, sendVars, loopVars
  <2>5. QED
    BY <2>3, <2>4 DEF Inv
<1> USE DEF Inv, TypeOK, Lifecycle, WriteSide, connVars, userVars, sendVars, peerVars,
            loopVars
<1>3. ASSUME Inv, PeerShutsDown PROVE Inv'
  BY <1>3 DEF PeerShutsDown
<1>4. ASSUME Inv, PeerResets PROVE Inv'
  BY <1>4 DEF PeerResets, Errors
<1>5. ASSUME Inv, SendFails PROVE Inv'
  BY <1>5 DEF SendFails
<1>6. ASSUME Inv, SendEmpty PROVE Inv'
  <2>1. pending' \in Seq(Functors)
    BY <1>6, AppendProperties DEF SendEmpty, Functors
  <2>2. QED
    BY <1>6, <2>1 DEF SendEmpty
<1>7. QED
  BY <1>1, <1>2, <1>3, <1>4, <1>5, <1>6

(* What sendInLoop leaves to handleWrite: lines 136-155.                    *)
LEMMA BufferedFacts ==
  ASSUME Inv, state_ = "kConnected", ~destroyed, NEW rest \in Seq(Bytes), Buffered(rest)
  PROVE  /\ output' \in Seq(Bytes) /\ Len(output') = Len(output) + Len(rest)
         /\ ch' \in ChannelType /\ ChannelAgrees(ch')
         /\ ch'.watched /\ ch'.events # {} /\ "write" \in ch'.events
         /\ pending' \in Seq(Functors)
<1>1. output' \in Seq(Bytes) /\ Len(output') = Len(output) + Len(rest)
  BY ConcatProperties DEF Inv, TypeOK, Buffered
<1>2. ch' \in ChannelType /\ ChannelAgrees(ch') /\ ch'.watched /\ ch'.events # {}
      /\ "write" \in ch'.events
  <2>1. CASE IsWriting(ch)
    BY <2>1 DEF Buffered, Inv, TypeOK, Lifecycle, Up, IsWriting
  <2>2. CASE ~IsWriting(ch)
    <3>1. ch' = EnableWriting(ch)
      BY <2>2 DEF Buffered
    <3>2. ch \in ChannelType /\ ChannelAgrees(ch)
      BY DEF Inv, TypeOK
    <3>3. EnableWriting(ch).events = ch.events \cup {"write"} /\ EnableWriting(ch).watched
      BY <3>2, MethodFacts
    <3>4. EnableWriting(ch) \in ChannelType /\ ChannelAgrees(EnableWriting(ch))
      BY <3>2, MethodFacts
    <3>5. QED
      BY <3>1, <3>3, <3>4
  <2>3. QED
    BY <2>1, <2>2
<1>3. pending' \in Seq(Functors)
  <2>1. pending \in Seq(Functors) /\ "highWaterMark" \in Functors
    BY DEF Inv, TypeOK, Functors
  <2>2. QED
    BY <2>1, AppendProperties DEF Buffered
<1>4. QED
  BY <1>1, <1>2, <1>3

(* What send() does with the bytes, whichever way they go.                  *)
LEMMA SendFacts ==
  ASSUME Inv, NEW n \in 1..MaxSent, Send(n)
  PROVE  /\ output' \in Seq(Bytes) /\ wire' \in Seq(Bytes)
         /\ Len(wire') + Len(output') = sent + n
         /\ taken <= Len(wire') /\ Len(wire') - taken <= SendBuffer
         /\ ch' \in ChannelType /\ ChannelAgrees(ch')
         /\ ch'.watched /\ ch'.events # {}
         /\ output' # <<>> => "write" \in ch'.events
         /\ pending' \in Seq(Functors)
<1>1. /\ state_ = "kConnected" /\ ~destroyed
      /\ sent \in Nat /\ taken \in Nat /\ n \in Nat /\ sent + n <= MaxSent
      /\ output \in Seq(Bytes) /\ wire \in Seq(Bytes)
      /\ Len(output) \in Nat /\ Len(wire) \in Nat /\ Len(wire) + Len(output) = sent
      /\ taken <= Len(wire) /\ Len(wire) - taken <= SendBuffer
      /\ ch \in ChannelType /\ ChannelAgrees(ch) /\ ch.watched /\ ch.events # {}
      /\ SendBuffer \in Nat
  BY ConstantsAssumption, LenProperties DEF Inv, TypeOK, Lifecycle, Send, Alive, Up
<1>2. Message(n) \in Seq(Bytes) /\ Len(Message(n)) = n
  BY <1>1, MessageIsSeq
<1> DEFINE Stored(rest) == /\ output' \in Seq(Bytes) /\ Len(output') = Len(output) + Len(rest)
                           /\ ch' \in ChannelType /\ ChannelAgrees(ch')
                           /\ ch'.watched /\ ch'.events # {} /\ "write" \in ch'.events
                           /\ pending' \in Seq(Functors)
<1>3. CASE Buffered(Message(n)) /\ wire' = wire
  <2>1. Stored(Message(n))
    BY <1>1, <1>2, <1>3, BufferedFacts
  <2>2. QED
    BY <1>1, <1>2, <1>3, <2>1
<1>4. CASE output = <<>> /\ Free > 0 /\ SendDirect(Message(n))
  <2> DEFINE m == MinOf(Free, Len(Message(n)))
             p == Prefix(Message(n), m)
             q == Suffix(Message(n), m)
  <2>1. m \in 0..n /\ m <= SendBuffer - (Len(wire) - taken)
    BY <1>1, <1>2, <1>4 DEF MinOf, Free
  <2>2. p \in Seq(Bytes) /\ Len(p) = m /\ q \in Seq(Bytes) /\ Len(q) = n - m
    BY <1>2, <2>1, Halves, ZenonT(30)
  <2>3. wire' = wire \o p
    BY <1>4 DEF SendDirect
  <2>4. wire' \in Seq(Bytes) /\ Len(wire') = Len(wire) + m
    BY <1>1, <2>2, <2>3, ConcatProperties
  <2>5. Len(output) = 0
    BY <1>4, EmptySeq
  <2>6. CASE m = n
    <3>1. pending' = Append(pending, "writeComplete") /\ ch' = ch /\ output' = output
      BY <1>2, <1>4, <2>6 DEF SendDirect
    <3>2. pending' \in Seq(Functors)
      BY <3>1, AppendProperties DEF Inv, TypeOK, Functors
    <3>3. QED
      BY <1>1, <1>4, <2>1, <2>4, <2>5, <2>6, <3>1, <3>2
  <2>7. CASE m # n
    <3>1. Buffered(q)
      BY <1>2, <1>4, <2>7 DEF SendDirect
    <3>2. Stored(q)
      BY <1>1, <2>2, <3>1, BufferedFacts
    <3>3. Len(output') = n - m /\ Len(wire') = Len(wire) + m
      BY <1>1, <2>1, <2>2, <2>4, <2>5, <3>2
    <3>4. Len(wire') + Len(output') = sent + n
      BY <1>1, <1>4, <2>1, <3>3, EmptySeq
    <3>5. taken <= Len(wire') /\ Len(wire') - taken <= SendBuffer
      BY <1>1, <2>1, <3>3
    <3>6. QED
      BY <2>4, <3>2, <3>4, <3>5
  <2>8. QED
    BY <2>6, <2>7
<1>5. CASE SendBlocked(Message(n))
  <2> DEFINE rest == <<Junk>> \o Prefix(Message(n), Len(Message(n)) - 1)
  <2>1. Prefix(Message(n), n - 1) \in Seq(Bytes) /\ Len(Prefix(Message(n), n - 1)) = n - 1
    BY <1>2, Halves
  <2>2. <<Junk>> \in Seq(Bytes) /\ Len(<<Junk>>) = 1
    BY DEF Bytes
  <2>3. rest \in Seq(Bytes) /\ Len(rest) = n
    BY <1>1, <1>2, <2>1, <2>2, ConcatProperties
  <2>4. Buffered(rest) /\ wire' = wire
    BY <1>5 DEF SendBlocked
  <2> HIDE DEF rest
  <2>5. Stored(rest)
    BY <1>1, <2>3, <2>4, BufferedFacts
  <2>6. wire' = wire /\ Len(output') = Len(output) + n
    BY <2>3, <2>4, <2>5
  <2>7. Len(wire') + Len(output') = sent + n /\ taken <= Len(wire')
        /\ Len(wire') - taken <= SendBuffer /\ wire' \in Seq(Bytes)
    BY <1>1, <2>6
  <2>8. QED
    BY <2>5, <2>7
<1>6. QED
  BY <1>3, <1>4, <1>5 DEF Send

(* send().                                                                  *)
LEMMA SendInv == ASSUME Inv, NEW n \in 1..MaxSent, Send(n) PROVE Inv'
<1>1. /\ UNCHANGED <<state_, registered, destroyed, ups, downs, delivered, taken, writeShut,
                    peerVars, revents, phase, executing, crashed>>
      /\ sent' = sent + n /\ state_ = "kConnected" /\ sent + n <= MaxSent
  BY DEF Send
<1>2. sent' \in 0..MaxSent /\ taken' \in 0..Len(wire')
  BY <1>1, SendFacts, LenProperties DEF Inv, TypeOK
<1>3. TypeOK'
  BY <1>1, <1>2, SendFacts DEF Inv, TypeOK, ChannelAgrees, peerVars
<1>4. Lifecycle'
  BY <1>1, SendFacts DEF Inv, Lifecycle, Up
<1>5. WriteSide'
  BY <1>1, SendFacts DEF Inv, WriteSide, Up, peerVars, IsWriting
<1>6. QED
  BY <1>3, <1>4, <1>5, SendFacts DEF Inv

(* handleClose(): the connection was up, and its channel falls silent.      *)
LEMMA CloseInv ==
  ASSUME Inv, Alive, HandleClose, {"HUP", "IN"} \cap revents # {},
         phase = "events", UNCHANGED <<phase, executing>>,
         revents' \subseteq {"OUT"}
  PROVE  Inv' /\ downs = 0
<1>1. state_ \in Up /\ ~destroyed /\ downs = 0 /\ ups = 1
  BY DEF Inv, TypeOK, States, Lifecycle, Alive, Up
<1>2. ch.watched /\ ch \in ChannelType /\ ChannelAgrees(ch)
  BY <1>1 DEF Inv, TypeOK, Lifecycle
<1>3. DisableAll(ch) \in ChannelType /\ ChannelAgrees(DisableAll(ch))
  BY <1>2, MethodFacts
<1>4. DisableAll(ch).events = {} /\ ~DisableAll(ch).watched
  BY <1>2, MethodFacts
<1>5. ch' = DisableAll(ch) /\ state_' = "kDisconnected" /\ downs' = 1 /\ registered' = FALSE
      /\ UNCHANGED <<output, destroyed, ups, sent, delivered, sendVars, peerVars, crashed>>
  BY <1>1 DEF HandleClose, ChannelWhenClosed, RemoveConnection
<1>6. pending' \in Seq(Functors)
  <2>1. "connectDestroyed" \in Functors /\ pending \in Seq(Functors)
    BY DEF Functors, Inv, TypeOK
  <2>2. QED
    BY <2>1, AppendProperties DEF HandleClose, RemoveConnection
<1>7. TypeOK'
  BY <1>3, <1>5, <1>6 DEF Inv, TypeOK, ChannelAgrees, sendVars, peerVars, States
<1>8. Lifecycle'
  BY <1>1, <1>4, <1>5 DEF Lifecycle, Up
<1>9. WriteSide'
  BY <1>5 DEF Inv, WriteSide, Up, sendVars, peerVars
<1>10. QED
  BY <1>1, <1>3, <1>5, <1>7, <1>8, <1>9 DEF Inv

(* handleError() and what else leaves the connection alone.                 *)
LEMMA SilentInv ==
  ASSUME Inv, UNCHANGED <<connVars, userVars, sendVars, inbound, arrived, peerFin, reset,
                          pending, phase, executing>>,
         crashed' \in BOOLEAN, soError' \in Errors, revents' \subseteq revents
  PROVE  Inv'
<1>1. TypeOK'
  BY DEF Inv, TypeOK, connVars, userVars, sendVars
<1>2. Lifecycle' /\ WriteSide' /\ ChannelAgrees(ch)'
  BY DEF Inv, Lifecycle, WriteSide, connVars, userVars, sendVars
<1>3. QED
  BY <1>1, <1>2 DEF Inv

(* handleRead().                                                            *)
LEMMA ReadInv ==
  ASSUME Inv, HandleEvent, revents \cap {"ERR", "HUP"} = {}, "IN" \in revents,
         HandleRead, revents' = revents \ {"IN"}
  PROVE  Inv'
<1>1. revents' \subseteq {"OUT"} /\ phase = "events" /\ Alive
      /\ UNCHANGED <<phase, executing>>
  BY DEF Inv, TypeOK, HandleEvent
<1>2. ASSUME NEW n \in 1..inbound, inbound' = inbound - n, delivered' = delivered + n,
             UNCHANGED <<connVars, ups, downs, sent, sendVars, arrived, peerFin, reset,
                         soError, pending, crashed>>
      PROVE  Inv'
  <2>1. inbound' \in 0..arrived /\ delivered' \in 0..(arrived - inbound')
    BY <1>2, ConstantsAssumption DEF Inv, TypeOK
  <2>2. TypeOK'
    BY <1>1, <1>2, <2>1 DEF Inv, TypeOK, connVars, sendVars
  <2>3. Lifecycle' /\ WriteSide' /\ ChannelAgrees(ch)'
    BY <1>1, <1>2 DEF Inv, Lifecycle, WriteSide, connVars, sendVars
  <2>4. QED
    BY <2>2, <2>3 DEF Inv
<1>3. CASE HandleError
  BY <1>1, <1>3, SilentInv DEF HandleError, Errors, Inv, TypeOK
<1>4. CASE HandleClose
  BY <1>1, <1>4, CloseInv
<1>5. QED
  BY <1>2, <1>3, <1>4 DEF HandleRead

(* handleWrite() when write() takes something: bytes move from the buffer   *)
(* to the kernel.                                                           *)
LEMMA WriteFacts ==
  ASSUME Inv, NEW n, n = MinOf(Free, Len(output)), n > 0,
         wire' = wire \o Prefix(output, n), output' = Retrieved(n)
  PROVE  /\ wire' \in Seq(Bytes) /\ output' \in Seq(Bytes)
         /\ Len(wire') + Len(output') = sent
         /\ taken <= Len(wire') /\ Len(wire') - taken <= SendBuffer
         /\ wire' \o output' = wire \o output
         /\ output # <<>>
<1>1. /\ sent \in Nat /\ taken \in Nat /\ SendBuffer \in Nat
      /\ output \in Seq(Bytes) /\ wire \in Seq(Bytes)
      /\ Len(output) \in Nat /\ Len(wire) \in Nat /\ Len(wire) + Len(output) = sent
      /\ taken <= Len(wire) /\ Len(wire) - taken <= SendBuffer
  BY ConstantsAssumption, LenProperties DEF Inv, TypeOK
<1>2. n \in 0..Len(output) /\ n <= SendBuffer - (Len(wire) - taken)
  BY <1>1 DEF MinOf, Free
<1>3. /\ Prefix(output, n) \in Seq(Bytes) /\ Len(Prefix(output, n)) = n
      /\ Suffix(output, n) \in Seq(Bytes) /\ Len(Suffix(output, n)) = Len(output) - n
      /\ Prefix(output, n) \o Suffix(output, n) = output
  BY <1>1, <1>2, Halves
<1>4. wire' \in Seq(Bytes) /\ Len(wire') = Len(wire) + n
  BY <1>1, <1>3, ConcatProperties
<1>5. output' = Suffix(output, n)
  BY DEF Retrieved
<1>6. wire' \o output' = wire \o output
  <2>1. ASSUME NEW p \in Seq(Bytes), NEW q \in Seq(Bytes)
        PROVE  (wire \o p) \o q = wire \o (p \o q)
    <3>1. wire \in Seq(Bytes)
      BY <1>1
    <3>2. QED
      BY ONLY <3>1, ConcatAssociative, p \in Seq(Bytes), q \in Seq(Bytes)
  <2>2. QED
    BY <1>3, <1>5, <2>1, ZenonT(30)
<1>7. output # <<>>
  BY <1>1, <1>2, EmptySeq
<1>8. Len(wire') + Len(output') = sent /\ output' \in Seq(Bytes)
  BY <1>1, <1>3, <1>4, <1>5
<1>9. QED
  BY <1>1, <1>2, <1>4, <1>6, <1>7, <1>8

(* With the last byte the channel still writes, so that nothing is shut.    *)
LEMMA AllWrittenFacts ==
  ASSUME Inv, IsWriting(ch), AllWritten
  PROVE  /\ ch' \in ChannelType /\ ChannelAgrees(ch') /\ ch'.watched
         /\ ch'.events # {} /\ "write" \in ch'.events
         /\ pending' \in Seq(Functors) /\ writeShut' = writeShut
<1>1. ch \in ChannelType /\ ChannelAgrees(ch) /\ writeShut \in BOOLEAN
      /\ pending \in Seq(Functors) /\ "writeComplete" \in Functors
  BY DEF Inv, TypeOK, Functors
<1>2. DisableReading(ch) \in ChannelType /\ ChannelAgrees(DisableReading(ch))
  BY <1>1, MethodFacts
<1>3. DisableReading(ch).events = ch.events \ {"read"} /\ DisableReading(ch).watched
  BY <1>1, MethodFacts
<1>4. ch' = DisableReading(ch)
  BY DEF AllWritten, ChannelWhenWritten
<1>5. "write" \in ch'.events
  BY <1>3, <1>4 DEF IsWriting
<1>6. writeShut' = writeShut
  BY <1>1, <1>5 DEF AllWritten, ShutdownInLoop, IsWriting
<1>7. pending' \in Seq(Functors)
  BY <1>1, AppendProperties DEF AllWritten, Announced
<1>8. QED
  BY <1>2, <1>3, <1>4, <1>5, <1>6, <1>7

(* handleWrite().                                                           *)
LEMMA WriteInv ==
  ASSUME Inv, HandleEvent, HandleWrite, revents = {"OUT"}, revents' = {}
  PROVE  Inv'
<1>1. /\ UNCHANGED <<phase, executing>> /\ Alive /\ phase = "events"
      /\ crashed \in BOOLEAN /\ soError \in Errors
  BY DEF Inv, TypeOK, HandleEvent
<1> DEFINE n == MinOf(Free, Len(output))
<1>2. ASSUME IsWriting(ch), ~reset, n > 0,
             wire' = wire \o Prefix(output, n), output' = Retrieved(n),
             IF n = Len(output) THEN AllWritten ELSE UNCHANGED <<ch, pending, writeShut>>,
             UNCHANGED <<state_, registered, destroyed, userVars, taken, peerVars, crashed>>
      PROVE  Inv'
  <2>1. /\ wire' \in Seq(Bytes) /\ output' \in Seq(Bytes)
        /\ Len(wire') + Len(output') = sent
        /\ taken <= Len(wire') /\ Len(wire') - taken <= SendBuffer /\ output # <<>>
    BY <1>2, WriteFacts
  <2>2. state_ \in Up
    BY <1>2 DEF Inv, TypeOK, States, Lifecycle, Up, IsWriting
  <2>3. /\ ch' \in ChannelType /\ ChannelAgrees(ch') /\ ch'.watched
        /\ ch'.events # {} /\ "write" \in ch'.events
        /\ pending' \in Seq(Functors) /\ writeShut' = writeShut
    <3>1. CASE n = Len(output)
      BY <1>2, <3>1, AllWrittenFacts
    <3>2. CASE n # Len(output)
      BY <1>1, <1>2, <2>2, <3>2 DEF Inv, TypeOK, Lifecycle, IsWriting, Alive
    <3>3. QED
      BY <3>1, <3>2
  <2>4. taken' \in 0..Len(wire')
    BY <1>2, <2>1, LenProperties DEF Inv, TypeOK
  <2>5. TypeOK'
    BY <1>1, <1>2, <2>1, <2>3, <2>4 DEF Inv, TypeOK, ChannelAgrees, userVars, peerVars
  <2>6. Lifecycle'
    BY <1>1, <1>2, <2>2, <2>3 DEF Inv, Lifecycle, Up, userVars
  <2>7. WriteSide'
    BY <1>2, <2>1, <2>2, <2>3 DEF Inv, WriteSide, Up, IsWriting, peerVars
  <2>8. QED
    BY <2>3, <2>5, <2>6, <2>7 DEF Inv
<1>3. CASE UNCHANGED <<connVars, userVars, sendVars, inbound, arrived, peerFin, reset, pending>>
           /\ crashed' \in BOOLEAN /\ soError' \in Errors
  BY <1>1, <1>3, SilentInv
<1>4. QED
  BY <1>1, <1>2, <1>3 DEF HandleWrite, peerVars, Errors

(* Channel::handleEvent.                                                    *)
LEMMA HandleEventInv == Inv /\ HandleEvent => Inv'
<1> SUFFICES ASSUME Inv, HandleEvent PROVE Inv'
  OBVIOUS
<1>1. Alive /\ phase = "events" /\ UNCHANGED <<phase, executing>>
  BY DEF HandleEvent
<1>2. CASE HandleError /\ revents' = {}
  BY <1>1, <1>2, SilentInv DEF HandleError, Errors, Inv, TypeOK
<1>3. CASE "HUP" \in revents /\ HandleClose /\ revents' = {}
  BY <1>1, <1>3, CloseInv
<1>4. CASE revents \cap {"ERR", "HUP"} = {} /\ "IN" \in revents
           /\ HandleRead /\ revents' = revents \ {"IN"}
  BY <1>4, ReadInv
<1>5. CASE revents = {"OUT"} /\ HandleWrite /\ revents' = {}
  BY <1>5, WriteInv
<1>6. QED
  BY <1>2, <1>3, <1>4, <1>5 DEF HandleEvent

(* connectDestroyed(), queued by the close or called by ~TcpServer.         *)
LEMMA DestroyedInv ==
  ASSUME Inv, Alive, ConnectDestroyed, state_ # "kConnecting", revents = {},
         UNCHANGED <<revents, phase, pending>>, executing' \in Seq(Functors),
         registered' \in BOOLEAN
  PROVE  Inv'
<1>1. ch \in ChannelType /\ ChannelAgrees(ch)
  BY DEF Inv, TypeOK
<1>2. destroyed' = TRUE
      /\ UNCHANGED <<output, ups, sent, delivered, sendVars, peerVars, crashed>>
  BY DEF ConnectDestroyed
<1>3. CASE state_ = "kConnected"
  <2>1. state_' = "kDisconnected" /\ ch' = Remove(DisableAll(ch)) /\ downs' = downs + 1
    BY <1>3 DEF ConnectDestroyed, StillUp
  <2>2. DisableAll(ch) \in ChannelType /\ ChannelAgrees(DisableAll(ch))
    BY <1>1, MethodFacts
  <2>3. DisableAll(ch).events = {}
    BY <1>1, MethodFacts
  <2>4. ch' \in ChannelType /\ ChannelAgrees(ch')
    BY <2>1, <2>2, MethodFacts
  <2>5. ch'.events = {} /\ ~ch'.watched
    BY <2>1, <2>2, <2>3, MethodFacts
  <2>6. TypeOK'
    BY <1>2, <2>1, <2>4 DEF Inv, TypeOK, ChannelAgrees, States, sendVars, peerVars
  <2>7. Lifecycle' /\ WriteSide'
    BY <1>2, <1>3, <2>1, <2>5 DEF Inv, Lifecycle, WriteSide, Up, sendVars, peerVars
  <2>8. QED
    BY <2>4, <2>6, <2>7 DEF Inv
<1>4. CASE state_ # "kConnected"
  <2>1. UNCHANGED <<state_, downs>> /\ ch' = Remove(ch)
    BY <1>4 DEF ConnectDestroyed, StillUp
  <2>2. ch' \in ChannelType /\ ChannelAgrees(ch')
    BY <1>1, <2>1, MethodFacts
  <2>3. ch'.events = ch.events /\ ~ch'.watched
    BY <1>1, <2>1, MethodFacts
  <2>4. TypeOK'
    BY <1>2, <2>1, <2>2 DEF Inv, TypeOK, ChannelAgrees, sendVars, peerVars
  <2>5. Lifecycle' /\ WriteSide'
    BY <1>2, <2>1, <2>3 DEF Inv, Lifecycle, WriteSide, Up, sendVars, peerVars
  <2>6. QED
    BY <2>2, <2>4, <2>5 DEF Inv
<1>5. QED
  BY <1>3, <1>4

(* The server's destructor.                                                 *)
LEMMA ServerDestroysInv == Inv /\ ServerDestroys => Inv'
<1> SUFFICES ASSUME Inv, ServerDestroys PROVE Inv'
  OBVIOUS
<1>1. Alive /\ ConnectDestroyed /\ state_ # "kConnecting" /\ revents = {}
      /\ UNCHANGED <<revents, phase, pending, executing>> /\ registered' = FALSE
  BY DEF ServerDestroys, loopVars
<1>2. executing' \in Seq(Functors)
  BY <1>1 DEF Inv, TypeOK
<1>3. QED
  BY <1>1, <1>2, DestroyedInv

(* The rest of the loop.                                                    *)
LEMMA LoopInv == Inv /\ (Poll \/ DoPendingFunctors \/ RunFunctor) => Inv'
<1>1. ASSUME Inv, Poll PROVE Inv'
  <2>1. Ready \subseteq {"ERR", "HUP", "IN", "OUT"} /\ (~ch.watched => Ready = {})
        /\ ("HUP" \in Ready => reset \/ (peerFin /\ writeShut))
    BY DEF Ready
  <2>2. phase' = "events" /\ revents' = Ready
        /\ UNCHANGED <<connVars, userVars, sendVars, peerVars, pending, executing, crashed>>
    BY <1>1 DEF Poll
  <2>3. TypeOK' /\ Lifecycle' /\ WriteSide' /\ ChannelAgrees(ch)'
    BY <1>1, <2>1, <2>2 DEF Inv, TypeOK, Lifecycle, WriteSide, connVars, userVars, sendVars,
                            peerVars
  <2>4. QED
    BY <2>3 DEF Inv
<1>2. ASSUME Inv, DoPendingFunctors PROVE Inv'
  <2>1. executing' = pending /\ pending' = <<>> /\ phase' = "functors" /\ revents = {}
        /\ UNCHANGED <<connVars, userVars, sendVars, peerVars, revents, crashed>>
    BY <1>2 DEF DoPendingFunctors
  <2>2. pending' \in Seq(Functors)
    BY <2>1, EmptySeq
  <2>3. TypeOK' /\ Lifecycle' /\ WriteSide' /\ ChannelAgrees(ch)'
    BY <1>2, <2>1, <2>2 DEF Inv, TypeOK, Lifecycle, WriteSide, connVars, userVars, sendVars,
                            peerVars
  <2>4. QED
    BY <2>3 DEF Inv
<1>3. ASSUME Inv, RunFunctor PROVE Inv'
  <2>1. executing' \in Seq(Functors) /\ revents = {} /\ state_ # "kConnecting" /\ Alive
        /\ UNCHANGED <<revents, phase, pending>>
    BY <1>3, HeadTailProperties DEF RunFunctor, Inv, TypeOK, Lifecycle
  <2>2. CASE ConnectDestroyed /\ UNCHANGED registered
    <3>1. registered' \in BOOLEAN
      BY <1>3, <2>2 DEF Inv, TypeOK
    <3>2. QED
      BY <1>3, <2>1, <2>2, <3>1, DestroyedInv
  <2>3. CASE UNCHANGED <<connVars, userVars, sendVars, peerVars, crashed>>
    <3>1. TypeOK' /\ Lifecycle' /\ WriteSide' /\ ChannelAgrees(ch)'
      BY <1>3, <2>1, <2>3 DEF Inv, TypeOK, Lifecycle, WriteSide, connVars, userVars, sendVars,
                              peerVars
    <3>2. QED
      BY <3>1 DEF Inv
  <2>4. QED
    BY <1>3, <2>2, <2>3 DEF RunFunctor
<1>4. QED
  BY <1>1, <1>2, <1>3

(* Every step keeps the invariant.                                          *)
LEMMA StepInv == Inv /\ [Next]_vars => Inv'
<1> SUFFICES ASSUME Inv, [Next]_vars PROVE Inv'
  OBVIOUS
<1>1. CASE UNCHANGED vars
  BY <1>1 DEF vars, connVars, userVars, sendVars, peerVars, loopVars, Inv, TypeOK, Lifecycle,
              WriteSide
<1>2. QED
  BY <1>1, EstablishedInv, SendInv, ShutdownInv, OutsideInv, HandleEventInv, LoopInv,
     ServerDestroysInv DEF Next, LoopStep

(* How state_, the channel, the queued functors and the sent bytes belong   *)
(* together, for any sizes of the buffers: the inductive invariant.         *)
THEOREM InductiveInvariant == Spec => []Inv
BY InitInv, StepInv, PTL DEF Spec

(* The state of a connection is what the types say.                         *)
THEOREM TypeCorrect == Spec => []TypeOK
BY InductiveInvariant, PTL DEF Inv

------------------------------------------------------------------------------
(* The stream.                                                              *)

(* The wire and the buffer are together as long as what was sent.           *)
LEMMA StreamType ==
  ASSUME Inv
  PROVE  Stream \in Seq(Bytes) /\ Len(Stream) = sent /\ sent \in Nat
BY ConcatProperties, LenProperties, ConstantsAssumption DEF Inv, TypeOK, Stream

(* A message whose write() would block: the byte before it, and all of it   *)
(* but its last byte.                                                       *)
LateMessage(n) == <<Junk>> \o Prefix(Message(n), Len(Message(n)) - 1)

(* Its first byte is junk, the others are late by one.                      *)
LEMMA LateIsSeq ==
  ASSUME sent \in Nat, NEW n \in 1..MaxSent, sent + n <= MaxSent
  PROVE  /\ LateMessage(n) \in Seq(Bytes) /\ Len(LateMessage(n)) = n
         /\ \A k \in 1..n : LateMessage(n)[k] = IF k = 1 THEN Junk ELSE sent + k - 1
<1> DEFINE r == Prefix(Message(n), n - 1)
<1>1. n \in Nat /\ Message(n) \in Seq(Bytes) /\ Len(Message(n)) = n
  BY MessageIsSeq, ConstantsAssumption
<1>2. r \in Seq(Bytes) /\ Len(r) = n - 1
  BY <1>1, Halves
<1>3. \A k \in 1..(n - 1) : r[k] = sent + k
  BY <1>1 DEF Prefix, Message
<1>4. <<Junk>> \in Seq(Bytes) /\ Len(<<Junk>>) = 1 /\ <<Junk>>[1] = Junk
  BY DEF Bytes
<1>5. LateMessage(n) = <<Junk>> \o r
  BY <1>1 DEF LateMessage
<1> HIDE DEF r
<1>6. /\ LateMessage(n) \in Seq(Bytes) /\ Len(LateMessage(n)) = 1 + (n - 1)
      /\ \A k \in 1..1 : LateMessage(n)[k] = <<Junk>>[k]
      /\ \A k \in 2..n : LateMessage(n)[k] = r[k - 1]
  BY <1>1, <1>2, <1>4, <1>5, ConcatProperties
<1>7. ASSUME NEW k \in 2..n PROVE LateMessage(n)[k] = sent + k - 1
  BY <1>1, <1>3, <1>6, <1>7
<1>8. QED
  BY <1>1, <1>4, <1>6, <1>7

(* send(): the message is appended to the stream, late if write() would     *)
(* block.                                                                   *)
LEMMA SendStream ==
  ASSUME Inv, NEW n \in 1..MaxSent, Send(n)
  PROVE  Stream' = Stream \o Message(n) \/ Stream' = Stream \o LateMessage(n)
<1>1. sent \in Nat /\ n \in Nat /\ sent + n <= MaxSent /\ sent' = sent + n
      /\ output \in Seq(Bytes) /\ wire \in Seq(Bytes)
  BY ConstantsAssumption DEF Inv, TypeOK, Send
<1>2. Message(n) \in Seq(Bytes) /\ Len(Message(n)) = n
  BY <1>1, MessageIsSeq
<1>3. ASSUME NEW s \in Seq(Bytes), NEW t \in Seq(Bytes), NEW u \in Seq(Bytes)
      PROVE  (s \o t) \o u = s \o (t \o u)
  BY ONLY <1>3, ConcatAssociative
<1>4. ASSUME NEW s \in Seq(Bytes) PROVE s \o <<>> = s /\ <<>> \o s = s
  BY ONLY <1>4, ConcatEmptySeq
<1>5. CASE Buffered(Message(n)) /\ wire' = wire
  <2>1. Stream' = wire \o (output \o Message(n))
    BY <1>5 DEF Stream, Buffered
  <2>2. QED
    BY <1>1, <1>2, <1>3, <2>1 DEF Stream
<1>6. CASE output = <<>> /\ Free > 0 /\ SendDirect(Message(n))
  <2> DEFINE m == MinOf(Free, Len(Message(n)))
             p == Prefix(Message(n), m)
             q == Suffix(Message(n), m)
  <2>1. m \in 0..n
    BY <1>1, <1>2, <1>6, ConstantsAssumption, LenProperties DEF MinOf, Free, Inv, TypeOK
  <2>2. p \in Seq(Bytes) /\ q \in Seq(Bytes) /\ Len(q) = n - m /\ p \o q = Message(n)
    BY <1>2, <2>1, Halves, ZenonT(30)
  <2>3. wire' = wire \o p
    BY <1>6 DEF SendDirect
  <2>4. output' = q
    <3>1. CASE m = n
      <4>1. q = <<>>
        BY <2>1, <2>2, <3>1, EmptySeq
      <4>2. QED
        BY <1>2, <1>6, <3>1, <4>1 DEF SendDirect
    <3>2. CASE m # n
      <4>1. output' = output \o q
        BY <1>2, <1>6, <3>2 DEF SendDirect, Buffered
      <4>2. QED
        BY <1>4, <1>6, <2>2, <4>1
    <3>3. QED
      BY <3>1, <3>2
  <2> HIDE DEF p, q
  <2>5. Stream' = (wire \o p) \o q
    BY <2>3, <2>4 DEF Stream
  <2>6. Stream' = wire \o Message(n)
    <3>1. (wire \o p) \o q = wire \o (p \o q)
      BY <1>1, <1>3, <2>2
    <3>2. QED
      BY <2>2, <2>5, <3>1
  <2>7. Stream = wire
    BY <1>1, <1>4, <1>6 DEF Stream
  <2>8. QED
    BY <2>6, <2>7
<1>7. CASE SendBlocked(Message(n))
  <2>1. LateMessage(n) \in Seq(Bytes)
    BY <1>1, MessageIsSeq, LateIsSeq
  <2>2. Stream' = wire \o (output \o LateMessage(n))
    BY <1>7 DEF Stream, SendBlocked, Buffered, LateMessage
  <2>3. QED
    BY <1>1, <1>3, <2>1, <2>2 DEF Stream
<1>8. QED
  BY <1>5, <1>6, <1>7 DEF Send

(* No other step changes the stream.                                        *)
LEMMA QuietStream ==
  ASSUME Inv, [Next]_vars, \A n \in 1..MaxSent : ~Send(n)
  PROVE  Stream' = Stream /\ sent' = sent
<1> USE DEF Stream, connVars, userVars, sendVars, peerVars, loopVars, vars
<1>1. CASE ConnectEstablished \/ SendEmpty \/ SendFails \/ Shutdown \/ PeerTakes
             \/ PeerSends \/ PeerShutsDown \/ PeerResets \/ UNCHANGED vars
  BY <1>1 DEF ConnectEstablished, SendEmpty, SendFails, Shutdown, PeerTakes, PeerSends,
              PeerShutsDown,
              PeerResets
<1>2. CASE Poll \/ DoPendingFunctors
  BY <1>2 DEF Poll, DoPendingFunctors
<1>3. CASE RunFunctor \/ ServerDestroys
  BY <1>3 DEF RunFunctor, ServerDestroys, ConnectDestroyed
<1>4. CASE HandleEvent
  <2>1. CASE HandleError
    BY <2>1 DEF HandleError
  <2>2. CASE HandleClose
    BY <2>2 DEF HandleClose
  <2>3. CASE HandleRead
    BY <2>3 DEF HandleRead, HandleError, HandleClose
  <2>4. CASE HandleWrite
    <3> DEFINE n == MinOf(Free, Len(output))
    <3>1. CASE /\ n > 0 /\ wire' = wire \o Prefix(output, n) /\ output' = Retrieved(n)
               /\ UNCHANGED userVars
      BY <3>1, WriteFacts
    <3>2. CASE UNCHANGED <<connVars, userVars, sendVars>>
      BY <3>2
    <3>3. QED
      BY <2>4, <3>1, <3>2 DEF HandleWrite
  <2>5. QED
    BY <1>4, <2>1, <2>2, <2>3, <2>4 DEF HandleEvent
<1>5. QED
  BY <1>1, <1>2, <1>3, <1>4 DEF Next, LoopStep

(* Byte i of a stream is in its place, or late.                             *)
InPlace(s, i) ==
  s[i] \in {i, Junk} \/ (i > 1 /\ s[i] = i - 1 /\ s[i - 1] # i - 1)

(* send(): what is appended is in its place, or late by one after a byte    *)
(* of junk.                                                                 *)
LEMMA SendKeepsPlaces ==
  ASSUME Inv, Inv', StreamIsIntact, NEW n \in 1..MaxSent, Send(n)
  PROVE  StreamIsIntact'
<1>1. Stream \in Seq(Bytes) /\ Len(Stream) = sent /\ sent \in Nat /\ sent + n <= MaxSent
      /\ sent' = sent + n /\ n \in Nat
  BY StreamType, ConstantsAssumption DEF Send
<1>2. /\ Message(n) \in Seq(Bytes) /\ Len(Message(n)) = n
      /\ \A k \in 1..n : Message(n)[k] = sent + k
  BY <1>1, MessageIsSeq DEF Message
<1>3. /\ LateMessage(n) \in Seq(Bytes) /\ Len(LateMessage(n)) = n
      /\ \A k \in 1..n : LateMessage(n)[k] = IF k = 1 THEN Junk ELSE sent + k - 1
  BY <1>1, LateIsSeq
<1>4. PICK m \in {Message(n), LateMessage(n)} : Stream' = Stream \o m
  BY SendStream
<1>5. /\ DOMAIN Stream = 1..sent /\ DOMAIN Stream' = 1..(sent + n)
      /\ \A i \in 1..sent : Stream'[i] = Stream[i]
      /\ \A i \in (sent + 1)..(sent + n) : Stream'[i] = m[i - sent]
  <2>1. m \in Seq(Bytes) /\ Len(m) = n
    BY <1>2, <1>3, <1>4
  <2>2. ASSUME NEW s \in Seq(Bytes), Len(s) = sent
        PROVE  /\ DOMAIN s = 1..sent /\ DOMAIN (s \o m) = 1..(sent + n)
               /\ \A i \in 1..sent : (s \o m)[i] = s[i]
               /\ \A i \in (sent + 1)..(sent + n) : (s \o m)[i] = m[i - sent]
    <3>1. s \o m \in Seq(Bytes) /\ Len(s \o m) = Len(s) + Len(m)
      BY <2>1, <2>2, ConcatProperties
    <3>2. DOMAIN s = 1..Len(s) /\ DOMAIN (s \o m) = 1..Len(s \o m)
      BY <3>1, LenProperties
    <3>3. \A i \in 1..Len(s \o m) : (s \o m)[i] = IF i <= Len(s) THEN s[i] ELSE m[i - Len(s)]
      BY <2>1, <2>2, ConcatProperties
    <3>4. QED
      BY <1>1, <2>1, <2>2, <3>1, <3>2, <3>3
  <2>3. QED
    BY <1>1, <1>4, <2>2
<1>6. ASSUME NEW i \in 1..(sent + n) PROVE InPlace(Stream', i)
  <2>1. CASE i <= sent
    <3>1. i \in 1..sent /\ (i > 1 => i - 1 \in 1..sent)
      BY <1>1, <2>1
    <3>2. Stream'[i] = Stream[i] /\ (i > 1 => Stream'[i - 1] = Stream[i - 1])
      BY <1>5, <3>1
    <3>3. InPlace(Stream, i)
      BY <1>5, <3>1 DEF StreamIsIntact, InPlace
    <3>4. QED
      BY <3>2, <3>3 DEF InPlace
  <2>2. CASE i > sent /\ m = Message(n)
    BY <1>1, <1>2, <1>5, <2>2 DEF InPlace
  <2>3. CASE i = sent + 1 /\ m = LateMessage(n)
    BY <1>1, <1>3, <1>5, <2>3 DEF InPlace
  <2>4. CASE i > sent + 1 /\ m = LateMessage(n)
    <3>1. i - sent \in 2..n /\ (i - 1) - sent \in 1..n /\ i - 1 \in (sent + 1)..(sent + n)
      BY <1>1, <2>4
    <3>2. Stream'[i] = i - 1
      BY <1>1, <1>3, <1>5, <2>4, <3>1
    <3>3. Stream'[i - 1] \in {Junk, i - 2}
      BY <1>1, <1>3, <1>5, <2>4, <3>1
    <3>4. QED
      BY <1>1, <2>4, <3>2, <3>3 DEF Junk, InPlace
  <2>5. i <= sent \/ i = sent + 1 \/ i > sent + 1
    BY <1>1
  <2>6. i = sent + 1 => i > sent
    BY <1>1
  <2>7. i > sent + 1 => i > sent
    BY <1>1
  <2>8. m = Message(n) \/ m = LateMessage(n)
    BY <1>4
  <2>9. QED
    BY <2>1, <2>2, <2>3, <2>4, <2>5, <2>6, <2>7, <2>8
<1>7. QED
  BY <1>5, <1>6 DEF StreamIsIntact, InPlace

(* sendInLoop and handleWrite: messages are appended at the end of the      *)
(* stream, where they begin in their place, and move from the buffer to the *)
(* wire, which does not change it.                                          *)
THEOREM StreamStaysIntact == Spec => []StreamIsIntact
<1>1. Init => StreamIsIntact
  <2> SUFFICES ASSUME Init PROVE StreamIsIntact
    OBVIOUS
  <2>1. Stream = <<>>
    BY ConcatEmptySeq DEF Init, Stream
  <2>2. QED
    BY <2>1 DEF StreamIsIntact
<1>2. ASSUME Inv, Inv', StreamIsIntact, [Next]_vars PROVE StreamIsIntact'
  <2>1. CASE Stream' = Stream
    BY <1>2, <2>1 DEF StreamIsIntact
  <2>2. CASE \E n \in 1..MaxSent : Send(n)
    BY <1>2, <2>2, SendKeepsPlaces
  <2>3. QED
    BY <1>2, <2>1, <2>2, QuietStream
<1>3. QED
  BY <1>1, <1>2, InductiveInvariant, PTL DEF Spec

------------------------------------------------------------------------------
(* The callbacks and the end of the connection.                             *)

(* A handler that reads or closes runs for a connection that is up.         *)
LEMMA HandlerMeansUp ==
  ASSUME Inv, HandleEvent, {"HUP", "IN"} \cap revents # {}
  PROVE  state_ \in Up /\ ups = 1 /\ downs = 0
BY DEF Inv, TypeOK, States, Lifecycle, HandleEvent, Alive, Up

(* handleRead, lines 160-182: what it delivers, and when it closes.         *)
LEMMA ReadFacts ==
  ASSUME Inv, HandleRead
  PROVE  /\ downs' # downs => inbound = 0
         /\ wire' = wire /\ crashed' = crashed
<1>1. inbound \in Nat
  BY ConstantsAssumption DEF Inv, TypeOK
<1>2. CASE DataFirst
  BY <1>2 DEF HandleRead, DataFirst, sendVars
<1>3. CASE HandleError
  BY <1>3 DEF HandleError, userVars, sendVars
<1>4. CASE ~DataFirst /\ HandleClose
  BY <1>1, <1>4 DEF HandleClose, DataFirst, sendVars
<1>5. QED
  BY <1>2, <1>3, <1>4 DEF HandleRead

(* What every step but those of the handlers and of connectDestroyed leaves *)
(* alone.                                                                   *)
LEMMA OtherSteps ==
  ASSUME Inv, [Next]_vars, ~HandleEvent
  PROVE  /\ delivered' = delivered
         /\ downs' # downs => destroyed' /\ ups = 1
         /\ writeShut \/ state_ = "kDisconnected" => wire' = wire
         /\ state_ = "kDisconnected" => crashed' = crashed
<1> USE DEF connVars, userVars, sendVars, peerVars, loopVars, vars
<1>1. CASE ConnectEstablished \/ SendEmpty \/ SendFails \/ Shutdown \/ PeerTakes
             \/ PeerSends \/ PeerShutsDown \/ PeerResets \/ UNCHANGED vars
  BY <1>1 DEF ConnectEstablished, SendEmpty, SendFails, Shutdown, PeerTakes, PeerSends,
              PeerShutsDown,
              PeerResets
<1>2. CASE Poll \/ DoPendingFunctors
  BY <1>2 DEF Poll, DoPendingFunctors
<1>3. CASE RunFunctor \/ ServerDestroys
  BY <1>3 DEF RunFunctor, ServerDestroys, ConnectDestroyed, Inv, Lifecycle
<1>4. ASSUME NEW n \in 1..MaxSent, Send(n)
      PROVE  /\ UNCHANGED <<delivered, downs, crashed>>
             /\ state_ = "kConnected" /\ ~writeShut
  BY <1>4 DEF Send, Inv, WriteSide
<1>5. QED
  BY <1>1, <1>2, <1>3, <1>4 DEF Next, LoopStep

(* handleClose, handleRead and connectDestroyed: whichever ends the         *)
(* connection is the only one to say so, and the data comes between the two *)
(* calls of the connection callback.                                        *)
THEOREM CallbacksInOrder == Spec => OneDownPerUp
<1>1. ASSUME Inv, Inv', [Next]_vars
      PROVE  /\ ups' <= 1 /\ downs' <= ups
             /\ delivered' # delivered => ups = 1 /\ downs = 0
             /\ downs' # downs /\ ~destroyed' /\ ~writeShut /\ ~reset => inbound = 0
  <2>1. ups' <= 1 /\ downs' <= 1 /\ downs <= ups
    BY <1>1, SMTT(30) DEF Inv, TypeOK, States, Lifecycle
  <2>2. CASE ~HandleEvent
    BY <1>1, <2>1, <2>2, OtherSteps
  <2>3. CASE HandleEvent
    <3>1. CASE HandleError
      BY <2>1, <3>1 DEF HandleError, userVars
    <3>2. CASE "HUP" \in revents /\ HandleClose
      BY <1>1, <2>1, <2>3, <3>2, HandlerMeansUp DEF HandleClose, Inv, WriteSide
    <3>3. CASE "IN" \in revents /\ HandleRead
      BY <1>1, <2>1, <2>3, <3>3, ReadFacts, HandlerMeansUp
    <3>4. CASE HandleWrite
      BY <2>1, <3>4 DEF HandleWrite, userVars
    <3>5. QED
      BY <2>3, <3>1, <3>2, <3>3, <3>4 DEF HandleEvent
  <2>4. QED
    BY <2>2, <2>3
<1>2. QED
  BY <1>1, InductiveInvariant, PTL DEF Spec, OneDownPerUp

(* shutdownInLoop, and the handlers that a round still has in store for a   *)
(* connection that is down.                                                 *)
THEOREM EndIsFinal == Spec => NothingWrittenAfterEnd
<1>1. ASSUME Inv, Inv', [Next]_vars
      PROVE  /\ writeShut' /\ ~reset => output' = <<>>
             /\ writeShut \/ state_ = "kDisconnected" => wire' = wire
             /\ state_ = "kDisconnected" => crashed' = crashed
  <2>1. writeShut' => output' = <<>>
    BY <1>1 DEF Inv, WriteSide
  <2>2. CASE ~HandleEvent
    BY <1>1, <2>1, <2>2, OtherSteps
  <2>3. CASE HandleEvent
    <3>1. CASE HandleError
      BY <2>1, <3>1 DEF HandleError, sendVars
    <3>2. CASE HandleClose
      BY <2>1, <3>2 DEF HandleClose, sendVars
    <3>3. CASE HandleRead
      BY <1>1, <2>1, <3>3, ReadFacts
    <3>4. CASE HandleWrite
      <4>1. state_ = "kDisconnected" => ~IsWriting(ch)
        BY <1>1 DEF Inv, Lifecycle, IsWriting
      <4>2. ASSUME wire' # wire PROVE ~writeShut /\ IsWriting(ch)
        <5>1. PICK n : n = MinOf(Free, Len(output)) /\ n > 0 /\ IsWriting(ch)
                       /\ wire' = wire \o Prefix(output, n) /\ output' = Retrieved(n)
          BY <3>4, <4>2 DEF HandleWrite, sendVars
        <5>2. output # <<>>
          BY <1>1, <5>1, WriteFacts
        <5>3. QED
          BY <1>1, <5>1, <5>2 DEF Inv, WriteSide
      <4>3. ~IsWriting(ch) => crashed' = crashed
        BY <3>4 DEF HandleWrite
      <4>4. QED
        BY <2>1, <4>1, <4>2, <4>3
    <3>5. QED
      BY <2>3, <3>1, <3>2, <3>3, <3>4 DEF HandleEvent
  <2>4. QED
    BY <2>2, <2>3
<1>2. QED
  BY <1>1, InductiveInvariant, PTL DEF Spec, NothingWrittenAfterEnd
==============================================================================
