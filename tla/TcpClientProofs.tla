--------------------------- MODULE TcpClientProofs ---------------------------
(***************************************************************************)
(* Theorems about TcpClient, for any number of descriptors.                *)
(*                                                                         *)
(* What a method of the connector may do is decided by what waits in the   *)
(* loop: the invariant says which of the functors that removeAndReset-     *)
(* Channel() and retry() queue can be there in which state, that they run  *)
(* in the order reset before retry, and that the timer set takes over      *)
(* where they end.  So a new attempt finds the channel of the old one      *)
(* reset, and there is one timer.  Luck says which of the calls that the   *)
(* code does not survive have not been made as long as there is no mishap. *)
(***************************************************************************)
EXTENDS TcpClient, SequenceTheorems, WellFoundedInduction, TLAPS

(* What functors call, and what is still to be called.                      *)
CallsIn(s) == {f.call : f \in ToSet(s)}
Waiting == CallsIn(pending) \cup CallsIn(executing)

(* What retry() queues.                                                     *)
Retrying == {"resetChannel", "insertTimer"}

(* Once the retry timer is inserted, nothing of the old attempt is left; a  *)
(* channel is reset twice only on the way to a timer.                       *)
InOrder(s) ==
  \A i, j \in 1..Len(s) :
    i < j => /\ s[i].call = "insertTimer" => s[j].call \notin Retrying
             /\ s[i].call = "resetChannel" /\ s[j].call = "resetChannel" =>
                  "insertTimer" \in CallsIn(s)

------------------------------------------------------------------------------
(* Sequences and sets.                                                      *)

(* ToSet, by index.                                                         *)
LEMMA ElementsOf ==
  ASSUME NEW S, NEW s \in Seq(S)
  PROVE  ToSet(s) = {s[k] : k \in 1..Len(s)} /\ ToSet(s) \subseteq S
<1>1. DOMAIN s = 1..Len(s) /\ \A k \in 1..Len(s) : s[k] \in S
  BY LenProperties, ElementOfSeq
<1>2. QED
  BY <1>1 DEF ToSet

(* After the swap nothing is queued.                                        *)
LEMMA NothingQueued ==
  /\ ToSet(<<>>) = {} /\ CallsIn(<<>>) = {} /\ ConnsOf(<<>>) = {} /\ InOrder(<<>>)
BY DEF ToSet, CallsIn, ConnsOf, InOrder

(* pendingFunctors_ grows at its end: the order is kept if no timer waits   *)
(* there, or if what comes does not belong to a retry.                      *)
LEMMA QueuedConcat ==
  ASSUME NEW s \in Seq(Functor), NEW t \in Seq(Functor)
  PROVE  /\ s \o t \in Seq(Functor)
         /\ CallsIn(s \o t) = CallsIn(s) \cup CallsIn(t)
         /\ ConnsOf(s \o t) = ConnsOf(s) \cup ConnsOf(t)
         /\ /\ InOrder(s) /\ InOrder(t)
            /\ CallsIn(s) \cap Retrying = {} \/ CallsIn(t) \cap Retrying = {}
            => InOrder(s \o t)
<1> DEFINE u == s \o t
<1>1. /\ u \in Seq(Functor) /\ Len(s) \in Nat /\ Len(t) \in Nat /\ Len(u) = Len(s) + Len(t)
      /\ \A k \in 1..Len(s) : u[k] = s[k]
      /\ \A k \in (Len(s) + 1)..Len(u) : u[k] = t[k - Len(s)]
  BY ConcatProperties, LenProperties
<1>2. /\ ToSet(s) = {s[k] : k \in 1..Len(s)} /\ ToSet(t) = {t[k] : k \in 1..Len(t)}
      /\ ToSet(u) = {u[k] : k \in 1..Len(u)}
  BY <1>1, ElementsOf
<1> HIDE DEF u
<1>3. ToSet(u) = ToSet(s) \cup ToSet(t)
  <2>1. ASSUME NEW k \in 1..Len(t)
        PROVE  k + Len(s) \in (Len(s) + 1)..Len(u) /\ u[k + Len(s)] = t[k]
    BY <1>1
  <2>2. ASSUME NEW k \in 1..Len(u) PROVE u[k] \in ToSet(s) \cup ToSet(t)
    <3>1. CASE k \in 1..Len(s)
      BY <1>1, <1>2, <3>1
    <3>2. CASE k \notin 1..Len(s)
      <4>1. k \in (Len(s) + 1)..Len(u) /\ k - Len(s) \in 1..Len(t)
        BY <1>1, <3>2
      <4>2. QED
        BY <1>1, <1>2, <4>1
    <3>3. QED
      BY <3>1, <3>2
  <2>3. 1..Len(s) \subseteq 1..Len(u) /\ (Len(s) + 1)..Len(u) \subseteq 1..Len(u)
    BY <1>1
  <2>4. QED
    BY <1>1, <1>2, <2>1, <2>2, <2>3
<1>4. CallsIn(u) = CallsIn(s) \cup CallsIn(t) /\ ConnsOf(u) = ConnsOf(s) \cup ConnsOf(t)
  BY <1>3 DEF CallsIn, ConnsOf
<1>5. ASSUME InOrder(s), InOrder(t),
             CallsIn(s) \cap Retrying = {} \/ CallsIn(t) \cap Retrying = {},
             NEW i \in 1..Len(u), NEW j \in 1..Len(u), i < j
      PROVE  /\ u[i].call = "insertTimer" => u[j].call \notin Retrying
             /\ u[i].call = "resetChannel" /\ u[j].call = "resetChannel" =>
                  "insertTimer" \in CallsIn(u)
  <2>1. CASE j \in 1..Len(s)
    <3>1. i \in 1..Len(s) /\ u[i] = s[i] /\ u[j] = s[j]
      BY <1>1, <1>5, <2>1
    <3>2. QED
      BY <1>4, <1>5, <2>1, <3>1 DEF InOrder
  <2>2. CASE i \in (Len(s) + 1)..Len(u)
    <3> DEFINE m == i - Len(s)
               n == j - Len(s)
    <3>1. /\ m \in 1..Len(t) /\ n \in 1..Len(t) /\ m < n
          /\ j \in (Len(s) + 1)..Len(u) /\ u[i] = t[m] /\ u[j] = t[n]
      BY <1>1, <1>5, <2>2
    <3> HIDE DEF m, n
    <3>2. QED
      BY <1>4, <1>5, <3>1 DEF InOrder
  <2>3. CASE i \in 1..Len(s) /\ j \in (Len(s) + 1)..Len(u)
    <3> DEFINE n == j - Len(s)
    <3>1. n \in 1..Len(t) /\ u[i] = s[i] /\ u[j] = t[n]
      BY <1>1, <1>5, <2>3
    <3> HIDE DEF n
    <3>2. u[i].call \in CallsIn(s) /\ u[j].call \in CallsIn(t)
      BY <1>2, <2>3, <3>1 DEF CallsIn
    <3>3. QED
      BY <1>5, <3>2 DEF Retrying
  <2>4. QED
    BY <1>1, <1>5, <2>1, <2>2, <2>3
<1>6. QED
  BY <1>1, <1>4, <1>5 DEF u, InOrder

(* The round: the first functor is run, the others stay in order.  None of  *)
(* them belongs to a retry after the insertion of its timer, and a second   *)
(* resetChannel() is followed by one.                                       *)
LEMMA QueuedTail ==
  ASSUME NEW s \in Seq(Functor), s # <<>>
  PROVE  /\ Tail(s) \in Seq(Functor) /\ Head(s) \in Functor
         /\ CallsIn(s) = {Head(s).call} \cup CallsIn(Tail(s))
         /\ ConnsOf(s) = {Head(s).conn} \cup ConnsOf(Tail(s))
         /\ InOrder(s) =>
              /\ InOrder(Tail(s))
              /\ Head(s).call = "insertTimer" => CallsIn(Tail(s)) \cap Retrying = {}
              /\ Head(s).call = "resetChannel" /\ "resetChannel" \in CallsIn(Tail(s)) =>
                   "insertTimer" \in CallsIn(Tail(s))
<1> DEFINE t == Tail(s)
<1>1. /\ Len(s) \in Nat /\ Len(s) >= 1 /\ t \in Seq(Functor) /\ Len(t) = Len(s) - 1
      /\ \A k \in 1..(Len(s) - 1) : t[k] = s[k + 1]
      /\ Head(s) = s[1]
  BY HeadTailProperties, LenProperties, EmptySeq
<1>2. /\ ToSet(s) = {s[k] : k \in 1..Len(s)} /\ ToSet(t) = {t[k] : k \in 1..Len(t)}
      /\ ToSet(s) \subseteq Functor
  BY <1>1, ElementsOf
<1> HIDE DEF t
<1>3. Head(s) \in ToSet(s) /\ Head(s) \in Functor /\ \A x \in ToSet(t) : x \in ToSet(s)
  BY <1>1, <1>2
<1>4. ASSUME NEW x \in ToSet(s), x # Head(s) PROVE x \in ToSet(t)
  <2>1. PICK k \in 1..Len(s) : x = s[k]
    BY <1>2, <1>4
  <2>2. k - 1 \in 1..(Len(s) - 1) /\ (k - 1) + 1 = k
    BY <1>1, <1>4, <2>1
  <2>3. t[k - 1] = x
    BY <1>1, <2>1, <2>2
  <2>4. QED
    BY <1>1, <1>2, <2>2, <2>3
<1>5. ToSet(s) = {Head(s)} \cup ToSet(t)
  BY <1>3, <1>4
<1>6. CallsIn(s) = {Head(s).call} \cup CallsIn(t) /\ ConnsOf(s) = {Head(s).conn} \cup ConnsOf(t)
  BY <1>5 DEF CallsIn, ConnsOf
<1>7. ASSUME InOrder(s), NEW k \in 1..Len(t)
      PROVE  /\ Head(s).call = "insertTimer" => t[k].call \notin Retrying
             /\ Head(s).call = "resetChannel" /\ t[k].call = "resetChannel" =>
                  "insertTimer" \in CallsIn(t)
  <2>1. /\ 1 \in 1..Len(s) /\ k + 1 \in 1..Len(s) /\ 1 < k + 1
        /\ s[k + 1] = t[k] /\ s[1] = Head(s)
    BY <1>1, <1>7
  <2>2. /\ s[1].call = "insertTimer" => s[k + 1].call \notin Retrying
        /\ s[1].call = "resetChannel" /\ s[k + 1].call = "resetChannel" =>
             "insertTimer" \in CallsIn(s)
    BY <1>7, <2>1 DEF InOrder
  <2>3. QED
    BY <1>6, <2>1, <2>2
<1>8. ASSUME InOrder(s)
      PROVE  /\ Head(s).call = "insertTimer" => CallsIn(t) \cap Retrying = {}
             /\ Head(s).call = "resetChannel" /\ "resetChannel" \in CallsIn(t) =>
                  "insertTimer" \in CallsIn(t)
  BY <1>2, <1>7, <1>8 DEF CallsIn
<1>9. ASSUME InOrder(s), NEW i \in 1..Len(t), NEW j \in 1..Len(t), i < j
      PROVE  /\ t[i].call = "insertTimer" => t[j].call \notin Retrying
             /\ t[i].call = "resetChannel" /\ t[j].call = "resetChannel" =>
                  "insertTimer" \in CallsIn(t)
  <2>1. /\ i + 1 \in 1..Len(s) /\ j + 1 \in 1..Len(s) /\ i + 1 < j + 1
        /\ s[i + 1] = t[i] /\ s[j + 1] = t[j]
    BY <1>1, <1>9
  <2>2. /\ s[i + 1].call = "insertTimer" => s[j + 1].call \notin Retrying
        /\ s[i + 1].call = "resetChannel" /\ s[j + 1].call = "resetChannel" =>
             "insertTimer" \in CallsIn(s)
    BY <1>9, <2>1 DEF InOrder
  <2>3. t[j].call \in CallsIn(t)
    BY <1>2 DEF CallsIn
  <2>4. Head(s).call = "insertTimer" => t[j].call \notin Retrying
    BY <1>7, <1>9
  <2>5. QED
    BY <1>6, <2>1, <2>2, <2>4 DEF Retrying
<1>10. QED
  BY <1>1, <1>3, <1>6, <1>8, <1>9 DEF t, InOrder

(* socket() gives the lowest free descriptor: there is one.                 *)
LEMMA LowestIsMember ==
  ASSUME NEW S \in SUBSET Nat, S # {}
  PROVE  Min(S) \in S
<1> DEFINE R == {p \in Nat \X Nat : p[1] < p[2]}
<1>1. OpToRel(<, Nat) = R
  BY Zenon DEF OpToRel
<1>2. IsWellFoundedOn(R, Nat)
  BY <1>1, NatLessThanWellFounded, Zenon
<1>3. PICK m \in S : \A n \in S : <<n, m>> \notin R
  BY <1>2, WFMin, Zenon
<1>4. ASSUME NEW n \in S, ~(m <= n) PROVE FALSE
  <2>1. n \in Nat /\ m \in Nat /\ n < m
    BY <1>4
  <2>2. <<n, m>> \in R
    BY <2>1
  <2>3. QED
    BY <2>2, <1>3, Zenon
<1>5. QED
  BY <1>4 DEF Min

------------------------------------------------------------------------------
(* The connector's methods.                                                 *)

(* Whatever is done to a connector, its record stays one.                   *)
LEMMA ConnectorParts ==
  ASSUME NEW c \in ConnectorType
  PROVE  /\ Fatal(c) \in ConnectorType /\ Close(c) \in ConnectorType
         /\ ResetChannel(c) \in ConnectorType
         /\ \A call \in Calls : Queue(c, call) \in ConnectorType
         /\ RemoveAndResetChannel(c) \in ConnectorType /\ Retry(c) \in ConnectorType
<1>1. ASSUME NEW d \in ConnectorType
      PROVE  Fatal(d) \in ConnectorType /\ Close(d) \in ConnectorType
             /\ ResetChannel(d) \in ConnectorType
             /\ [d EXCEPT !.channel_ = "removed"] \in ConnectorType
  BY DEF ConnectorType, Fatal, Close, ResetChannel
<1>2. ASSUME NEW d \in ConnectorType, NEW call \in Calls PROVE Queue(d, call) \in ConnectorType
  <2>1. Append(d.queued, call) \in Seq(Calls)
    BY AppendProperties DEF ConnectorType
  <2>2. QED
    BY <2>1 DEF ConnectorType, Queue
<1>3. RemoveAndResetChannel(c) \in ConnectorType
  BY <1>1, <1>2 DEF RemoveAndResetChannel, Calls
<1>4. Retry(c) \in ConnectorType
  BY <1>1, <1>2, <1>3 DEF Retry, Calls
<1>5. QED
  BY <1>1, <1>2, <1>3, <1>4

(* removeAndResetChannel() on the channel of an attempt; on the fd that is  *)
(* closed, or on no channel, it does not return, and neither does retry().  *)
LEMMA RemoveFacts ==
  ASSUME NEW c \in ConnectorType
  PROVE  /\ c.channel_ = "added" =>
              RemoveAndResetChannel(c) =
                [c EXCEPT !.channel_ = "removed", !.queued = Append(@, "resetChannel")]
         /\ \/ c.fatal \/ c.channel_ = "null"
            \/ c.channel_ = "removed" /\ c.sockfd = NoFd
            => RemoveAndResetChannel(c).fatal /\ Retry(c).fatal
BY DEF ConnectorType, RemoveAndResetChannel, Fatal, Queue, Retry, Close

(* What connect() makes of c: an attempt only when it is told to wait.      *)
AttemptMade(c, result, fd, d) ==
  /\ d \in ConnectorType
  /\ result = "inProgress" =>
       d = [c EXCEPT !.state_ = "kConnecting", !.channel_ = "added", !.sockfd = fd]
  /\ result = "error" => d = c
  /\ result \in {"refused", "noDescriptor"} => d.fatal

(* connect() in a connector without a channel; retry() does not return.     *)
LEMMA ConnectFacts ==
  ASSUME NEW c \in ConnectorType, ~c.fatal, c.channel_ = "null",
         NEW result \in Results, NEW fd \in Fds \cup {NoFd},
         result = "inProgress" => fd \in Fds
  PROVE  AttemptMade(c, result, fd, Connect(c, result, fd))
<1> USE DEF AttemptMade
<1>1. CASE result = "inProgress"
  BY <1>1 DEF Connect, Connecting, ConnectorType, States
<1>2. CASE result = "refused"
  BY <1>2, ConnectorParts, RemoveFacts DEF Connect
<1>3. CASE result = "error"
  BY <1>3 DEF Connect
<1>4. CASE result = "noDescriptor"
  BY <1>4, ConnectorParts DEF Connect, Fatal, ConnectorType
<1>5. QED
  BY <1>1, <1>2, <1>3, <1>4 DEF Results

(* What a method queues, written as a tuple.                                *)
LEMMA AppendsAre ==
  ASSUME NEW a \in Calls, NEW b \in Calls, NEW e \in Calls
  PROVE  /\ Append(<<>>, a) = <<a>> /\ Append(<<a>>, b) = <<a, b>>
         /\ Append(<<a, b>>, e) = <<a, b, e>>
<1>1. Append(<<>>, a) = <<a>>
  OBVIOUS
<1>2. Append(<<a>>, b) = <<a, b>>
  <2>1. <<a>> \in Seq(Calls) /\ <<a, b>> \in Seq(Calls) /\ Len(<<a, b>>) = 2
        /\ Len(<<a>>) = 1 /\ <<a, b>>[1] = a /\ <<a, b>>[2] = b /\ <<a>>[1] = a
    OBVIOUS
  <2>2. /\ Append(<<a>>, b) \in Seq(Calls) /\ Len(Append(<<a>>, b)) = 2
        /\ Append(<<a>>, b)[1] = a /\ Append(<<a>>, b)[2] = b
    BY <2>1, AppendProperties
  <2>3. \A i \in 1..2 : Append(<<a>>, b)[i] = <<a, b>>[i]
    BY <2>1, <2>2
  <2>4. QED
    BY <2>1, <2>2, <2>3, SeqEqual
<1>3. Append(<<a, b>>, e) = <<a, b, e>>
  <2>1. /\ <<a, b>> \in Seq(Calls) /\ <<a, b, e>> \in Seq(Calls)
        /\ Len(<<a, b>>) = 2 /\ Len(<<a, b, e>>) = 3
        /\ <<a, b>>[1] = a /\ <<a, b>>[2] = b
        /\ <<a, b, e>>[1] = a /\ <<a, b, e>>[2] = b /\ <<a, b, e>>[3] = e
    OBVIOUS
  <2>2. /\ Append(<<a, b>>, e) \in Seq(Calls) /\ Len(Append(<<a, b>>, e)) = 3
        /\ Append(<<a, b>>, e)[1] = a /\ Append(<<a, b>>, e)[2] = b
        /\ Append(<<a, b>>, e)[3] = e
    BY <2>1, AppendProperties
  <2>3. \A i \in 1..3 : Append(<<a, b>>, e)[i] = <<a, b, e>>[i]
    BY <2>1, <2>2
  <2>4. QED
    BY <2>1, <2>2, <2>3, SeqEqual
<1>4. QED
  BY <1>1, <1>2, <1>3

(* handleError() in an attempt: its order is the one that survives.  The    *)
(* channel is reset twice before the timer is inserted.                     *)
LEMMA HandleErrorFacts ==
  ASSUME NEW c \in ConnectorType, c.queued = <<>>, c.state_ = "kConnecting",
         c.channel_ = "added", c.sockfd # NoFd
  PROVE  HandleError(c) =
           [c EXCEPT !.channel_ = "removed", !.sockfd = NoFd,
                     !.queued = <<"resetChannel", "resetChannel", "insertTimer">>]
<1> DEFINE d == RemoveAndResetChannel(c)
           e == [d EXCEPT !.queued = <<"resetChannel", "resetChannel">>]
<1>1. Append(c.queued, "resetChannel") = <<"resetChannel">>
      /\ Append(<<"resetChannel">>, "resetChannel") = <<"resetChannel", "resetChannel">>
      /\ Append(<<"resetChannel", "resetChannel">>, "insertTimer") =
           <<"resetChannel", "resetChannel", "insertTimer">>
  BY AppendsAre DEF Calls
<1>2. d = [c EXCEPT !.channel_ = "removed", !.queued = <<"resetChannel">>]
  BY <1>1, RemoveFacts
<1>3. RemoveAndResetChannel(d) = e
  BY <1>1, <1>2 DEF ConnectorType, RemoveAndResetChannel, Queue
<1>4. Retry(d) = [e EXCEPT !.sockfd = NoFd,
                            !.queued = <<"resetChannel", "resetChannel", "insertTimer">>]
  BY <1>1, <1>2, <1>3 DEF ConnectorType, Retry, Close, Queue
<1>5. QED
  BY <1>2, <1>4 DEF ConnectorType, HandleError

(* handleWrite() in an attempt hands the descriptor over or does not return.*)
LEMMA HandleWriteFacts ==
  ASSUME NEW c \in ConnectorType, c.queued = <<>>, c.state_ = "kConnecting",
         c.channel_ = "added", NEW s
  PROVE  /\ HandleWrite(c, s) \in ConnectorType
         /\ HandsOver(c, s) =>
              HandleWrite(c, s) =
                [c EXCEPT !.channel_ = "removed", !.sockfd = NoFd, !.state_ = "kConnected",
                          !.queued = <<"resetChannel">>]
         /\ ~HandsOver(c, s) => HandleWrite(c, s).fatal
<1> DEFINE d == RemoveAndResetChannel(c)
<1>1. d = [c EXCEPT !.channel_ = "removed", !.queued = <<"resetChannel">>]
      /\ d \in ConnectorType
  <2>1. Append(c.queued, "resetChannel") = <<"resetChannel">>
    BY AppendsAre DEF Calls
  <2>2. QED
    BY <2>1, RemoveFacts, ConnectorParts
<1>2. Close(d) \in ConnectorType /\ Close(d).channel_ = "removed" /\ Close(d).sockfd = NoFd
  <2> HIDE DEF d
  <2>1. d.channel_ = "removed"
    BY <1>1 DEF ConnectorType
  <2>2. Close(d) \in ConnectorType
    BY <1>1, ConnectorParts
  <2>3. QED
    BY <1>1, <2>1, <2>2 DEF Close, ConnectorType
<1>3. Retry(Close(d)).fatal /\ Retry(Close(d)) \in ConnectorType
  BY <1>2, RemoveFacts, ConnectorParts
<1>4. Close([d EXCEPT !.state_ = "kConnected"]) =
        [c EXCEPT !.channel_ = "removed", !.sockfd = NoFd, !.state_ = "kConnected",
                  !.queued = <<"resetChannel">>]
      /\ Close([d EXCEPT !.state_ = "kConnected"]) \in ConnectorType
  BY <1>1 DEF Close, ConnectorType, States
<1>5. QED
  BY <1>3, <1>4 DEF HandleWrite

(* stopInLoop() in an attempt, or between two, does not return: it closes   *)
(* the descriptor before retry() removes the channel.                       *)
LEMMA StopInLoopFacts ==
  ASSUME NEW c \in ConnectorType
  PROVE  /\ StopInLoop(c) \in ConnectorType
         /\ c.state_ = "kConnecting" => StopInLoop(c).fatal
         /\ c.state_ # "kConnecting" => StopInLoop(c) = c
<1>1. CASE c.state_ = "kConnecting"
  <2> DEFINE b == [c EXCEPT !.state_ = "kDisconnected"]
             d == RemoveAndResetChannel(b)
  <2>1. b \in ConnectorType
    BY DEF ConnectorType, States
  <2>2. d \in ConnectorType /\ Close(d) \in ConnectorType
    BY <2>1, ConnectorParts
  <2>3. Close(d).sockfd = NoFd
    BY <2>2 DEF Close, ConnectorType
  <2>4. Close(d).channel_ = "removed" \/ Close(d).fatal
    BY <2>1 DEF RemoveAndResetChannel, Queue, Fatal, Close, ConnectorType
  <2>5. Retry(Close(d)).fatal /\ Retry(Close(d)) \in ConnectorType
    BY <2>2, <2>3, <2>4, RemoveFacts, ConnectorParts
  <2>6. QED
    BY <1>1, <2>5 DEF StopInLoop
<1>2. CASE c.state_ # "kConnecting"
  BY <1>2 DEF StopInLoop
<1>3. QED
  BY <1>1, <1>2

------------------------------------------------------------------------------
(* The invariant.                                                           *)

(* In every state, the last one included.                                   *)
Record ==
  /\ connector.fatal <=> crashed
  /\ socket = "none" <=> connector.sockfd = NoFd
  /\ crashed => mishap

(* Connecting() finds no channel, resetChannel() not the next one's.        *)
OneAttempt ==
  /\ connector.channel_ = "added" <=> connector.sockfd # NoFd
  /\ connector.channel_ = "added" =>
       connector.state_ = "kConnecting" /\ Waiting \cap Retrying = {}
  /\ connector.channel_ = "removed" => "resetChannel" \in Waiting
  /\ connector.channel_ # "null" => alive /\ timers = 0
  /\ connector.state_ = "kDisconnected" => connector.channel_ = "null"
  /\ connector.state_ # "kConnecting" /\ connector.channel_ = "null" =>
       "resetChannel" \notin Waiting

(* A retry is queued, or its timer is set.                                  *)
OneTimer ==
  /\ timers > 0 \/ "insertTimer" \in Waiting => connector.state_ = "kConnecting"
  /\ timers > 0 => Waiting \cap Retrying = {}
  /\ InOrder(pending) /\ InOrder(executing)

(* What a round has in store: events of the attempt there is.               *)
Round ==
  /\ phase # "events" =>
       active = {} /\ activeConns = {} /\ CallsIn(pending) \cap Retrying = {}
  /\ phase # "functors" => executing = <<>>
  /\ "timer" \in active => expired
  /\ "OUT" \in active => connector.channel_ = "added" /\ "ERR" \notin active
                         /\ socket \in {"connected", "self", "failed"}
  /\ "ERR" \in active => connector.channel_ = "added"

(* connection_ has not closed; the others are referred to by functors or by *)
(* the program.                                                             *)
Connections ==
  /\ AttemptOrConnection
  /\ connection_ # NoFd =>
       alive /\ connection_ \notin ran \cup ConnsOf(pending) \cup ConnsOf(executing)
  /\ ConnsOf(pending) \cup ConnsOf(executing) \subseteq live \cup {NoFd}
  /\ alive => activeConns \subseteq {connection_}
  /\ connection_ \in activeConns => "resetChannel" \notin Waiting

(* Until a mishap, or the end of the loop.                                  *)
Luck ==
  ~mishap /\ phase # "ended" =>
    /\ connector.state_ = "kConnecting" => connector.connect_ /\ "stopInLoop" \notin Waiting
    /\ socket # "self" /\ ("OUT" \in active => socket = "connected")
    /\ ~alive => /\ watched = {} /\ activeConns = {}
                 /\ Waiting \cap {"stopInLoop", "resetChannel"} = {}

Running == OneAttempt /\ OneTimer /\ Round /\ Connections /\ Luck

Inv == TypeOK /\ Record /\ (~crashed => Running)

(* The types of the variables that are flags.                               *)
LEMMA Flags ==
  TypeOK <=>
    /\ connector \in ConnectorType /\ connector.queued = <<>>
    /\ connect_ \in BOOLEAN /\ retry_ \in BOOLEAN /\ alive \in BOOLEAN
    /\ serverUp \in BOOLEAN /\ expired \in BOOLEAN /\ crashed \in BOOLEAN
    /\ mishap \in BOOLEAN
    /\ connection_ \in live \cup {NoFd}
    /\ live \subseteq Fds /\ held \subseteq live /\ watched \subseteq live
    /\ peerClosed \subseteq live
    /\ socket \in {"none", "pending", "connected", "self", "failed"}
    /\ timers \in 0..1 /\ (expired => timers > 0)
    /\ phase \in {"events", "functors", "ended"}
    /\ active \subseteq {"timer", "OUT", "ERR"} /\ activeConns \subseteq Fds
    /\ pending \in Seq(Functor) /\ executing \in Seq(Functor) /\ ran \subseteq live
BY DEF TypeOK

(* A descriptor is a number above zero.                                     *)
LEMMA DescriptorIsNotNoFd == NoFd \notin Fds /\ Fds \subseteq Nat
BY MaxFdsAssumption DEF Fds, NoFd

(* createNonblockingOrDie: the descriptor of an attempt is no connection's. *)
LEMMA AnswerFacts ==
  ASSUME TypeOK, NEW result \in Answers
  PROVE  /\ result \in Results /\ NewFd \in Fds \cup {NoFd}
         /\ result = "inProgress" => NewFd \in Fds \ live
<1>1. FreeFds \subseteq Fds \ live /\ FreeFds \in SUBSET Nat
  BY DescriptorIsNotNoFd DEF FreeFds
<1>2. FreeFds # {} => NewFd \in FreeFds
  BY <1>1, LowestIsMember DEF NewFd
<1>3. FreeFds = {} => NewFd = NoFd
  BY DEF NewFd
<1>4. QED
  BY <1>1, <1>2, <1>3 DEF Answers

(* InOrder, of what a method queues.                                        *)
CallsInOrder(calls) ==
  \A i, j \in 1..Len(calls) :
    i < j => /\ calls[i] = "insertTimer" => calls[j] \notin Retrying
             /\ calls[i] = "resetChannel" /\ calls[j] = "resetChannel" =>
                  "insertTimer" \in ToSet(calls)

(* queueInLoop: what a method queued becomes functors.                      *)
FunctorsOf(calls) == [i \in DOMAIN calls |-> [call |-> calls[i], conn |-> NoFd]]

(* They are functors of no connection, in the order of the calls.           *)
LEMMA FunctorsOfCalls ==
  ASSUME NEW calls \in Seq(Calls)
  PROVE  /\ FunctorsOf(calls) \in Seq(Functor)
         /\ CallsIn(FunctorsOf(calls)) = ToSet(calls)
         /\ ConnsOf(FunctorsOf(calls)) \subseteq {NoFd}
         /\ InOrder(FunctorsOf(calls)) <=> CallsInOrder(calls)
         /\ calls = <<>> => FunctorsOf(calls) = <<>>
<1> DEFINE t == FunctorsOf(calls)
<1>1. DOMAIN calls = 1..Len(calls) /\ Len(calls) \in Nat
      /\ \A i \in 1..Len(calls) : calls[i] \in Calls
  BY LenProperties, ElementOfSeq
<1>2. /\ t = [i \in 1..Len(calls) |-> [call |-> calls[i], conn |-> NoFd]]
      /\ \A i \in 1..Len(calls) : [call |-> calls[i], conn |-> NoFd] \in Functor
  BY <1>1 DEF FunctorsOf, Functor
<1> HIDE DEF t
<1>3. t \in Seq(Functor)
  BY <1>1, <1>2, IsASeq
<1>4. Len(t) = Len(calls) /\ \A i \in 1..Len(calls) : t[i].call = calls[i] /\ t[i].conn = NoFd
  BY <1>1, <1>2, <1>3, LenProperties
<1>5. ToSet(t) = {t[i] : i \in 1..Len(calls)} /\ ToSet(calls) = {calls[i] : i \in 1..Len(calls)}
  BY <1>3, <1>4, ElementsOf
<1>6. CallsIn(t) = ToSet(calls) /\ ConnsOf(t) \subseteq {NoFd}
  BY <1>4, <1>5 DEF CallsIn, ConnsOf
<1>7. InOrder(t) <=> CallsInOrder(calls)
  BY <1>4, <1>6 DEF InOrder, CallsInOrder
<1>8. calls = <<>> => t = <<>>
  BY <1>3, <1>4, EmptySeq
<1>9. QED
  BY <1>3, <1>6, <1>7, <1>8 DEF t

(* What the methods queue, in the order of Retrying.                        *)
LEMMA TuplesInOrder ==
  /\ ToSet(<<>>) = {} /\ CallsInOrder(<<>>)
  /\ \A call \in Calls : ToSet(<<call>>) = {call} /\ CallsInOrder(<<call>>)
  /\ ToSet(<<"resetChannel", "resetChannel", "insertTimer">>) = Retrying
  /\ CallsInOrder(<<"resetChannel", "resetChannel", "insertTimer">>)
<1>1. ToSet(<<>>) = {} /\ CallsInOrder(<<>>)
  BY NothingQueued DEF CallsInOrder
<1>2. ASSUME NEW call \in Calls PROVE ToSet(<<call>>) = {call} /\ CallsInOrder(<<call>>)
  BY DEF ToSet, CallsInOrder
<1>3. /\ ToSet(<<"resetChannel", "resetChannel", "insertTimer">>) = Retrying
      /\ CallsInOrder(<<"resetChannel", "resetChannel", "insertTimer">>)
  <2> DEFINE s == <<"resetChannel", "resetChannel", "insertTimer">>
  <2>1. Len(s) = 3 /\ s[1] = "resetChannel" /\ s[2] = "resetChannel" /\ s[3] = "insertTimer"
        /\ s \in Seq(Calls)
    BY DEF Calls
  <2> HIDE DEF s
  <2>2. ToSet(s) = {s[k] : k \in 1..3}
    BY <2>1, ElementsOf
  <2>3. ToSet(s) = Retrying
    BY <2>1, <2>2 DEF Retrying
  <2>4. CallsInOrder(s)
    BY <2>1, <2>3 DEF CallsInOrder, Retrying
  <2>5. QED
    BY <2>3, <2>4 DEF s
<1>4. QED
  BY <1>1, <1>2, <1>3

(* What a call leaves behind: its record, and its functors at the end.      *)
LEMMA BecomesFacts ==
  ASSUME TypeOK, NEW c \in ConnectorType, NEW functors \in Seq(Functor),
         Becomes(c, functors)
  PROVE  /\ connector' \in ConnectorType /\ connector'.queued = <<>>
         /\ connector' = [c EXCEPT !.queued = <<>>]
         /\ crashed' \in BOOLEAN /\ (connector'.fatal <=> crashed') /\ crashed' = c.fatal
         /\ pending' \in Seq(Functor)
         /\ CallsIn(pending') = CallsIn(pending) \cup CallsIn(functors) \cup ToSet(c.queued)
         /\ ConnsOf(pending) \cup ConnsOf(functors) \subseteq ConnsOf(pending')
         /\ ConnsOf(pending') \subseteq ConnsOf(pending) \cup ConnsOf(functors) \cup {NoFd}
         /\ /\ InOrder(pending) /\ InOrder(functors) /\ CallsInOrder(c.queued)
            /\ \/ (CallsIn(pending) \cup CallsIn(functors)) \cap Retrying = {}
               \/ (CallsIn(functors) \cup ToSet(c.queued)) \cap Retrying = {}
            => InOrder(pending')
         /\ c.queued = <<>> /\ functors = <<>> => pending' = pending
<1>1. /\ connector' = [c EXCEPT !.queued = <<>>] /\ crashed' = c.fatal
      /\ pending' = (pending \o functors) \o FunctorsOf(c.queued)
  BY DEF Becomes, FunctorsOf
<1>2. c.queued \in Seq(Calls) /\ pending \in Seq(Functor)
  BY Flags DEF ConnectorType
<1>3. connector' \in ConnectorType /\ connector'.queued = <<>> /\ crashed' \in BOOLEAN
      /\ (connector'.fatal <=> crashed')
  <2>1. <<>> \in Seq(Calls)
    BY EmptySeq
  <2>2. connector'.fatal = c.fatal /\ c.fatal \in BOOLEAN
    BY <1>1 DEF ConnectorType
  <2>3. connector' \in ConnectorType /\ connector'.queued = <<>>
    BY <1>1, <2>1 DEF ConnectorType
  <2>4. QED
    BY <1>1, <2>2, <2>3
<1>4. /\ pending \o functors \in Seq(Functor)
      /\ CallsIn(pending \o functors) = CallsIn(pending) \cup CallsIn(functors)
      /\ ConnsOf(pending \o functors) = ConnsOf(pending) \cup ConnsOf(functors)
      /\ /\ InOrder(pending) /\ InOrder(functors)
         /\ CallsIn(pending) \cap Retrying = {} \/ CallsIn(functors) \cap Retrying = {}
         => InOrder(pending \o functors)
  BY <1>2, QueuedConcat
<1>5. /\ pending' \in Seq(Functor)
      /\ CallsIn(pending') = CallsIn(pending \o functors) \cup ToSet(c.queued)
      /\ ConnsOf(pending') \subseteq ConnsOf(pending \o functors) \cup {NoFd}
      /\ ConnsOf(pending \o functors) \subseteq ConnsOf(pending')
      /\ /\ InOrder(pending \o functors) /\ CallsInOrder(c.queued)
         /\ \/ CallsIn(pending \o functors) \cap Retrying = {}
            \/ ToSet(c.queued) \cap Retrying = {}
         => InOrder(pending')
  <2> DEFINE s == pending \o functors
             u == FunctorsOf(c.queued)
  <2>1. /\ u \in Seq(Functor) /\ CallsIn(u) = ToSet(c.queued)
        /\ ConnsOf(u) \subseteq {NoFd} /\ (InOrder(u) <=> CallsInOrder(c.queued))
    BY <1>2, FunctorsOfCalls
  <2>2. s \in Seq(Functor) /\ pending' = s \o u
    BY <1>1, <1>4
  <2> HIDE DEF s, u
  <2>3. QED
    <3>1. /\ s \o u \in Seq(Functor) /\ CallsIn(s \o u) = CallsIn(s) \cup CallsIn(u)
          /\ ConnsOf(s \o u) = ConnsOf(s) \cup ConnsOf(u)
          /\ /\ InOrder(s) /\ InOrder(u)
             /\ CallsIn(s) \cap Retrying = {} \/ CallsIn(u) \cap Retrying = {}
             => InOrder(s \o u)
      BY <2>1, <2>2, QueuedConcat
    <3>2. QED
      BY <2>1, <2>2, <3>1 DEF s
<1>6. c.queued = <<>> /\ functors = <<>> => pending' = pending
  <2>1. pending \o <<>> = pending
    BY <1>2, ConcatEmptySeq
  <2>2. QED
    BY <1>1, <1>2, <2>1, FunctorsOfCalls
<1>7. QED
  BY <1>1, <1>3, <1>4, <1>5, <1>6

(* The socket is there when the descriptor is.                              *)
LEMMA SocketFollows ==
  ASSUME TypeOK, Record, NEW c \in ConnectorType, NEW functors, Becomes(c, functors)
  PROVE  /\ socket' \in {"none", "pending", "connected", "self", "failed"}
         /\ socket' = "none" <=> connector'.sockfd = NoFd
         /\ c.sockfd = connector.sockfd => socket' = socket
         /\ socket' \in {"none", "pending", socket}
<1>1. connector'.sockfd = c.sockfd
  BY DEF Becomes, ConnectorType
<1>2. socket' = IF c.sockfd = NoFd THEN "none"
                ELSE IF connector.sockfd = NoFd THEN "pending" ELSE socket
  BY DEF Becomes
<1>3. socket \in {"none", "pending", "connected", "self", "failed"}
  BY Flags
<1>4. QED
  BY <1>1, <1>2, <1>3 DEF Record

------------------------------------------------------------------------------
(* Steps that call no method of the connector.                              *)

(* The start: nothing is attempted, queued or connected.                    *)
LEMMA InitInv == Init => Inv
<1> SUFFICES ASSUME Init PROVE Inv
  OBVIOUS
<1>1. Waiting = {} /\ CallsIn(pending) = {} /\ ConnsOf(pending) = {} /\ ConnsOf(executing) = {}
      /\ InOrder(pending) /\ InOrder(executing)
  BY NothingQueued DEF Init, Waiting
<1>2. connector \in ConnectorType /\ <<>> \in Seq(Functor)
  <2>1. <<>> \in Seq(Calls) /\ <<>> \in Seq(Functor)
    BY EmptySeq
  <2>2. QED
    BY <2>1 DEF Init, NewConnector, ConnectorType, States
<1>3. TypeOK
  <2>1. /\ connector.queued = <<>> /\ live = {} /\ held = {} /\ watched = {} /\ ran = {}
        /\ peerClosed = {} /\ active = {} /\ activeConns = {} /\ connection_ = NoFd
        /\ timers = 0 /\ expired = FALSE
    BY DEF Init, NewConnector
  <2>2. {connect_, retry_, alive, serverUp, expired, crashed, mishap} \subseteq BOOLEAN
    BY DEF Init
  <2>3. pending \in Seq(Functor) /\ executing \in Seq(Functor)
        /\ phase = "functors" /\ socket = "none"
    BY <1>2 DEF Init
  <2>4. QED
    BY <1>2, <2>1, <2>2, <2>3 DEF TypeOK
<1>4. Record /\ OneAttempt /\ OneTimer /\ Round /\ Luck
  BY <1>1, <1>3, Flags
     DEF Init, NewConnector, Record, OneAttempt, OneTimer, Round, Luck
<1>5. Connections
  BY <1>1, DescriptorIsNotNoFd DEF Init, NewConnector, Connections, AttemptOrConnection
<1>6. QED
  BY <1>3, <1>4, <1>5 DEF Inv, Running

(* After the process is gone only the types and the blame are left to show. *)
LEMMA CrashInv == ASSUME TypeOK', Record', crashed' PROVE Inv'
BY DEF Inv

(* A step after which the connector, the functors and the connections are   *)
(* what they were.                                                          *)
LEMMA QuietInv ==
  ASSUME Inv, ~crashed,
         UNCHANGED <<connector, connection_, alive, connVars, timers, pending, executing,
                     ran, crashed>>,
         connect_' \in BOOLEAN, retry_' \in BOOLEAN, serverUp' \in BOOLEAN,
         expired' \in BOOLEAN, mishap' \in BOOLEAN,
         peerClosed' \subseteq live, expired' => timers > 0,
         socket' \in {"none", "pending", "connected", "self", "failed"},
         socket' = "none" <=> socket = "none",
         phase' \in {"events", "functors", "ended"}, active' \subseteq {"timer", "OUT", "ERR"},
         activeConns' \subseteq Fds, alive => activeConns' \subseteq {connection_},
         connection_ \in activeConns' => "resetChannel" \notin Waiting,
         Round', Luck'
  PROVE  Inv'
<1>1. Waiting' = Waiting
  BY DEF Waiting
<1>2. TypeOK'
  <2>1. /\ connector' = connector /\ connection_' = connection_ /\ alive' = alive
        /\ live' = live /\ held' = held /\ watched' = watched /\ timers' = timers
        /\ pending' = pending /\ executing' = executing /\ ran' = ran /\ crashed' = crashed
    BY DEF connVars
  <2>2. {connect_', retry_', alive, serverUp', expired', crashed, mishap'} \subseteq BOOLEAN
    BY Flags DEF Inv
  <2>3. QED
    BY <2>1, <2>2, Flags DEF Inv, TypeOK
<1>3. Record' /\ OneAttempt' /\ OneTimer'
  BY <1>1 DEF Inv, Running, Record, OneAttempt, OneTimer
<1>4. Connections'
  BY <1>1 DEF Inv, Running, Connections, AttemptOrConnection, connVars
<1>5. QED
  BY <1>2, <1>3, <1>4 DEF Inv, Running

(* The program's flags, the server, the network and time.                   *)
LEMMA OutsideInv ==
  ASSUME Inv, ~crashed,
         \/ EnableRetry \/ Disconnect \/ Resolve \/ SocketFails \/ ServerChanges
         \/ TimerExpires \/ Quit \/ \E fd \in Fds : PeerCloses(fd)
  PROVE  Inv'
<1> USE DEF connVars, clientVars, peerVars, timerVars, roundVars
<1>1. TypeOK /\ Record /\ Round /\ Connections /\ Luck
  BY DEF Inv, Running
<1>2. /\ alive => activeConns \subseteq {connection_}
      /\ connection_ \in activeConns => "resetChannel" \notin Waiting
  BY <1>1 DEF Connections
<1>3. CASE EnableRetry \/ Disconnect
  <2>1. Waiting' = Waiting
    BY <1>3 DEF EnableRetry, Disconnect, Waiting
  <2>2. Round' /\ Luck'
    BY <1>1, <1>3, <2>1 DEF EnableRetry, Disconnect, Round, Luck
  <2>3. CASE EnableRetry
    BY <1>1, <1>2, <2>2, <2>3, Flags, QuietInv DEF EnableRetry
  <2>4. CASE Disconnect
    BY <1>1, <1>2, <2>2, <2>4, Flags, QuietInv DEF Disconnect
  <2>5. QED
    BY <1>3, <2>3, <2>4
<1>4. CASE Resolve
  <2>1. Waiting' = Waiting /\ mishap' = (mishap \/ socket' = "self")
    BY <1>4 DEF Resolve, Waiting, Blame
  <2>2. socket' \in {"connected", "failed", "self"}
    BY <1>4 DEF Resolve
  <2>3. "OUT" \notin active
    BY <1>1, <1>4 DEF Resolve, Round
  <2>4. Round' /\ Luck'
    BY <1>1, <1>4, <2>1, <2>2, <2>3 DEF Resolve, Round, Luck
  <2>5. QED
    BY <1>1, <1>2, <1>4, <2>1, <2>2, <2>4, Flags, QuietInv DEF Resolve
<1>5. CASE SocketFails
  <2>1. Waiting' = Waiting /\ mishap' = (mishap \/ "OUT" \in active)
    BY <1>5 DEF SocketFails, Waiting, Blame
  <2>2. Round' /\ Luck'
    BY <1>1, <1>5, <2>1 DEF SocketFails, Round, Luck
  <2>3. QED
    BY <1>1, <1>2, <1>5, <2>1, <2>2, Flags, QuietInv DEF SocketFails
<1>6. CASE ServerChanges
  <2>1. Waiting' = Waiting
    BY <1>6 DEF ServerChanges, Waiting
  <2>2. Round' /\ Luck'
    BY <1>1, <1>6, <2>1 DEF ServerChanges, Round, Luck
  <2>3. QED
    BY <1>1, <1>2, <1>6, <2>2, Flags, QuietInv DEF ServerChanges
<1>7. CASE TimerExpires
  <2>1. Waiting' = Waiting
    BY <1>7 DEF TimerExpires, Waiting
  <2>2. Round' /\ Luck'
    BY <1>1, <1>7, <2>1 DEF TimerExpires, Round, Luck
  <2>3. QED
    BY <1>1, <1>2, <1>7, <2>2, Flags, QuietInv DEF TimerExpires
<1>8. CASE Quit
  <2>1. Waiting' = Waiting
    BY <1>8 DEF Quit, Waiting
  <2>2. Round' /\ Luck'
    BY <1>1, <1>8, <2>1 DEF Quit, Round, Luck
  <2>3. QED
    BY <1>1, <1>2, <1>8, <2>2, Flags, QuietInv DEF Quit
<1>9. ASSUME NEW fd \in Fds, PeerCloses(fd) PROVE Inv'
  <2>1. Waiting' = Waiting
    BY <1>9 DEF PeerCloses, Waiting
  <2>2. Round' /\ Luck'
    BY <1>1, <1>9, <2>1 DEF PeerCloses, Round, Luck
  <2>3. peerClosed' \subseteq live
    BY <1>1, <1>9, Flags DEF PeerCloses
  <2>4. QED
    BY <1>1, <1>2, <1>9, <2>2, <2>3, Flags, QuietInv DEF PeerCloses
<1>10. QED
  BY <1>3, <1>4, <1>5, <1>6, <1>7, <1>8, <1>9

(* What epoll reports is of the attempt there is and of connection_; what   *)
(* the last round queued has been run.                                      *)
LEMMA PollInv == ASSUME Inv, ~crashed, Poll PROVE Inv'
<1> USE DEF connVars, clientVars, peerVars, timerVars
<1>1. TypeOK /\ Record /\ OneAttempt /\ Round /\ Connections /\ Luck
  BY DEF Inv, Running
<1>2. Waiting' = Waiting /\ Waiting \cap Retrying = {}
  <2>1. CallsIn(executing) = {} /\ CallsIn(pending) \cap Retrying = {}
    BY <1>1, NothingQueued DEF Poll, Round
  <2>2. QED
    BY <2>1 DEF Poll, Waiting
<1>3. activeConns' \subseteq watched
  BY DEF Poll
<1>4. socket' = socket /\ (socket # "none" => connector.channel_ = "added")
  BY <1>1 DEF Poll, Record, OneAttempt
<1>5. Round'
  BY <1>2, <1>4 DEF Poll, Round
<1>6. Luck'
  <2>1. "OUT" \in active' => socket \in {"connected", "self"}
    BY DEF Poll
  <2>2. phase = "functors" /\ phase' = "events"
    BY DEF Poll
  <2>3. QED
    BY <1>1, <1>2, <1>3, <2>1, <2>2 DEF Poll, Luck
<1>7. alive => activeConns' \subseteq {connection_}
  BY <1>1, <1>3 DEF Connections, AttemptOrConnection
<1>8. "resetChannel" \notin Waiting
  BY <1>2 DEF Retrying
<1>9. activeConns' \subseteq Fds /\ active' \subseteq {"timer", "OUT", "ERR"}
  BY <1>1, <1>3, Flags DEF Poll
<1>10. QED
  BY <1>1, <1>5, <1>6, <1>7, <1>8, <1>9, Flags, QuietInv DEF Poll

------------------------------------------------------------------------------
(* Attempts.                                                                *)

(* stop() has been called and stopInLoop() has not.                         *)
LEMMA StopIsQueued == StopQueued <=> "stopInLoop" \in Waiting
BY DEF StopQueued, Waiting, CallsIn

(* The types after a step that calls the connector, and the blame: the      *)
(* connector may be gone, but not without a mishap.                         *)
LEMMA BecomesKeepsTypes ==
  ASSUME TypeOK, Record, NEW c \in ConnectorType, NEW functors \in Seq(Functor),
         Becomes(c, functors), c.fatal => mishap',
         {connect_', retry_', alive', serverUp', expired', mishap'} \subseteq BOOLEAN,
         connection_' \in live' \cup {NoFd},
         live' \subseteq Fds, held' \subseteq live', watched' \subseteq live',
         peerClosed' \subseteq live', ran' \subseteq live',
         timers' \in 0..1, expired' => timers' > 0,
         phase' \in {"events", "functors", "ended"}, active' \subseteq {"timer", "OUT", "ERR"},
         activeConns' \subseteq Fds, executing' \in Seq(Functor)
  PROVE  TypeOK' /\ Record'
<1>1. /\ connector' \in ConnectorType /\ connector'.queued = <<>> /\ crashed' \in BOOLEAN
      /\ pending' \in Seq(Functor) /\ (connector'.fatal <=> crashed') /\ crashed' = c.fatal
  BY BecomesFacts
<1>2. socket' \in {"none", "pending", "connected", "self", "failed"}
      /\ (socket' = "none" <=> connector'.sockfd = NoFd)
  BY SocketFollows
<1>3. {connect_', retry_', alive', serverUp', expired', crashed', mishap'} \subseteq BOOLEAN
  BY <1>1
<1>4. TypeOK'
  BY <1>1, <1>2, <1>3 DEF TypeOK
<1>5. Record'
  BY <1>1, <1>2 DEF Record
<1>6. QED
  BY <1>4, <1>5

(* connect(), start() or the retry timer: there is an attempt, with the     *)
(* only channel, and nothing of an earlier one waits.  connected is what    *)
(* the connection that closed, if any, leaves behind.                       *)
LEMMA AttemptInv ==
  ASSUME Inv, ~crashed, alive, timers' = 0, InOrder(pending'),
         Waiting' \cap Retrying = {}, "stopInLoop" \in Waiting' => mishap',
         NEW fd \in Fds \ live,
         connector'.state_ = "kConnecting", connector'.channel_ = "added",
         connector'.sockfd = fd, connector'.connect_ = TRUE \/ mishap',
         connector.sockfd = NoFd, socket' = "pending", TypeOK', Record',
         ConnsOf(pending') \subseteq live \cup {NoFd},
         connection_' = NoFd, watched' = {}, live' = live, executing' = executing,
         alive' = alive, phase' = phase, active' \subseteq active,
         "timer" \in active' => expired',
         activeConns' = {}, mishap => mishap'
  PROVE  Inv'
<1>1. /\ TypeOK /\ OneAttempt /\ OneTimer /\ Round /\ Connections /\ Luck
      /\ fd # NoFd /\ NoFd \notin Fds
  BY DescriptorIsNotNoFd DEF Inv, Running
<1>2. CallsIn(pending') \cap Retrying = {} /\ InOrder(executing')
  BY <1>1 DEF Waiting, OneTimer
<1>3. OneAttempt'
  BY <1>1, <1>2 DEF OneAttempt, Retrying
<1>4. OneTimer'
  BY <1>1, <1>2 DEF OneTimer, Retrying
<1>5. "OUT" \notin active /\ "ERR" \notin active
  BY <1>1 DEF Round, OneAttempt
<1>6. Round'
  BY <1>1, <1>2, <1>5 DEF Round
<1>7. Connections'
  BY <1>1 DEF Connections, AttemptOrConnection
<1>8. Luck'
  BY <1>1, <1>5 DEF Luck
<1>9. QED
  BY <1>3, <1>4, <1>6, <1>7, <1>8 DEF Inv, Running

(* start() and the first attempt.  A connector that is not disconnected     *)
(* does not survive, one that is has no channel.                            *)
LEMMA ConnectClientInv == ASSUME Inv, ~crashed, ConnectClient PROVE Inv'
<1> USE DEF connVars, peerVars, timerVars, roundVars
<1>1. TypeOK /\ Record /\ OneAttempt /\ OneTimer /\ Round /\ Connections /\ Luck /\ alive
  BY DEF Inv, Running, ConnectClient
<1>2. PICK result \in Answers :
        /\ Becomes(Start(connector, result, NewFd), <<>>)
        /\ mishap' = (mishap \/ NoHope(result) \/ connector.state_ # "kDisconnected")
  BY DEF ConnectClient, Blame
<1> DEFINE b == [connector EXCEPT !.connect_ = TRUE]
           c == Start(connector, result, NewFd)
<1>3. b \in ConnectorType /\ ~b.fatal /\ b.queued = <<>>
  BY <1>1, Flags DEF ConnectorType, Record
<1>4. <<>> \in Seq(Functor) /\ connect_' = TRUE /\ Becomes(c, <<>>)
  BY <1>2, EmptySeq DEF ConnectClient
<1> HIDE DEF b, c
<1>5. ASSUME c \in ConnectorType, c.fatal => mishap' PROVE TypeOK' /\ Record'
  <2>1. {connect_', retry_', alive', serverUp', expired', mishap'} \subseteq BOOLEAN
    BY <1>1, <1>2, <1>4, Flags DEF ConnectClient
  <2>2. /\ connection_' \in live' \cup {NoFd} /\ live' \subseteq Fds /\ held' \subseteq live'
        /\ watched' \subseteq live' /\ peerClosed' \subseteq live' /\ ran' \subseteq live'
        /\ timers' \in 0..1 /\ (expired' => timers' > 0)
        /\ phase' \in {"events", "functors", "ended"}
        /\ active' \subseteq {"timer", "OUT", "ERR"}
        /\ activeConns' \subseteq Fds /\ executing' \in Seq(Functor)
    BY <1>1, Flags DEF ConnectClient
  <2>3. QED
    BY <1>1, <1>2, <1>4, <1>5, <2>1, <2>2, BecomesKeepsTypes
<1>6. ASSUME c \in ConnectorType, c.fatal, mishap' PROVE Inv'
  <2>1. crashed'
    BY <1>1, <1>2, <1>4, <1>6, BecomesFacts
  <2>2. QED
    BY <1>5, <1>6, <2>1, CrashInv
<1>7. CASE connector.state_ # "kDisconnected"
  <2>1. c = Fatal(b)
    BY <1>1, <1>7, Flags DEF b, c, Start, StartInLoop, ConnectorType
  <2>2. c \in ConnectorType /\ c.fatal
    BY <1>3, <2>1, ConnectorParts DEF Fatal, ConnectorType
  <2>3. QED
    BY <1>2, <1>6, <1>7, <2>2
<1>8. CASE connector.state_ = "kDisconnected"
  <2>1. c = Connect(b, result, NewFd) /\ b.channel_ = "null" /\ b.sockfd = NoFd
    BY <1>1, <1>8, Flags DEF b, c, Start, StartInLoop, ConnectorType, OneAttempt
  <2>2. /\ result \in Results /\ NewFd \in Fds \cup {NoFd}
        /\ result = "inProgress" => NewFd \in Fds \ live
    BY <1>1, AnswerFacts
  <2>3. /\ c \in ConnectorType
        /\ result = "inProgress" =>
             c = [b EXCEPT !.state_ = "kConnecting", !.channel_ = "added", !.sockfd = NewFd]
        /\ result = "error" => c = b
        /\ result \in {"refused", "noDescriptor"} => c.fatal
    <3>1. /\ result \in Results /\ NewFd \in Fds \cup {NoFd}
          /\ (result = "inProgress" => NewFd \in Fds)
      BY <2>2
    <3>2. AttemptMade(b, result, NewFd, c)
      BY <1>3, <2>1, <3>1, ConnectFacts
    <3>3. QED
      BY <3>2 DEF AttemptMade
  <2>4. timers = 0 /\ Waiting \cap Retrying = {} /\ connection_ = NoFd
    BY <1>1, <1>8, Flags
       DEF OneAttempt, OneTimer, Connections, AttemptOrConnection, Retrying
  <2>5. CASE result \in {"refused", "noDescriptor"}
    BY <1>2, <1>6, <2>3, <2>5 DEF NoHope
  <2>6. CASE result = "error"
    <3>1. /\ mishap' /\ c.queued = <<>> /\ c \in ConnectorType /\ ~c.fatal
          /\ c.sockfd = connector.sockfd
      BY <1>1, <1>2, <1>3, <2>3, <2>6, Flags DEF b, NoHope, ConnectorType
    <3>2. pending' = pending /\ socket' = socket /\ connector' = [c EXCEPT !.queued = <<>>]
      BY <1>1, <1>2, <1>4, <3>1, BecomesFacts, SocketFollows
    <3>3. connector' = b
      BY <1>3, <2>3, <2>6, <3>2 DEF ConnectorType
    <3>4. Waiting' = Waiting
      BY <3>2 DEF Waiting, ConnectClient
    <3>5. OneAttempt' /\ OneTimer' /\ Round' /\ Luck'
      BY <1>1, <3>1, <3>2, <3>3, <3>4, Flags
         DEF b, ConnectClient, OneAttempt, OneTimer, Round, Luck, ConnectorType
    <3>6. Connections'
      BY <1>1, <3>2, <3>3, <3>4, Flags
         DEF b, ConnectClient, Connections, AttemptOrConnection, ConnectorType
    <3>7. QED
      BY <1>5, <3>1, <3>5, <3>6 DEF Inv, Running
  <2>7. CASE result = "inProgress"
    <3>1. /\ c.queued = <<>> /\ c \in ConnectorType /\ ~c.fatal /\ c.sockfd = NewFd
          /\ c.state_ = "kConnecting" /\ c.channel_ = "added" /\ c.connect_ = TRUE
          /\ NewFd \in Fds \ live
      BY <1>1, <1>3, <2>2, <2>3, <2>7, Flags DEF b, ConnectorType
    <3>2. pending' = pending /\ connector' = [c EXCEPT !.queued = <<>>]
      BY <1>1, <1>2, <1>4, <3>1, BecomesFacts
    <3>3. /\ connector'.state_ = "kConnecting" /\ connector'.channel_ = "added"
          /\ connector'.sockfd = NewFd /\ connector'.connect_ = TRUE
      BY <3>1, <3>2 DEF ConnectorType
    <3>4. socket' = "pending" /\ connector.sockfd = NoFd
      BY <1>1, <1>4, <2>1, <3>1, DescriptorIsNotNoFd, Flags DEF b, Becomes, ConnectorType
    <3>5. Waiting' = Waiting
      BY <3>2 DEF Waiting, ConnectClient
    <3>6. Waiting' \cap Retrying = {} /\ ("stopInLoop" \in Waiting' => mishap')
      BY <1>2, <2>4, <3>5, StopIsQueued DEF NoHope
    <3>7. TypeOK' /\ Record'
      BY <1>5, <3>1
    <3>8. watched = {} /\ activeConns = {} /\ ConnsOf(pending) \subseteq live \cup {NoFd}
      BY <1>1, <2>4, DescriptorIsNotNoFd, Flags DEF Connections, AttemptOrConnection
    <3>9. InOrder(pending') /\ ("timer" \in active' => expired') /\ (mishap => mishap')
      BY <1>1, <1>2, <3>2 DEF OneTimer, Round, ConnectClient
    <3>10. /\ timers' = timers /\ connection_' = connection_ /\ watched' = watched
           /\ live' = live /\ executing' = executing /\ alive' = alive /\ phase' = phase
           /\ active' = active /\ activeConns' = activeConns
      BY DEF ConnectClient
    <3>11. QED
      BY <1>1, <2>4, <3>1, <3>2, <3>3, <3>4, <3>6, <3>7, <3>8, <3>9, <3>10, AttemptInv
  <2>8. QED
    BY <2>2, <2>5, <2>6, <2>7 DEF Results
<1>9. QED
  BY <1>7, <1>8

------------------------------------------------------------------------------
(* stop() and the destructor.                                               *)

(* What Connector::stop() makes of a connector.                             *)
LEMMA StopFacts ==
  ASSUME NEW c \in ConnectorType, c.queued = <<>>
  PROVE  /\ Stop(c) \in ConnectorType
         /\ Stop(c) = [c EXCEPT !.connect_ = FALSE, !.queued = <<"stopInLoop">>]
         /\ ToSet(Stop(c).queued) = {"stopInLoop"} /\ CallsInOrder(Stop(c).queued)
<1>1. Append(<<>>, "stopInLoop") = <<"stopInLoop">>
  BY AppendsAre DEF Calls
<1>2. Stop(c) = [c EXCEPT !.connect_ = FALSE, !.queued = <<"stopInLoop">>]
  BY <1>1 DEF Stop, Queue, ConnectorType
<1>3. "stopInLoop" \in Calls /\ <<"stopInLoop">> \in Seq(Calls)
  BY DEF Calls
<1>4. Stop(c) \in ConnectorType /\ Stop(c).queued = <<"stopInLoop">>
  BY <1>2, <1>3 DEF ConnectorType
<1>5. QED
  BY <1>2, <1>3, <1>4, TuplesInOrder

(* stop() queues a functor and forbids the attempt to succeed: a mishap if  *)
(* there is one.                                                            *)
LEMMA StopClientInv == ASSUME Inv, ~crashed, StopClient PROVE Inv'
<1> USE DEF connVars, peerVars, timerVars, roundVars
<1> DEFINE c == Stop(connector)
<1>1. TypeOK /\ Record /\ OneAttempt /\ OneTimer /\ Round /\ Connections /\ Luck /\ alive
  BY DEF Inv, Running, StopClient
<1>2. /\ Becomes(c, <<>>) /\ <<>> \in Seq(Functor) /\ connect_' = FALSE
      /\ mishap' = (mishap \/ connector.state_ = "kConnecting")
  BY EmptySeq DEF StopClient, Blame
<1>3. /\ c \in ConnectorType /\ ~c.fatal
      /\ ToSet(c.queued) = {"stopInLoop"} /\ CallsInOrder(c.queued)
      /\ c = [connector EXCEPT !.connect_ = FALSE, !.queued = <<"stopInLoop">>]
  BY <1>1, StopFacts, Flags DEF Record, ConnectorType
<1> HIDE DEF c
<1>4. /\ connector' = [c EXCEPT !.queued = <<>>] /\ ~crashed'
      /\ CallsIn(pending') = CallsIn(pending) \cup {"stopInLoop"}
      /\ ConnsOf(pending') \subseteq ConnsOf(pending) \cup {NoFd}
      /\ InOrder(pending')
  <2>1. /\ CallsIn(<<>>) = {} /\ ConnsOf(<<>>) = {} /\ InOrder(<<>>) /\ InOrder(pending)
        /\ (CallsIn(<<>>) \cup ToSet(c.queued)) \cap Retrying = {}
    BY <1>1, <1>3, NothingQueued DEF OneTimer, Retrying
  <2>2. QED
    BY <1>1, <1>2, <1>3, <2>1, BecomesFacts
<1>5. /\ connector'.state_ = connector.state_ /\ connector'.channel_ = connector.channel_
      /\ connector'.sockfd = connector.sockfd /\ c.sockfd = connector.sockfd
  BY <1>1, <1>3, <1>4, Flags DEF ConnectorType
<1>6. socket' = socket /\ Waiting' = Waiting \cup {"stopInLoop"}
  BY <1>1, <1>2, <1>3, <1>4, <1>5, SocketFollows DEF Waiting, StopClient
<1>7. TypeOK' /\ Record'
  <2>1. {connect_', retry_', alive', serverUp', expired', mishap'} \subseteq BOOLEAN
    BY <1>1, <1>2, Flags DEF StopClient
  <2>2. /\ connection_' \in live' \cup {NoFd} /\ live' \subseteq Fds /\ held' \subseteq live'
        /\ watched' \subseteq live' /\ peerClosed' \subseteq live' /\ ran' \subseteq live'
        /\ timers' \in 0..1 /\ (expired' => timers' > 0)
        /\ phase' \in {"events", "functors", "ended"}
        /\ active' \subseteq {"timer", "OUT", "ERR"}
        /\ activeConns' \subseteq Fds /\ executing' \in Seq(Functor)
    BY <1>1, Flags DEF StopClient
  <2>3. QED
    BY <1>1, <1>2, <1>3, <2>1, <2>2, BecomesKeepsTypes
<1>8. OneAttempt' /\ OneTimer' /\ Round'
  BY <1>1, <1>4, <1>5, <1>6 DEF StopClient, OneAttempt, OneTimer, Round, Retrying
<1>9. Connections'
  BY <1>1, <1>4, <1>5, <1>6 DEF StopClient, Connections, AttemptOrConnection
<1>10. Luck'
  BY <1>1, <1>2, <1>5, <1>6 DEF StopClient, Luck
<1>11. QED
  BY <1>7, <1>8, <1>9, <1>10 DEF Inv, Running

(* The deletion of what nobody points to any more.                          *)
LEMMA DeletedFacts ==
  ASSUME TypeOK, DeleteUnreferred(live)
  PROVE  /\ live' = live \cap Referred' /\ watched' = watched \cap live'
         /\ live' \subseteq Fds /\ watched' \subseteq live' /\ peerClosed' \subseteq live'
         /\ Referred' = {connection_'} \cup held' \cup ran' \cup ConnsOf(pending')
                         \cup ConnsOf(executing')
BY Flags DEF DeleteUnreferred, Referred

(* The destructor: it does not survive a channel; what it leaves behind may *)
(* call it back only after a mishap.                                        *)
LEMMA DestroyInv == ASSUME Inv, ~crashed, Destroy PROVE Inv'
<1> USE DEF timerVars, roundVars
<1> DEFINE b == IF connection_ = NoFd THEN Stop(connector) ELSE connector
           c == IF b.channel_ = "null" THEN b ELSE Fatal(b)
<1>1. TypeOK /\ Record /\ OneAttempt /\ OneTimer /\ Round /\ Connections /\ Luck /\ alive
  BY DEF Inv, Running, Destroy
<1>2. /\ Becomes(c, <<>>) /\ <<>> \in Seq(Functor) /\ alive' = FALSE /\ connection_' = NoFd
      /\ mishap' = (mishap \/ \/ connector.channel_ # "null" \/ StopQueued
                              \/ phase # "ended" /\ connection_ \in {NoFd} \cup held
                                                                     \cup activeConns)
  BY EmptySeq DEF Destroy, Blame
<1>3. /\ b \in ConnectorType /\ ~b.fatal /\ b.channel_ = connector.channel_
      /\ b.state_ = connector.state_ /\ b.sockfd = connector.sockfd
      /\ CallsInOrder(b.queued)
      /\ ToSet(b.queued) = IF connection_ = NoFd THEN {"stopInLoop"} ELSE {}
  <2>1. connector \in ConnectorType /\ connector.queued = <<>> /\ ~connector.fatal
    BY <1>1, Flags DEF Record
  <2>2. CASE connection_ = NoFd
    <3>1. /\ Stop(connector) \in ConnectorType
          /\ Stop(connector) = [connector EXCEPT !.connect_ = FALSE, !.queued = <<"stopInLoop">>]
          /\ ToSet(Stop(connector).queued) = {"stopInLoop"}
          /\ CallsInOrder(Stop(connector).queued)
      BY <2>1, StopFacts
    <3>2. b = Stop(connector)
      BY <2>2
    <3> HIDE DEF b
    <3>3. QED
      BY <2>1, <2>2, <3>1, <3>2 DEF ConnectorType
  <2>3. CASE connection_ # NoFd
    BY <2>1, <2>3, TuplesInOrder
  <2>4. QED
    BY <2>2, <2>3
<1> HIDE DEF b
<1>4. c \in ConnectorType /\ (c.fatal <=> connector.channel_ # "null")
  <2>1. Fatal(b) \in ConnectorType /\ Fatal(b).fatal
    BY <1>3, ConnectorParts DEF Fatal, ConnectorType
  <2>2. QED
    BY <1>3, <2>1
<1>5. /\ live' = live \cap Referred' /\ watched' = watched \cap live'
      /\ live' \subseteq Fds /\ watched' \subseteq live' /\ peerClosed' \subseteq live'
      /\ Referred' = {NoFd} \cup held \cup ran \cup ConnsOf(pending') \cup ConnsOf(executing)
  BY <1>1, <1>2, DeletedFacts DEF Destroy
<1>6. TypeOK' /\ Record'
  <2>1. {connect_', retry_', alive', serverUp', expired', mishap'} \subseteq BOOLEAN
    BY <1>1, <1>2, Flags DEF Destroy
  <2>2. /\ held' \subseteq live' /\ ran' \subseteq live'
        /\ timers' \in 0..1 /\ (expired' => timers' > 0)
        /\ phase' \in {"events", "functors", "ended"}
        /\ active' \subseteq {"timer", "OUT", "ERR"}
        /\ activeConns' \subseteq Fds /\ executing' \in Seq(Functor)
    BY <1>1, <1>5, Flags DEF Destroy
  <2>3. c.fatal => mishap'
    BY <1>2, <1>4
  <2> HIDE DEF c
  <2>4. QED
    BY <1>1, <1>2, <1>4, <1>5, <2>1, <2>2, <2>3, BecomesKeepsTypes
<1>7. CASE connector.channel_ # "null"
  <2>1. crashed'
    BY <1>4, <1>2, <1>7 DEF Becomes
  <2>2. QED
    BY <1>6, <2>1, CrashInv
<1>8. CASE connector.channel_ = "null"
  <2>1. c = b
    BY <1>3, <1>8
  <2> HIDE DEF c
  <2>2. /\ connector' = [b EXCEPT !.queued = <<>>]
        /\ CallsIn(pending') = CallsIn(pending) \cup ToSet(b.queued)
        /\ ConnsOf(pending) \subseteq ConnsOf(pending')
        /\ ConnsOf(pending') \subseteq ConnsOf(pending) \cup {NoFd}
        /\ InOrder(pending')
    <3>1. /\ CallsIn(<<>>) = {} /\ ConnsOf(<<>>) = {} /\ InOrder(<<>>) /\ InOrder(pending)
          /\ (CallsIn(<<>>) \cup ToSet(b.queued)) \cap Retrying = {}
      BY <1>1, <1>3, NothingQueued DEF OneTimer, Retrying
    <3>2. QED
      BY <1>1, <1>2, <1>3, <2>1, <3>1, BecomesFacts
  <2>3. /\ connector'.state_ = connector.state_ /\ connector'.channel_ = "null"
        /\ connector'.sockfd = connector.sockfd
    BY <1>3, <1>8, <2>2 DEF ConnectorType
  <2>4. socket' = socket /\ Waiting' = Waiting \cup ToSet(b.queued)
    BY <1>1, <1>2, <1>3, <2>1, <2>2, SocketFollows DEF Waiting, Destroy
  <2>5. OneAttempt' /\ OneTimer' /\ Round'
    BY <1>1, <1>2, <1>3, <2>2, <2>3, <2>4
       DEF Destroy, OneAttempt, OneTimer, Round, Retrying
  <2>6. Connections'
    <3>1. ConnsOf(pending) \cup ConnsOf(executing) \subseteq live \cup {NoFd}
          /\ connector.sockfd \notin live
      BY <1>1 DEF Connections, AttemptOrConnection
    <3>2. ConnsOf(pending') \cup ConnsOf(executing') \subseteq live' \cup {NoFd}
      BY <1>5, <2>2, <3>1 DEF Destroy
    <3>3. connector'.sockfd = NoFd /\ NoFd \notin live'
      BY <1>1, <1>5, <1>8, <2>3, DescriptorIsNotNoFd DEF OneAttempt
    <3>4. NoFd \notin activeConns'
      BY <1>1, Flags, DescriptorIsNotNoFd DEF Destroy
    <3>5. QED
      BY <1>2, <3>2, <3>3, <3>4 DEF Connections, AttemptOrConnection
  <2>7. Luck'
    <3> SUFFICES ASSUME ~mishap', phase' # "ended" PROVE Luck'
      BY DEF Luck
    <3>1. /\ ~mishap /\ ~StopQueued /\ phase # "ended"
          /\ connection_ \notin {NoFd} \cup held \cup activeConns
      BY <1>2 DEF Destroy
    <3>2. Waiting' = Waiting /\ "stopInLoop" \notin Waiting
      BY <1>3, <2>4, <3>1, StopIsQueued
    <3>3. /\ connector.state_ = "kConnected" /\ connection_ \in watched
          /\ watched \subseteq {connection_} /\ activeConns \subseteq {connection_}
          /\ connection_ \notin ran \cup ConnsOf(pending) \cup ConnsOf(executing)
      BY <1>1, <3>1 DEF Connections, AttemptOrConnection
    <3>4. watched' = {} /\ activeConns' = {}
      BY <1>5, <2>2, <3>1, <3>3 DEF Destroy
    <3>5. "resetChannel" \notin Waiting
      BY <1>1, <1>8, <3>3 DEF OneAttempt
    <3>6. QED
      BY <1>1, <2>3, <2>4, <3>1, <3>2, <3>3, <3>4, <3>5 DEF Destroy, Luck
  <2>8. QED
    BY <1>6, <2>5, <2>6, <2>7 DEF Inv, Running
<1>9. QED
  BY <1>7, <1>8

------------------------------------------------------------------------------
(* The functors, and the end of a connection's life.                        *)

(* The program lets a connection go that nobody else may point to.          *)
LEMMA UserDropsInv == ASSUME Inv, ~crashed, NEW fd \in held, UserDrops(fd) PROVE Inv'
<1> USE DEF clientVars, timerVars, roundVars
<1>1. TypeOK /\ Record /\ OneAttempt /\ OneTimer /\ Round /\ Connections /\ Luck
  BY DEF Inv, Running
<1>2. /\ live' = live \cap Referred' /\ watched' = watched \cap live'
      /\ live' \subseteq Fds /\ watched' \subseteq live' /\ peerClosed' \subseteq live'
      /\ Referred' = {connection_} \cup held' \cup ran \cup ConnsOf(pending)
                      \cup ConnsOf(executing)
  BY <1>1, DeletedFacts DEF UserDrops
<1>3. Waiting' = Waiting
  BY DEF UserDrops, Waiting
<1>4. TypeOK' /\ Record'
  <2>1. {connect_', retry_', alive', serverUp', expired', crashed', mishap'} \subseteq BOOLEAN
    BY <1>1, Flags DEF UserDrops
  <2>2. connection_' \in live' \cup {NoFd} /\ held' \subseteq live' /\ ran' \subseteq live'
    BY <1>1, <1>2, Flags DEF UserDrops
  <2>3. QED
    BY <1>1, <1>2, <2>1, <2>2, Flags DEF UserDrops, TypeOK, Record
<1>5. OneAttempt' /\ OneTimer' /\ Round' /\ Luck'
  BY <1>1, <1>2, <1>3 DEF UserDrops, OneAttempt, OneTimer, Round, Luck
<1>6. Connections'
  <2>1. /\ connection_' = connection_ /\ alive' = alive /\ connector' = connector
        /\ ran' = ran /\ pending' = pending /\ executing' = executing
        /\ activeConns' = activeConns
    BY DEF UserDrops
  <2>2. /\ connection_ # NoFd => connection_ \in watched'
        /\ watched' \subseteq watched /\ live' \subseteq live
        /\ ConnsOf(pending) \cup ConnsOf(executing) \subseteq live' \cup {NoFd}
    BY <1>1, <1>2, Flags DEF Connections, AttemptOrConnection
  <2>3. QED
    BY <1>1, <1>3, <2>1, <2>2 DEF Connections, AttemptOrConnection
<1>7. QED
  BY <1>4, <1>5, <1>6 DEF Inv, Running

(* The swap of doPendingFunctors: nothing waits that did not wait before.   *)
LEMMA SwapInv == ASSUME Inv, ~crashed, DoPendingFunctors PROVE Inv'
<1> USE DEF connVars, clientVars, peerVars, timerVars
<1>1. TypeOK /\ Record /\ OneAttempt /\ OneTimer /\ Round /\ Connections /\ Luck
  BY DEF Inv, Running
<1>2. executing = <<>> /\ executing' = pending /\ pending' = <<>>
  BY <1>1 DEF DoPendingFunctors, Round
<1>3. Waiting' = Waiting
  BY <1>2 DEF Waiting
<1>4. CallsIn(pending') = {} /\ ConnsOf(pending') = {} /\ InOrder(pending')
      /\ <<>> \in Seq(Functor)
  BY <1>2, NothingQueued, EmptySeq
<1>5. TypeOK'
  <2>1. {connect_', retry_', alive', serverUp', expired', crashed', mishap'} \subseteq BOOLEAN
    BY <1>1, Flags DEF DoPendingFunctors
  <2>2. QED
    BY <1>1, <1>2, <1>4, <2>1, Flags DEF DoPendingFunctors, TypeOK
<1>6. Record' /\ OneAttempt' /\ OneTimer' /\ Round' /\ Luck'
  BY <1>1, <1>2, <1>3, <1>4
     DEF DoPendingFunctors, Record, OneAttempt, OneTimer, Round, Luck
<1>7. Connections'
  BY <1>1, <1>2, <1>3, <1>4 DEF DoPendingFunctors, Connections, AttemptOrConnection
<1>8. QED
  BY <1>5, <1>6, <1>7 DEF Inv, Running

(* One functor of the round: resetChannel() of the attempt that is over, the*)
(* insertion of the timer when nothing of it is left, stopInLoop() of a     *)
(* connector that does not connect.  Anything else is a mishap's.           *)
LEMMA RunFunctorInv == ASSUME Inv, ~crashed, RunFunctor PROVE Inv'
<1> USE DEF clientVars
<1> DEFINE f == Head(executing)
           rest == Tail(executing)
           c == CASE f.call \in {"stopInLoop", "resetChannel"} /\ ~alive -> Fatal(connector)
                  [] f.call = "stopInLoop" /\ alive -> StopInLoop(connector)
                  [] f.call = "resetChannel" /\ alive -> ResetChannel(connector)
                  [] OTHER -> connector
<1>1. /\ TypeOK /\ Record /\ OneAttempt /\ OneTimer /\ Round /\ Connections /\ Luck
      /\ connector \in ConnectorType /\ connector.queued = <<>> /\ ~connector.fatal
      /\ alive \in BOOLEAN
  BY Flags DEF Inv, Running, Record
<1>2. /\ Becomes(c, <<>>) /\ <<>> \in Seq(Functor) /\ executing' = rest
      /\ ran' = IF rest = <<>> THEN {} ELSE ran \cup ({f.conn} \ {NoFd})
      /\ timers' = timers + (IF f.call = "insertTimer" THEN 1 ELSE 0)
      /\ phase = "functors" /\ phase' = "functors" /\ alive' = alive
  BY EmptySeq DEF RunFunctor
<1>3. /\ rest \in Seq(Functor) /\ f \in Functor
      /\ CallsIn(executing) = {f.call} \cup CallsIn(rest)
      /\ ConnsOf(executing) = {f.conn} \cup ConnsOf(rest)
      /\ InOrder(rest)
      /\ f.call = "insertTimer" => CallsIn(rest) \cap Retrying = {}
      /\ f.call = "resetChannel" /\ "resetChannel" \in CallsIn(rest) =>
           "insertTimer" \in CallsIn(rest)
  BY <1>1, QueuedTail, Flags DEF RunFunctor, OneTimer
<1>4. /\ Waiting = {f.call} \cup CallsIn(rest) \cup CallsIn(pending)
      /\ CallsIn(pending) \cap Retrying = {} /\ activeConns = {} /\ active = {}
  BY <1>1, <1>2, <1>3 DEF Waiting, Round
<1>5. f.call = "insertTimer" => timers = 0
  BY <1>1, <1>4, Flags DEF OneTimer, Retrying
<1>6. /\ live' = live \cap Referred' /\ watched' = watched \cap live'
      /\ live' \subseteq Fds /\ watched' \subseteq live' /\ peerClosed' \subseteq live'
      /\ Referred' = {connection_} \cup held \cup ran' \cup ConnsOf(pending') \cup ConnsOf(rest)
  BY <1>1, <1>2, DeletedFacts DEF RunFunctor
<1> HIDE DEF f, rest
<1>7. /\ c \in ConnectorType
      /\ \/ c.fatal /\ mishap
         \/ c = connector /\ (f.call # "resetChannel")
         \/ c = ResetChannel(connector) /\ f.call = "resetChannel"
  <2>1. Fatal(connector) \in ConnectorType /\ Fatal(connector).fatal
        /\ ResetChannel(connector) \in ConnectorType
    BY <1>1, ConnectorParts DEF Fatal, ConnectorType
  <2>2. CASE f.call \in {"stopInLoop", "resetChannel"} /\ ~alive
    <3>1. c = Fatal(connector)
      BY <2>2
    <3>2. mishap
      BY <1>1, <1>2, <1>4, <2>2 DEF Luck
    <3>3. QED
      BY <2>1, <3>1, <3>2
  <2>3. CASE f.call = "stopInLoop" /\ alive
    <3>1. c = StopInLoop(connector)
      BY <2>3
    <3> HIDE DEF c
    <3>2. connector.state_ = "kConnecting" => mishap
      BY <1>1, <1>2, <1>4, <2>3 DEF Luck
    <3>3. QED
      BY <1>1, <2>3, <3>1, <3>2, StopInLoopFacts
  <2>4. CASE f.call = "resetChannel" /\ alive
    <3>1. c = ResetChannel(connector)
      BY <2>4
    <3>2. QED
      BY <2>1, <2>4, <3>1
  <2>5. CASE f.call \notin {"stopInLoop", "resetChannel"}
    <3>1. c = connector
      BY <2>5
    <3>2. QED
      BY <1>1, <2>5, <3>1
  <2>6. QED
    BY <1>1, <2>2, <2>3, <2>4, <2>5
<1> HIDE DEF c
<1>8. TypeOK' /\ Record'
  <2>1. {connect_', retry_', alive', serverUp', expired', mishap'} \subseteq BOOLEAN
    BY <1>1, Flags DEF RunFunctor
  <2>2. ran' \subseteq live /\ held' \subseteq live' /\ connection_' \in live' \cup {NoFd}
    BY <1>1, <1>2, <1>3, <1>6, Flags DEF Connections, RunFunctor
  <2>3. ran' \subseteq live'
    BY <1>6, <2>2
  <2>4. timers' \in 0..1 /\ (expired' => timers' > 0)
    BY <1>1, <1>2, <1>5, Flags DEF RunFunctor
  <2>5. /\ phase' \in {"events", "functors", "ended"}
        /\ active' \subseteq {"timer", "OUT", "ERR"}
        /\ activeConns' \subseteq Fds /\ executing' \in Seq(Functor)
    BY <1>1, <1>2, <1>3, Flags DEF RunFunctor
  <2>6. c.fatal => mishap'
    BY <1>1, <1>7 DEF RunFunctor, ResetChannel, ConnectorType
  <2>7. QED
    BY <1>1, <1>2, <1>6, <1>7, <2>1, <2>2, <2>3, <2>4, <2>5, <2>6, BecomesKeepsTypes
<1>9. CASE c.fatal
  <2>1. crashed'
    BY <1>2, <1>9 DEF Becomes
  <2>2. QED
    BY <1>8, <2>1, CrashInv
<1>10. CASE ~c.fatal
  <2>1. /\ c.queued = <<>> /\ c.sockfd = connector.sockfd /\ c.state_ = connector.state_
        /\ c.connect_ = connector.connect_
        /\ c.channel_ = IF f.call = "resetChannel" THEN "null" ELSE connector.channel_
    BY <1>1, <1>7, <1>10 DEF ResetChannel, ConnectorType
  <2>2. pending' = pending /\ socket' = socket /\ connector' = [c EXCEPT !.queued = <<>>]
    BY <1>1, <1>2, <1>7, <2>1, BecomesFacts, SocketFollows
  <2>3. /\ connector'.sockfd = connector.sockfd /\ connector'.state_ = connector.state_
        /\ connector'.connect_ = connector.connect_
        /\ connector'.channel_ =
             IF f.call = "resetChannel" THEN "null" ELSE connector.channel_
    BY <1>7, <2>1, <2>2 DEF ConnectorType
  <2>4. Waiting' = CallsIn(rest) \cup CallsIn(pending) /\ Waiting' \subseteq Waiting
    BY <1>2, <1>4, <2>2 DEF Waiting
  <2>5. f.call = "insertTimer" =>
          /\ Waiting' \cap Retrying = {} /\ connector.channel_ = "null"
          /\ connector.state_ = "kConnecting"
    BY <1>1, <1>3, <1>4, <2>4, Flags DEF OneAttempt, OneTimer, Retrying, ConnectorType
  <2>6. f.call = "resetChannel" =>
          /\ connector.channel_ # "added"
          /\ connector.state_ # "kConnecting" => "resetChannel" \notin Waiting'
    BY <1>1, <1>3, <1>4, <2>4 DEF OneAttempt, OneTimer, Retrying
  <2>7. OneAttempt'
    BY <1>1, <1>2, <1>4, <2>3, <2>4, <2>5, <2>6, Flags DEF OneAttempt, Retrying
  <2>8. OneTimer'
    BY <1>1, <1>2, <1>3, <2>2, <2>3, <2>4, <2>5, Flags DEF OneTimer, Retrying
  <2>9. Round'
    BY <1>1, <1>2, <1>4, <2>2 DEF Round, RunFunctor
  <2>10. Connections'
    <3>1. connection_' = connection_ /\ activeConns' = {}
      BY <1>4 DEF RunFunctor
    <3>2. /\ connection_ # NoFd => connection_ \notin ran' \cup ConnsOf(pending)
                                                       \cup ConnsOf(rest)
          /\ ConnsOf(pending) \cup ConnsOf(rest) \subseteq live' \cup {NoFd}
      BY <1>1, <1>2, <1>3, <1>6, <2>2 DEF Connections
    <3>3. /\ connection_ # NoFd => connector.state_ = "kConnected" /\ connection_ \in watched'
          /\ alive => watched' \subseteq {connection_}
          /\ connector.sockfd \notin live'
      BY <1>1, <1>6, Flags DEF Connections, AttemptOrConnection
    <3>4. connector'.channel_ = "null" => connector'.sockfd = NoFd
      BY <2>7 DEF OneAttempt
    <3>5. connection_ # NoFd => alive
      BY <1>1 DEF Connections
    <3>6. QED
      BY <1>2, <2>2, <2>3, <3>1, <3>2, <3>3, <3>4, <3>5
         DEF Connections, AttemptOrConnection
  <2>11. Luck'
    BY <1>1, <1>2, <1>4, <1>6, <2>2, <2>3, <2>4 DEF Luck, RunFunctor
  <2>12. QED
    BY <1>8, <2>7, <2>8, <2>9, <2>10, <2>11 DEF Inv, Running
<1>11. QED
  BY <1>9, <1>10

------------------------------------------------------------------------------
(* The events.                                                              *)

(* handleError: the attempt becomes a retry.                                *)
LEMMA HandleFailureInv == ASSUME Inv, ~crashed, HandleFailure PROVE Inv'
<1> USE DEF clientVars, connVars, peerVars, timerVars
<1> DEFINE c == HandleError(connector)
<1>1. /\ TypeOK /\ Record /\ OneAttempt /\ OneTimer /\ Round /\ Connections /\ Luck
      /\ connector \in ConnectorType /\ connector.queued = <<>> /\ ~connector.fatal
  BY Flags DEF Inv, Running, Record
<1>2. /\ connector.channel_ = "added" /\ connector.state_ = "kConnecting" /\ alive
      /\ connector.sockfd # NoFd /\ Waiting \cap Retrying = {} /\ timers = 0
      /\ phase = "events" /\ "OUT" \notin active
  BY <1>1, Flags DEF HandleFailure, OneAttempt, Round
<1>3. c = [connector EXCEPT !.channel_ = "removed", !.sockfd = NoFd,
                           !.queued = <<"resetChannel", "resetChannel", "insertTimer">>]
  BY <1>1, <1>2, HandleErrorFacts
<1> HIDE DEF c
<1>4. Becomes(c, <<>>) /\ <<>> \in Seq(Functor)
  BY EmptySeq DEF HandleFailure, c
<1>5. /\ c \in ConnectorType /\ ~c.fatal /\ c.sockfd = NoFd
      /\ c.queued = <<"resetChannel", "resetChannel", "insertTimer">>
  <2>1. <<"resetChannel", "resetChannel", "insertTimer">> \in Seq(Calls)
    BY DEF Calls
  <2>2. QED
    BY <1>1, <1>3, <2>1 DEF ConnectorType
<1>6. /\ connector' = [c EXCEPT !.queued = <<>>]
      /\ CallsIn(pending') = CallsIn(pending) \cup Retrying
      /\ ConnsOf(pending') \subseteq ConnsOf(pending) \cup {NoFd}
      /\ InOrder(pending')
  <2>1. /\ CallsIn(<<>>) = {} /\ ConnsOf(<<>>) = {} /\ InOrder(<<>>) /\ InOrder(pending)
        /\ (CallsIn(pending) \cup CallsIn(<<>>)) \cap Retrying = {}
        /\ ToSet(c.queued) = Retrying /\ CallsInOrder(c.queued)
    BY <1>1, <1>2, <1>5, NothingQueued, TuplesInOrder DEF OneTimer, Waiting
  <2>2. QED
    BY <1>1, <1>4, <1>5, <2>1, BecomesFacts
<1>7. /\ connector'.channel_ = "removed" /\ connector'.sockfd = NoFd
      /\ connector'.state_ = "kConnecting" /\ connector'.connect_ = connector.connect_
  BY <1>1, <1>2, <1>3, <1>6 DEF ConnectorType
<1>8. socket' = "none" /\ Waiting' = Waiting \cup Retrying
  BY <1>4, <1>5, <1>6 DEF Becomes, Waiting, HandleFailure
<1>9. TypeOK' /\ Record'
  <2>1. {connect_', retry_', alive', serverUp', expired', mishap'} \subseteq BOOLEAN
    BY <1>1, Flags DEF HandleFailure
  <2>2. /\ connection_' \in live' \cup {NoFd} /\ live' \subseteq Fds /\ held' \subseteq live'
        /\ watched' \subseteq live' /\ peerClosed' \subseteq live' /\ ran' \subseteq live'
        /\ timers' \in 0..1 /\ (expired' => timers' > 0)
        /\ phase' \in {"events", "functors", "ended"}
        /\ active' \subseteq {"timer", "OUT", "ERR"}
        /\ activeConns' \subseteq Fds /\ executing' \in Seq(Functor)
    BY <1>1, Flags DEF HandleFailure
  <2>3. QED
    BY <1>1, <1>4, <1>5, <2>1, <2>2, BecomesKeepsTypes
<1>10. OneAttempt' /\ OneTimer'
  BY <1>1, <1>2, <1>6, <1>7, <1>8 DEF HandleFailure, OneAttempt, OneTimer, Retrying
<1>11. Round' /\ Luck'
  BY <1>1, <1>2, <1>7, <1>8 DEF HandleFailure, Round, Luck, Retrying
<1>12. Connections'
  <2>1. connection_ = NoFd /\ NoFd \notin activeConns /\ NoFd \notin live
    BY <1>1, <1>2, Flags, DescriptorIsNotNoFd DEF Connections, AttemptOrConnection
  <2>2. QED
    BY <1>1, <1>6, <1>7, <1>8, <2>1 DEF HandleFailure, Connections, AttemptOrConnection
<1>13. QED
  BY <1>9, <1>10, <1>11, <1>12 DEF Inv, Running

(* handleWrite and newConnection: the attempt becomes a connection, or the  *)
(* socket has failed or met itself, or stop() has been called.              *)
LEMMA HandleWritableInv == ASSUME Inv, ~crashed, HandleWritable PROVE Inv'
<1> USE DEF peerVars, timerVars
<1> DEFINE c == HandleWrite(connector, socket)
           fd == connector.sockfd
<1>1. /\ TypeOK /\ Record /\ OneAttempt /\ OneTimer /\ Round /\ Connections /\ Luck
      /\ connector \in ConnectorType /\ connector.queued = <<>> /\ ~connector.fatal
  BY Flags DEF Inv, Running, Record
<1>2. /\ connector.channel_ = "added" /\ connector.state_ = "kConnecting" /\ alive
      /\ fd # NoFd /\ Waiting \cap Retrying = {} /\ timers = 0
      /\ phase = "events" /\ "ERR" \notin active /\ fd \in Fds
      /\ socket \in {"connected", "self", "failed"}
  BY <1>1, Flags DEF HandleWritable, OneAttempt, Round, ConnectorType
<1>3. /\ connection_ = NoFd /\ watched = {} /\ activeConns = {} /\ fd \notin live
      /\ NoFd \notin live
  BY <1>1, <1>2, Flags, DescriptorIsNotNoFd DEF Connections, AttemptOrConnection
<1>4. Becomes(c, <<>>) /\ <<>> \in Seq(Functor) /\ mishap' = mishap
  BY EmptySeq DEF HandleWritable
<1>5. /\ c \in ConnectorType
      /\ HandsOver(connector, socket) =>
           c = [connector EXCEPT !.channel_ = "removed", !.sockfd = NoFd,
                                 !.state_ = "kConnected", !.queued = <<"resetChannel">>]
      /\ ~HandsOver(connector, socket) => c.fatal
  BY <1>1, <1>2, HandleWriteFacts
<1> HIDE DEF c
<1>6. CASE HandsOver(connector, socket)
  <2>1. /\ connection_' = fd /\ live' = live \cup {fd} /\ watched' = {fd}
        /\ held' \in {held, held \cup {fd}}
    BY <1>3, <1>6 DEF HandleWritable
  <2>2. ~c.fatal /\ c.sockfd = NoFd /\ c.queued = <<"resetChannel">>
    BY <1>1, <1>5, <1>6 DEF ConnectorType
  <2>3. /\ connector' = [c EXCEPT !.queued = <<>>]
        /\ CallsIn(pending') = CallsIn(pending) \cup {"resetChannel"}
        /\ ConnsOf(pending') \subseteq ConnsOf(pending) \cup {NoFd}
        /\ InOrder(pending')
    <3>1. /\ CallsIn(<<>>) = {} /\ ConnsOf(<<>>) = {} /\ InOrder(<<>>) /\ InOrder(pending)
          /\ (CallsIn(pending) \cup CallsIn(<<>>)) \cap Retrying = {}
          /\ ToSet(c.queued) = {"resetChannel"} /\ CallsInOrder(c.queued)
      BY <1>1, <1>2, <2>2, NothingQueued, TuplesInOrder DEF OneTimer, Waiting, Calls
    <3>2. QED
      BY <1>1, <1>4, <1>5, <3>1, BecomesFacts
  <2>4. /\ connector'.channel_ = "removed" /\ connector'.sockfd = NoFd
        /\ connector'.state_ = "kConnected"
    BY <1>1, <1>5, <1>6, <2>3 DEF ConnectorType
  <2>5. socket' = "none" /\ Waiting' = Waiting \cup {"resetChannel"}
    BY <1>4, <2>2, <2>3 DEF Becomes, Waiting, HandleWritable
  <2>6. TypeOK' /\ Record'
    <3>1. {connect_', retry_', alive', serverUp', expired', mishap'} \subseteq BOOLEAN
      BY <1>1, Flags DEF HandleWritable
    <3>2. /\ connection_' \in live' \cup {NoFd} /\ live' \subseteq Fds /\ held' \subseteq live'
          /\ watched' \subseteq live' /\ peerClosed' \subseteq live' /\ ran' \subseteq live'
      BY <1>1, <1>2, <2>1, Flags DEF HandleWritable
    <3>3. /\ timers' \in 0..1 /\ (expired' => timers' > 0)
          /\ phase' \in {"events", "functors", "ended"}
          /\ active' \subseteq {"timer", "OUT", "ERR"}
          /\ activeConns' \subseteq Fds /\ executing' \in Seq(Functor)
      BY <1>1, Flags DEF HandleWritable
    <3>4. QED
      BY <1>1, <1>4, <1>5, <2>2, <3>1, <3>2, <3>3, BecomesKeepsTypes
  <2>7. OneAttempt' /\ OneTimer'
    BY <1>1, <1>2, <2>3, <2>4, <2>5 DEF HandleWritable, OneAttempt, OneTimer, Retrying
  <2>8. Round' /\ Luck'
    BY <1>1, <1>2, <2>4, <2>5 DEF HandleWritable, Round, Luck
  <2>9. Connections'
    <3>1. activeConns' = {} /\ ran' = ran /\ executing' = executing /\ alive' = alive
      BY <1>3 DEF HandleWritable
    <3>2. /\ ConnsOf(pending) \cup ConnsOf(executing) \subseteq live \cup {NoFd}
          /\ ran \subseteq live
      BY <1>1, Flags DEF Connections
    <3>3. QED
      BY <1>2, <1>3, <2>1, <2>3, <2>4, <3>1, <3>2 DEF Connections, AttemptOrConnection
  <2>10. QED
    BY <2>6, <2>7, <2>8, <2>9 DEF Inv, Running
<1>7. CASE ~HandsOver(connector, socket)
  <2>1. c.fatal /\ crashed'
    BY <1>4, <1>5, <1>7 DEF Becomes
  <2>2. mishap
    BY <1>1, <1>2, <1>7
       DEF HandleWritable, HandsOver, GetSocketError, IsSelfConnect, Luck
  <2>3. {connect_', retry_', alive', serverUp', expired', mishap'} \subseteq BOOLEAN
    BY <1>1, Flags DEF HandleWritable
  <2>4. /\ connection_' \in live' \cup {NoFd} /\ live' \subseteq Fds /\ held' \subseteq live'
        /\ watched' \subseteq live' /\ peerClosed' \subseteq live' /\ ran' \subseteq live'
        /\ timers' \in 0..1 /\ (expired' => timers' > 0)
        /\ phase' \in {"events", "functors", "ended"}
        /\ active' \subseteq {"timer", "OUT", "ERR"}
        /\ activeConns' \subseteq Fds /\ executing' \in Seq(Functor)
    BY <1>1, <1>7, Flags DEF HandleWritable, connVars
  <2>5. TypeOK' /\ Record'
    BY <1>1, <1>4, <1>5, <2>2, <2>3, <2>4, BecomesKeepsTypes
  <2>6. QED
    BY <2>1, <2>5, CrashInv
<1>8. QED
  BY <1>6, <1>7

(* A connector that is gone does not come back by connecting.               *)
LEMMA FatalStays ==
  ASSUME NEW c \in ConnectorType, c.fatal, NEW result \in Results,
         NEW fd \in Fds \cup {NoFd}, result = "inProgress" => fd \in Fds
  PROVE  Connect(c, result, fd) \in ConnectorType /\ Connect(c, result, fd).fatal
<1>1. Fatal(c) \in ConnectorType /\ Fatal(c).fatal
  BY ConnectorParts DEF Fatal, ConnectorType
<1>2. CASE result = "inProgress"
  BY <1>1, <1>2 DEF Connect, Connecting, ConnectorType, States
<1>3. CASE result = "refused"
  BY <1>3, ConnectorParts, RemoveFacts DEF Connect
<1>4. CASE result \in {"error", "noDescriptor"}
  BY <1>1, <1>4 DEF Connect
<1>5. QED
  BY <1>2, <1>3, <1>4 DEF Results

(* The retry timer: the channel of the last attempt is reset, and there is  *)
(* no other timer.                                                          *)
LEMMA TimerFiresInv == ASSUME Inv, ~crashed, TimerFires PROVE Inv'
<1> USE DEF clientVars, connVars, peerVars
<1>1. /\ TypeOK /\ Record /\ OneAttempt /\ OneTimer /\ Round /\ Connections /\ Luck
      /\ connector \in ConnectorType /\ connector.queued = <<>> /\ ~connector.fatal
  BY Flags DEF Inv, Running, Record
<1>2. /\ timers = 1 /\ timers' = 0 /\ ~expired' /\ expired' \in BOOLEAN
      /\ active' = active \ {"timer"}
      /\ phase = "events"
  <2>1. timers = 1
    BY <1>1, Flags DEF TimerFires, Round
  <2>2. timers' = timers - 1 /\ phase = "events" /\ (expired' <=> timers' > 0)
        /\ (timers' = 0 => active' = active \ {"timer"})
    BY DEF TimerFires
  <2>3. expired' \in BOOLEAN
    BY DEF TimerFires
  <2>4. timers' = 0
    BY <2>1, <2>2
  <2>5. QED
    BY <2>1, <2>2, <2>3, <2>4
<1>3. /\ connector.channel_ = "null" /\ connector.state_ = "kConnecting"
      /\ connector.sockfd = NoFd /\ Waiting \cap Retrying = {}
      /\ "OUT" \notin active /\ "ERR" \notin active
  BY <1>1, <1>2 DEF OneAttempt, OneTimer, Round
<1>4. connection_ = NoFd /\ NoFd \notin live /\ NoFd \notin activeConns
      /\ (alive => watched = {} /\ activeConns = {})
  BY <1>1, <1>3, Flags, DescriptorIsNotNoFd DEF Connections, AttemptOrConnection
<1>5. /\ connection_' \in live' \cup {NoFd} /\ live' \subseteq Fds /\ held' \subseteq live'
      /\ watched' \subseteq live' /\ peerClosed' \subseteq live' /\ ran' \subseteq live'
      /\ timers' \in 0..1 /\ (expired' => timers' > 0)
      /\ phase' \in {"events", "functors", "ended"} /\ active' \subseteq {"timer", "OUT", "ERR"}
      /\ activeConns' \subseteq Fds /\ executing' \in Seq(Functor)
  BY <1>1, <1>2, Flags DEF TimerFires
<1>6. CASE ~alive
  <2>1. UNCHANGED <<connector, pending, crashed, socket, mishap>>
    BY <1>6 DEF TimerFires
  <2>2. Waiting' = Waiting
    BY <2>1 DEF Waiting, TimerFires
  <2>3. {connect_', retry_', alive', serverUp', expired', crashed', mishap'} \subseteq BOOLEAN
    BY <1>1, <1>2, <2>1, Flags DEF TimerFires
  <2>4. TypeOK' /\ Record'
    BY <1>1, <1>5, <2>1, <2>3, Flags DEF TypeOK, Record
  <2>5. OneAttempt' /\ OneTimer' /\ Round' /\ Luck'
    BY <1>1, <1>2, <1>3, <2>1, <2>2
       DEF TimerFires, OneAttempt, OneTimer, Round, Luck
  <2>6. Connections'
    BY <1>1, <2>1, <2>2 DEF TimerFires, Connections, AttemptOrConnection
  <2>7. QED
    BY <2>4, <2>5, <2>6 DEF Inv, Running
<1>7. CASE alive
  <2>1. PICK result \in Answers :
          /\ Becomes(Connect(connector, result, NewFd), <<>>)
          /\ mishap' = (mishap \/ NoHope(result))
    BY <1>7 DEF TimerFires, Blame
  <2> DEFINE c == Connect(connector, result, NewFd)
  <2>2. /\ result \in Results /\ NewFd \in Fds \cup {NoFd}
        /\ (result = "inProgress" => NewFd \in Fds)
        /\ (result = "inProgress" => NewFd \in Fds \ live)
    BY <1>1, AnswerFacts
  <2>3. Becomes(c, <<>>) /\ <<>> \in Seq(Functor) /\ AttemptMade(connector, result, NewFd, c)
    BY <1>1, <1>3, <2>1, <2>2, ConnectFacts, EmptySeq
  <2> HIDE DEF c
  <2>4. ASSUME c.fatal => mishap' PROVE TypeOK' /\ Record'
    <3>1. {connect_', retry_', alive', serverUp', expired', mishap'} \subseteq BOOLEAN
      BY <1>1, <1>2, <2>1, Flags DEF TimerFires
    <3>2. QED
      BY <1>1, <1>5, <2>3, <2>4, <3>1, BecomesKeepsTypes DEF AttemptMade
  <2>5. CASE result \in {"refused", "noDescriptor"}
    <3>1. c.fatal /\ mishap' /\ crashed'
      BY <2>1, <2>3, <2>5 DEF NoHope, AttemptMade, Becomes
    <3>2. QED
      BY <2>4, <3>1, CrashInv
  <2>6. CASE result = "error"
    <3>1. c = connector /\ mishap'
      BY <2>1, <2>3, <2>6 DEF NoHope, AttemptMade
    <3>2. pending' = pending /\ socket' = socket /\ connector' = [c EXCEPT !.queued = <<>>]
      BY <1>1, <2>3, <3>1, BecomesFacts, SocketFollows
    <3>3. connector' = connector /\ ~c.fatal
      BY <1>1, <3>1, <3>2 DEF ConnectorType
    <3>4. Waiting' = Waiting
      BY <3>2 DEF Waiting, TimerFires
    <3>5. OneAttempt' /\ OneTimer' /\ Round' /\ Luck'
      BY <1>1, <1>2, <1>3, <3>1, <3>2, <3>3, <3>4
         DEF TimerFires, OneAttempt, OneTimer, Round, Luck
    <3>6. Connections'
      BY <1>1, <3>2, <3>3, <3>4 DEF TimerFires, Connections, AttemptOrConnection
    <3>7. QED
      BY <2>4, <3>3, <3>5, <3>6 DEF Inv, Running
  <2>7. CASE result = "inProgress"
    <3>1. /\ c.queued = <<>> /\ ~c.fatal /\ c.sockfd = NewFd /\ c \in ConnectorType
          /\ c.state_ = "kConnecting" /\ c.channel_ = "added"
          /\ c.connect_ = connector.connect_ /\ NewFd \in Fds \ live
      BY <1>1, <2>2, <2>3, <2>7 DEF AttemptMade, ConnectorType
    <3>2. pending' = pending /\ connector' = [c EXCEPT !.queued = <<>>]
      BY <1>1, <2>3, <3>1, BecomesFacts
    <3>3. /\ connector'.state_ = "kConnecting" /\ connector'.channel_ = "added"
          /\ connector'.sockfd = NewFd /\ connector'.connect_ = connector.connect_
      BY <3>1, <3>2 DEF ConnectorType
    <3>4. socket' = "pending"
      BY <1>3, <2>3, <3>1, DescriptorIsNotNoFd DEF Becomes
    <3>5. Waiting' = Waiting
      BY <3>2 DEF Waiting, TimerFires
    <3>6. Waiting' \cap Retrying = {} /\ ("stopInLoop" \in Waiting' => mishap')
      BY <1>3, <2>1, <3>5, StopIsQueued DEF NoHope
    <3>7. TypeOK' /\ Record'
      BY <2>4, <3>1
    <3>8. ConnsOf(pending') \subseteq live \cup {NoFd} /\ InOrder(pending')
      BY <1>1, <3>2 DEF Connections, OneTimer
    <3>9. (mishap => mishap') /\ (connector'.connect_ = TRUE \/ mishap')
          /\ ("timer" \in active' => expired')
      BY <1>1, <1>2, <1>3, <2>1, <3>3 DEF Luck, ConnectorType
    <3>10. /\ connection_' = NoFd /\ watched' = {} /\ live' = live /\ executing' = executing
           /\ alive' = alive /\ phase' = phase /\ activeConns' = {} /\ active' \subseteq active
      BY <1>2, <1>4, <1>7 DEF TimerFires
    <3>11. QED
      BY <1>2, <1>3, <1>7, <3>1, <3>3, <3>4, <3>6, <3>7, <3>8, <3>9, <3>10, AttemptInv
  <2>8. QED
    BY <2>2, <2>5, <2>6, <2>7 DEF Results
<1>8. QED
  BY <1>6, <1>7

(* removeConnection: the connection that closes is connection_, unless there*)
(* was a mishap; its attempt left nothing in the loop, so that another one  *)
(* may begin at once.                                                       *)
LEMMA HandleCloseInv == ASSUME Inv, ~crashed, NEW fd \in Fds, HandleClose(fd) PROVE Inv'
<1> USE DEF peerVars, timerVars
<1> DEFINE known == alive /\ fd \in live /\ connection_ = fd
           base == IF known THEN connector ELSE Fatal(connector)
           functors == <<[call |-> "connectDestroyed", conn |-> fd]>>
           b == [connector EXCEPT !.state_ = "kDisconnected", !.connect_ = TRUE]
<1>1. /\ TypeOK /\ Record /\ OneAttempt /\ OneTimer /\ Round /\ Connections /\ Luck
      /\ connector \in ConnectorType /\ connector.queued = <<>> /\ ~connector.fatal
  BY Flags DEF Inv, Running, Record
<1>2. /\ phase = "events" /\ fd \in activeConns /\ connection_' = NoFd
      /\ watched' = watched \ {fd} /\ activeConns' = activeConns \ {fd}
      /\ \/ ~WantsAnother /\ Becomes(base, functors) /\ mishap' = mishap
         \/ WantsAnother /\ \E result \in Answers :
              /\ Becomes(Restart(base, result, NewFd), functors)
              /\ mishap' = (mishap \/ NoHope(result))
  BY DEF HandleClose, Blame
<1>3. /\ functors \in Seq(Functor) /\ CallsIn(functors) = {"connectDestroyed"}
      /\ ConnsOf(functors) = {fd} /\ InOrder(functors)
  <2>1. [call |-> "connectDestroyed", conn |-> fd] \in Functor
    BY DEF Functor
  <2>2. functors \in Seq(Functor) /\ Len(functors) = 1
        /\ functors[1] = [call |-> "connectDestroyed", conn |-> fd]
    BY <2>1
  <2> HIDE DEF functors
  <2>3. ToSet(functors) = {[call |-> "connectDestroyed", conn |-> fd]}
    BY <2>2, ElementsOf
  <2>4. QED
    BY <2>2, <2>3 DEF CallsIn, ConnsOf, InOrder
<1> HIDE DEF functors
<1>4. ASSUME NEW c \in ConnectorType, Becomes(c, functors), mishap' \in BOOLEAN,
             c.fatal => mishap'
      PROVE  TypeOK' /\ Record'
  <2>1. {connect_', retry_', alive', serverUp', expired', mishap'} \subseteq BOOLEAN
    BY <1>1, <1>4, Flags DEF HandleClose
  <2>2. /\ connection_' \in live' \cup {NoFd} /\ live' \subseteq Fds /\ held' \subseteq live'
        /\ watched' \subseteq live' /\ peerClosed' \subseteq live' /\ ran' \subseteq live'
        /\ timers' \in 0..1 /\ (expired' => timers' > 0)
        /\ phase' \in {"events", "functors", "ended"}
        /\ active' \subseteq {"timer", "OUT", "ERR"}
        /\ activeConns' \subseteq Fds /\ executing' \in Seq(Functor)
    BY <1>1, <1>2, Flags DEF HandleClose
  <2>3. QED
    BY <1>1, <1>3, <1>4, <2>1, <2>2, BecomesKeepsTypes
<1>5. ASSUME NEW c \in ConnectorType, Becomes(c, functors), c.fatal,
             mishap', mishap' \in BOOLEAN
      PROVE  Inv'
  <2>1. crashed'
    BY <1>5 DEF Becomes
  <2>2. QED
    BY <1>4, <1>5, <2>1, CrashInv
<1>6. mishap' \in BOOLEAN /\ (mishap => mishap')
  <2>1. mishap \in BOOLEAN
    BY <1>1, Flags
  <2>2. ASSUME NEW result \in Answers, mishap' = (mishap \/ NoHope(result))
        PROVE  mishap' \in BOOLEAN /\ (mishap => mishap')
    <3>1. (mishap \/ NoHope(result)) \in BOOLEAN /\ (mishap => (mishap \/ NoHope(result)))
      OBVIOUS
    <3>2. QED
      BY <2>2, <3>1, Zenon
  <2>3. QED
    BY <1>2, <2>1, <2>2
<1>7. CASE ~known
  <2>1. mishap'
    BY <1>1, <1>2, <1>6, <1>7, Flags, DescriptorIsNotNoFd DEF Luck, Connections
  <2>2. base = Fatal(connector)
    BY <1>7
  <2> HIDE DEF known
  <2>3. base \in ConnectorType /\ base.fatal
    BY <1>1, <2>2, ConnectorParts DEF Fatal, ConnectorType
  <2> HIDE DEF base
  <2>4. CASE Becomes(base, functors)
    BY <1>5, <1>6, <2>1, <2>3, <2>4
  <2>5. ASSUME NEW result \in Answers, Becomes(Restart(base, result, NewFd), functors)
        PROVE  Inv'
    <3> DEFINE d == [base EXCEPT !.state_ = "kDisconnected", !.connect_ = TRUE]
    <3>1. d \in ConnectorType /\ d.fatal /\ d.state_ = "kDisconnected" /\ d.connect_ = TRUE
      BY <2>3 DEF ConnectorType, States
    <3>2. Restart(base, result, NewFd) = Connect(d, result, NewFd)
      BY <3>1 DEF Restart, StartInLoop
    <3> HIDE DEF d
    <3>3. /\ result \in Results /\ NewFd \in Fds \cup {NoFd}
          /\ (result = "inProgress" => NewFd \in Fds)
      BY <1>1, AnswerFacts
    <3>4. Connect(d, result, NewFd) \in ConnectorType /\ Connect(d, result, NewFd).fatal
      BY <3>1, <3>3, FatalStays
    <3>5. QED
      BY <1>5, <1>6, <2>1, <2>5, <3>2, <3>4
  <2>6. QED
    BY <1>2, <2>4, <2>5
<1>8. CASE known
  <2>1. base = connector /\ alive /\ fd \in live /\ connection_ = fd /\ fd # NoFd
    BY <1>8, DescriptorIsNotNoFd
  <2> HIDE DEF known, base
  <2>2. /\ connector.state_ = "kConnected" /\ connector.channel_ = "null"
        /\ connector.sockfd = NoFd /\ timers = 0 /\ Waiting \cap Retrying = {}
        /\ "OUT" \notin active /\ "ERR" \notin active
        /\ watched \subseteq {fd} /\ activeConns \subseteq {fd}
        /\ fd \notin ran \cup ConnsOf(pending) \cup ConnsOf(executing)
    <3>1. connector.state_ = "kConnected" /\ "resetChannel" \notin Waiting
      BY <1>1, <1>2, <2>1 DEF Connections, AttemptOrConnection
    <3>2. "insertTimer" \notin Waiting /\ timers = 0
      BY <1>1, <3>1, Flags DEF OneTimer
    <3>3. connector.channel_ = "null"
      BY <1>1, <3>1 DEF OneAttempt, ConnectorType
    <3>4. QED
      BY <1>1, <2>1, <3>1, <3>2, <3>3
         DEF OneAttempt, Round, Connections, AttemptOrConnection, Retrying
  <2>3. /\ watched' = {} /\ activeConns' = {} /\ live' = live /\ executing' = executing
        /\ alive' = alive /\ phase' = phase /\ active' = active /\ timers' = 0 /\ ran' = ran
    BY <1>2, <2>2 DEF HandleClose
  <2>4. ASSUME NEW c \in ConnectorType, Becomes(c, functors), c.queued = <<>>
        PROVE  /\ connector' = [c EXCEPT !.queued = <<>>] /\ InOrder(pending')
               /\ CallsIn(pending') = CallsIn(pending) \cup {"connectDestroyed"}
               /\ ConnsOf(pending') \subseteq ConnsOf(pending) \cup {fd, NoFd}
               /\ Waiting' = Waiting \cup {"connectDestroyed"}
               /\ Waiting' \cap Retrying = {} /\ ("stopInLoop" \in Waiting' => StopQueued)
               /\ ConnsOf(pending') \subseteq live \cup {NoFd}
    <3>1. /\ ToSet(c.queued) = {} /\ CallsInOrder(c.queued) /\ InOrder(pending)
          /\ (CallsIn(functors) \cup ToSet(c.queued)) \cap Retrying = {}
      BY <1>1, <1>3, <2>4, TuplesInOrder DEF OneTimer, Retrying
    <3>2. /\ connector' = [c EXCEPT !.queued = <<>>] /\ InOrder(pending')
          /\ CallsIn(pending') = CallsIn(pending) \cup {"connectDestroyed"}
          /\ ConnsOf(pending') \subseteq ConnsOf(pending) \cup {fd, NoFd}
      BY <1>1, <1>3, <2>4, <3>1, BecomesFacts
    <3>3. Waiting' = Waiting \cup {"connectDestroyed"}
      BY <2>3, <3>2 DEF Waiting
    <3>4. Waiting' \cap Retrying = {} /\ ("stopInLoop" \in Waiting' => StopQueued)
      BY <2>2, <3>3, StopIsQueued DEF Retrying
    <3>5. ConnsOf(pending') \subseteq live \cup {NoFd}
      BY <1>1, <2>1, <3>2 DEF Connections
    <3>6. QED
      BY <3>2, <3>3, <3>4, <3>5
  <2>5. ASSUME NEW c \in ConnectorType, Becomes(c, functors), c.queued = <<>>, ~c.fatal,
               c.state_ # "kConnecting", c.channel_ = "null", c.sockfd = NoFd
        PROVE  Inv'
    <3>1. /\ connector' = [c EXCEPT !.queued = <<>>] /\ InOrder(pending')
          /\ Waiting' = Waiting \cup {"connectDestroyed"} /\ Waiting' \cap Retrying = {}
          /\ CallsIn(pending') \cap Retrying = {}
          /\ ConnsOf(pending') \subseteq live \cup {NoFd}
      BY <2>2, <2>4, <2>5 DEF Waiting
    <3>2. /\ connector'.state_ # "kConnecting" /\ connector'.channel_ = "null"
          /\ connector'.sockfd = NoFd
      BY <2>5, <3>1 DEF ConnectorType
    <3>3. socket' = "none"
      BY <2>5 DEF Becomes
    <3>4. TypeOK' /\ Record'
      BY <1>4, <1>6, <2>5
    <3>5. OneAttempt' /\ OneTimer'
      BY <1>1, <2>2, <2>3, <3>1, <3>2 DEF OneAttempt, OneTimer, Retrying
    <3>6. Round' /\ Luck'
      BY <1>1, <1>2, <1>6, <2>1, <2>2, <2>3, <3>1, <3>2, <3>3 DEF Round, Luck, HandleClose
    <3>7. Connections'
      BY <1>1, <1>2, <2>3, <3>1, <3>2, DescriptorIsNotNoFd, Flags
         DEF Connections, AttemptOrConnection
    <3>8. QED
      BY <3>4, <3>5, <3>6, <3>7 DEF Inv, Running
  <2>6. CASE Becomes(base, functors)
    BY <1>1, <2>1, <2>2, <2>5, <2>6
  <2>7. ASSUME NEW result \in Answers, Becomes(Restart(base, result, NewFd), functors),
               mishap' = (mishap \/ NoHope(result))
        PROVE  Inv'
    <3> DEFINE c == Restart(connector, result, NewFd)
    <3>1. /\ b \in ConnectorType /\ ~b.fatal /\ b.channel_ = "null" /\ b.queued = <<>>
          /\ b.sockfd = NoFd /\ b.state_ = "kDisconnected" /\ b.connect_ = TRUE
      BY <1>1, <2>2 DEF ConnectorType, States
    <3>2. c = Connect(b, result, NewFd)
      BY <3>1 DEF Restart, StartInLoop
    <3> HIDE DEF b
    <3>3. /\ result \in Results /\ NewFd \in Fds \cup {NoFd}
          /\ (result = "inProgress" => NewFd \in Fds)
          /\ (result = "inProgress" => NewFd \in Fds \ live)
      BY <1>1, AnswerFacts
    <3>4. AttemptMade(b, result, NewFd, c) /\ Becomes(c, functors)
      BY <2>1, <2>7, <3>1, <3>2, <3>3, ConnectFacts
    <3> HIDE DEF c
    <3>5. CASE result \in {"refused", "noDescriptor"}
      BY <1>5, <1>6, <2>7, <3>4, <3>5 DEF NoHope, AttemptMade
    <3>6. CASE result = "error"
      BY <2>5, <3>1, <3>4, <3>6 DEF AttemptMade
    <3>7. CASE result = "inProgress"
      <4>1. /\ c.queued = <<>> /\ ~c.fatal /\ c.sockfd = NewFd /\ c \in ConnectorType
            /\ c.state_ = "kConnecting" /\ c.channel_ = "added" /\ c.connect_ = TRUE
            /\ NewFd \in Fds \ live
        BY <3>1, <3>3, <3>4, <3>7 DEF AttemptMade, ConnectorType
      <4>2. /\ connector' = [c EXCEPT !.queued = <<>>] /\ InOrder(pending')
            /\ Waiting' \cap Retrying = {} /\ ("stopInLoop" \in Waiting' => mishap')
            /\ ConnsOf(pending') \subseteq live \cup {NoFd}
        BY <2>4, <2>7, <3>4, <4>1 DEF NoHope
      <4>3. /\ connector'.state_ = "kConnecting" /\ connector'.channel_ = "added"
            /\ connector'.sockfd = NewFd /\ connector'.connect_ = TRUE
        BY <4>1, <4>2 DEF ConnectorType
      <4>4. socket' = "pending"
        BY <2>2, <3>4, <4>1, DescriptorIsNotNoFd DEF Becomes
      <4>5. TypeOK' /\ Record'
        BY <1>4, <1>6, <3>4, <4>1
      <4>6. active' \subseteq active /\ ("timer" \in active' => expired')
        BY <1>1, <2>3 DEF Round, HandleClose
      <4>7. QED
        BY <1>2, <1>6, <2>1, <2>2, <2>3, <4>1, <4>2, <4>3, <4>4, <4>5, <4>6, AttemptInv
    <3>8. QED
      BY <3>3, <3>5, <3>6, <3>7 DEF Results
  <2>8. QED
    BY <1>2, <2>6, <2>7
<1>9. QED
  BY <1>7, <1>8

(* handleRead, handleWrite of a connection: they leave the client as it is. *)
(* Without a mishap the channel that the loop calls has not been deleted.   *)
LEMMA HandleMessageInv == ASSUME Inv, ~crashed, NEW fd \in Fds, HandleMessage(fd) PROVE Inv'
<1> USE DEF clientVars, connVars, peerVars, timerVars
<1>1. /\ TypeOK /\ Record /\ Round /\ Connections /\ Luck
      /\ connector \in ConnectorType /\ connector.queued = <<>> /\ ~connector.fatal
  BY Flags DEF Inv, Running, Record
<1>2. /\ phase = "events" /\ fd \in activeConns /\ activeConns' = activeConns \ {fd}
      /\ mishap' = mishap /\ <<>> \in Seq(Functor)
  BY EmptySeq DEF HandleMessage
<1>3. CASE fd \in live
  <2>1. Becomes(connector, <<>>)
    BY <1>3 DEF HandleMessage
  <2>2. pending' = pending /\ socket' = socket /\ connector' = [connector EXCEPT !.queued = <<>>]
    BY <1>1, <1>2, <2>1, BecomesFacts, SocketFollows
  <2>3. connector' = connector /\ crashed' = crashed
    BY <1>1, <2>1, <2>2, Flags DEF Becomes, ConnectorType, Record
  <2>4. Waiting' = Waiting
    BY <2>2 DEF Waiting, HandleMessage
  <2>5. Round' /\ Luck'
    BY <1>1, <1>2, <2>2, <2>3, <2>4 DEF Round, Luck, HandleMessage
  <2>6. /\ alive => activeConns' \subseteq {connection_}
        /\ connection_ \in activeConns' => "resetChannel" \notin Waiting
    BY <1>1, <1>2 DEF Connections
  <2>7. QED
    BY <1>1, <1>2, <2>2, <2>3, <2>5, <2>6, Flags, QuietInv DEF HandleMessage
<1>4. CASE fd \notin live
  <2>1. Becomes(Fatal(connector), <<>>) /\ Fatal(connector) \in ConnectorType
    BY <1>1, <1>4, ConnectorParts DEF HandleMessage
  <2>2. ~alive
    BY <1>1, <1>2, <1>4, Flags, DescriptorIsNotNoFd DEF Connections
  <2>3. mishap'
    BY <1>1, <1>2, <2>2 DEF Luck
  <2>4. crashed'
    BY <1>1, <2>1 DEF Becomes, Fatal, ConnectorType
  <2>5. {connect_', retry_', alive', serverUp', expired', mishap'} \subseteq BOOLEAN
    BY <1>1, Flags DEF HandleMessage
  <2>6. /\ connection_' \in live' \cup {NoFd} /\ live' \subseteq Fds /\ held' \subseteq live'
        /\ watched' \subseteq live' /\ peerClosed' \subseteq live' /\ ran' \subseteq live'
        /\ timers' \in 0..1 /\ (expired' => timers' > 0)
        /\ phase' \in {"events", "functors", "ended"}
        /\ active' \subseteq {"timer", "OUT", "ERR"}
        /\ activeConns' \subseteq Fds /\ executing' \in Seq(Functor)
    BY <1>1, <1>2, Flags DEF HandleMessage
  <2>7. TypeOK' /\ Record'
    BY <1>1, <1>2, <2>1, <2>3, <2>5, <2>6, BecomesKeepsTypes
  <2>8. QED
    BY <2>4, <2>7, CrashInv
<1>5. QED
  BY <1>3, <1>4

------------------------------------------------------------------------------
(* The theorems.                                                            *)

(* Every callback, functor and call keeps the invariant; after a crash the  *)
(* process does nothing.                                                    *)
LEMMA StepInv == Inv /\ [Next]_vars => Inv'
<1> SUFFICES ASSUME Inv, [Next]_vars PROVE Inv'
  OBVIOUS
<1>1. CASE UNCHANGED vars
  <2> USE DEF vars, clientVars, connVars, peerVars, timerVars, roundVars
  <2>1. Waiting' = Waiting
    BY <1>1 DEF Waiting
  <2>2. TypeOK' /\ Record'
    BY <1>1 DEF Inv, TypeOK, Record
  <2>3. Running => Running'
    BY <1>1, <2>1 DEF Running, OneAttempt, OneTimer, Round, Connections, AttemptOrConnection,
                      Luck
  <2>4. crashed' = crashed
    BY <1>1
  <2>5. QED
    BY <2>2, <2>3, <2>4 DEF Inv
<1>2. CASE LoopStep
  BY <1>2, PollInv, HandleWritableInv, HandleFailureInv, TimerFiresInv, HandleCloseInv,
     HandleMessageInv, SwapInv, RunFunctorInv DEF LoopStep
<1>3. CASE UserCall
  <2>1. ASSUME NEW fd \in Fds, ~crashed, UserDrops(fd) PROVE Inv'
    <3>1. fd \in held
      BY <2>1 DEF UserDrops
    <3>2. QED
      BY <2>1, <3>1, UserDropsInv
  <2>2. QED
    BY <1>3, <2>1, ConnectClientInv, OutsideInv, StopClientInv, DestroyInv DEF UserCall
<1>4. CASE Network
  BY <1>4, OutsideInv DEF Network
<1>5. CASE Quit
  <2>1. CASE ~crashed
    BY <1>5, <2>1, OutsideInv
  <2>2. CASE crashed
    <3>1. TypeOK' /\ Record' /\ crashed'
      BY <1>5, <2>2 DEF Inv, TypeOK, Record, Quit, clientVars, connVars, peerVars, timerVars
    <3>2. QED
      BY <3>1, CrashInv
  <2>3. QED
    BY <2>1, <2>2
<1>6. QED
  BY <1>1, <1>2, <1>3, <1>4, <1>5 DEF Next

(* The invariant holds in every state of the client and its loop.           *)
THEOREM InductiveInvariant == Spec => []Inv
<1>1. Init => Inv
  BY InitInv
<1>2. Inv /\ [Next]_vars => Inv'
  BY StepInv
<1>3. QED
  BY <1>1, <1>2, PTL DEF Spec

(* The client's and the connector's members, the loop's queues and its      *)
(* timer set keep their types: there is never more than one retry timer.    *)
THEOREM TypeCorrect == Spec => []TypeOK
<1>1. Inv => TypeOK
  BY DEF Inv
<1>2. QED
  BY <1>1, InductiveInvariant, PTL

(* Refused attempts, closed connections and restarts do not end the process *)
(* of a client, in any number and any order: only the mishaps do.           *)
THEOREM ClientSurvives == Spec => []SurvivesRefusals
<1>1. Inv => SurvivesRefusals
  BY DEF Inv, Record, SurvivesRefusals
<1>2. QED
  BY <1>1, InductiveInvariant, PTL

(* handleWrite, newConnection, removeConnection: there is an attempt, or a  *)
(* connection_, or neither, and they never share a descriptor.              *)
THEOREM AttemptsAndConnections == Spec => []AttemptOrConnection
<1>1. Inv => AttemptOrConnection
  BY DEF Inv, Running, Connections, AttemptOrConnection
<1>2. QED
  BY <1>1, InductiveInvariant, PTL

(* There is a channel, on which epoll may report events.                    *)
HasChannel(c) == c \in ConnectorType /\ c.channel_ # "null"

(* No method of the connector but resetChannel() deletes its channel.       *)
LEMMA ChannelStays ==
  ASSUME NEW c, HasChannel(c)
  PROVE  /\ HasChannel(Fatal(c)) /\ HasChannel(Stop(c)) /\ HasChannel(StopInLoop(c))
         /\ HasChannel(HandleError(c)) /\ \A state : HasChannel(HandleWrite(c, state))
         /\ \A result \in Results, fd \in Fds \cup {NoFd} :
              /\ HasChannel(Connect(c, result, fd)) /\ HasChannel(Start(c, result, fd))
              /\ HasChannel(Restart(c, result, fd))
<1>1. ASSUME NEW d, HasChannel(d)
      PROVE  /\ HasChannel(Fatal(d)) /\ HasChannel(Close(d))
             /\ HasChannel(RemoveAndResetChannel(d))
             /\ HasChannel([d EXCEPT !.connect_ = TRUE])
             /\ HasChannel([d EXCEPT !.connect_ = FALSE])
             /\ HasChannel([d EXCEPT !.state_ = "kConnected"])
             /\ HasChannel([d EXCEPT !.state_ = "kDisconnected"])
             /\ HasChannel(Queue(d, "insertTimer")) /\ HasChannel(Queue(d, "stopInLoop"))
  <2>1. ASSUME NEW e, HasChannel(e), NEW call \in Calls PROVE HasChannel(Queue(e, call))
    BY <2>1, ConnectorParts DEF HasChannel, Queue, ConnectorType
  <2>2. HasChannel([d EXCEPT !.channel_ = "removed"])
    BY <1>1 DEF HasChannel, ConnectorType
  <2>3. HasChannel(Fatal(d)) /\ HasChannel(Close(d))
    BY <1>1 DEF HasChannel, Fatal, Close, ConnectorType
  <2>4. HasChannel(RemoveAndResetChannel(d))
    BY <2>1, <2>2, <2>3 DEF RemoveAndResetChannel, Calls
  <2>5. /\ HasChannel([d EXCEPT !.connect_ = TRUE]) /\ HasChannel([d EXCEPT !.connect_ = FALSE])
        /\ HasChannel([d EXCEPT !.state_ = "kConnected"])
        /\ HasChannel([d EXCEPT !.state_ = "kDisconnected"])
    BY <1>1 DEF HasChannel, ConnectorType, States
  <2>6. QED
    BY <1>1, <2>1, <2>3, <2>4, <2>5 DEF Calls
<1>3. ASSUME NEW d, HasChannel(d) PROVE HasChannel(Retry(d))
  <2>1. HasChannel(Close(RemoveAndResetChannel(d)))
    BY <1>1, <1>3
  <2>2. HasChannel(Queue(Close(RemoveAndResetChannel(d)), "insertTimer"))
    BY <1>1, <2>1
  <2>3. QED
    BY <2>2 DEF Retry
<1>4. ASSUME NEW d, HasChannel(d), NEW result \in Results, NEW fd \in Fds \cup {NoFd}
      PROVE  HasChannel(Connect(d, result, fd)) /\ HasChannel(StartInLoop(d, result, fd))
  <2>1. d.channel_ # "null"
    BY <1>4 DEF HasChannel
  <2>2. Connecting(d, fd) = Fatal(d)
    BY <2>1 DEF Connecting
  <2>3. HasChannel(Connect(d, result, fd))
    BY <1>1, <1>3, <1>4, <2>2 DEF Connect, Results
  <2>4. QED
    BY <1>1, <1>4, <2>3 DEF StartInLoop
<1>5. HasChannel(Stop(c))
  <2>1. HasChannel([c EXCEPT !.connect_ = FALSE])
    BY <1>1
  <2>2. HasChannel(Queue([c EXCEPT !.connect_ = FALSE], "stopInLoop"))
    BY <1>1, <2>1
  <2>3. QED
    BY <2>2 DEF Stop
<1>6. HasChannel(StopInLoop(c)) /\ HasChannel(HandleError(c)) /\ HasChannel(Retry(c))
  BY <1>1, <1>3 DEF StopInLoop, HandleError, States
<1>7. ASSUME NEW state PROVE HasChannel(HandleWrite(c, state))
  BY <1>1, <1>3 DEF HandleWrite, States
<1>8. ASSUME NEW result \in Results, NEW fd \in Fds \cup {NoFd}
      PROVE  HasChannel(Start(c, result, fd)) /\ HasChannel(Restart(c, result, fd))
  <2>1. HasChannel([c EXCEPT !.connect_ = TRUE])
    BY <1>1
  <2>2. HasChannel([c EXCEPT !.state_ = "kDisconnected", !.connect_ = TRUE])
    BY DEF HasChannel, ConnectorType, States
  <2>3. QED
    BY <1>4, <2>1, <2>2 DEF Start, Restart
<1>9. QED
  BY <1>1, <1>4, <1>5, <1>6, <1>7, <1>8

(* A step of the client and its loop deletes no channel that epoll watches. *)
LEMMA StepKeepsChannel ==
  ASSUME Inv, [Next]_vars, connector.channel_ = "added"
  PROVE  connector'.channel_ # "null"
<1>1. HasChannel(connector) /\ TypeOK
  BY Flags DEF Inv, HasChannel
<1>2. ASSUME NEW c, NEW functors, Becomes(c, functors), HasChannel(c)
      PROVE  connector'.channel_ # "null"
  BY <1>2 DEF Becomes, HasChannel, ConnectorType
<1>3. ASSUME NEW result \in Answers PROVE result \in Results /\ NewFd \in Fds \cup {NoFd}
  BY <1>1, <1>3, AnswerFacts
<1>4. CASE connector' = connector
  BY <1>1, <1>4 DEF HasChannel
<1>5. CASE ConnectClient
  <2>1. PICK result \in Answers : Becomes(Start(connector, result, NewFd), <<>>)
    BY <1>5 DEF ConnectClient
  <2>2. HasChannel(Start(connector, result, NewFd))
    BY <1>1, <1>3, ChannelStays
  <2>3. QED
    BY <1>2, <2>1, <2>2
<1>6. CASE StopClient
  <2>1. Becomes(Stop(connector), <<>>) /\ HasChannel(Stop(connector))
    BY <1>1, <1>6, ChannelStays DEF StopClient
  <2>2. QED
    BY <1>2, <2>1
<1>7. CASE Destroy
  <2> DEFINE stopped == IF connection_ = NoFd THEN Stop(connector) ELSE connector
             c == IF stopped.channel_ = "null" THEN stopped ELSE Fatal(stopped)
  <2>1. Becomes(c, <<>>)
    BY <1>7 DEF Destroy
  <2>2. HasChannel(stopped)
    BY <1>1, ChannelStays
  <2> HIDE DEF stopped
  <2>3. HasChannel(c)
    BY <2>2, ChannelStays
  <2> HIDE DEF c
  <2>4. QED
    BY <1>2, <2>1, <2>3
<1>8. CASE HandleWritable
  <2>1. Becomes(HandleWrite(connector, socket), <<>>)
    BY <1>8 DEF HandleWritable
  <2>2. HasChannel(HandleWrite(connector, socket))
    BY <1>1, ChannelStays
  <2>3. QED
    BY <1>2, <2>1, <2>2
<1>9. CASE HandleFailure
  <2>1. Becomes(HandleError(connector), <<>>) /\ HasChannel(HandleError(connector))
    BY <1>1, <1>9, ChannelStays DEF HandleFailure
  <2>2. QED
    BY <1>2, <2>1
<1>10. ASSUME NEW fd \in Fds, HandleClose(fd) PROVE connector'.channel_ # "null"
  <2> DEFINE c == IF alive /\ fd \in live /\ connection_ = fd THEN connector
                  ELSE Fatal(connector)
             functors == <<[call |-> "connectDestroyed", conn |-> fd]>>
  <2>1. \/ Becomes(c, functors)
        \/ \E result \in Answers : Becomes(Restart(c, result, NewFd), functors)
    BY <1>10 DEF HandleClose
  <2>2. HasChannel(c)
    BY <1>1, ChannelStays
  <2> HIDE DEF c, functors
  <2>3. ASSUME NEW result \in Answers PROVE HasChannel(Restart(c, result, NewFd))
    BY <1>3, <2>2, <2>3, ChannelStays
  <2>4. QED
    BY <1>2, <2>1, <2>2, <2>3
<1>11. CASE TimerFires
  <2>1. ASSUME NEW result \in Answers PROVE HasChannel(Connect(connector, result, NewFd))
    BY <1>1, <1>3, <2>1, ChannelStays
  <2>2. QED
    BY <1>2, <1>4, <1>11, <2>1 DEF TimerFires
<1>12. ASSUME ~crashed, RunFunctor PROVE connector'.channel_ # "null"
  <2> DEFINE functor == Head(executing)
             c == CASE functor.call \in {"stopInLoop", "resetChannel"} /\ ~alive ->
                         Fatal(connector)
                    [] functor.call = "stopInLoop" /\ alive -> StopInLoop(connector)
                    [] functor.call = "resetChannel" /\ alive -> ResetChannel(connector)
                    [] OTHER -> connector
  <2>1. Becomes(c, <<>>) /\ executing # <<>>
    BY <1>12 DEF RunFunctor
  <2>2. functor.call # "resetChannel"
    BY <1>1, <1>12, <2>1, QueuedTail, Flags
       DEF Inv, Running, OneAttempt, Waiting, Retrying
  <2> HIDE DEF functor
  <2>3. HasChannel(c)
    BY <1>1, <2>2, ChannelStays
  <2> HIDE DEF c
  <2>4. QED
    BY <1>2, <2>1, <2>3
<1>13. CASE UNCHANGED vars
  BY <1>4, <1>13 DEF vars
<1>14. ASSUME NEW fd \in Fds, HandleMessage(fd) PROVE connector'.channel_ # "null"
  <2>1. \/ Becomes(connector, <<>>)
        \/ Becomes(Fatal(connector), <<>>)
    BY <1>14 DEF HandleMessage
  <2>2. HasChannel(Fatal(connector))
    BY <1>1, ChannelStays
  <2>3. QED
    BY <1>1, <1>2, <2>1, <2>2
<1>15. CASE LoopStep
  BY <1>4, <1>8, <1>9, <1>10, <1>11, <1>12, <1>14, <1>15 DEF LoopStep, Poll, DoPendingFunctors
<1>16. CASE UserCall
  BY <1>4, <1>5, <1>6, <1>7, <1>16 DEF UserCall, EnableRetry, Disconnect, UserDrops
<1>17. CASE Network
  BY <1>4, <1>17 DEF Network, Resolve, SocketFails, ServerChanges, TimerExpires, PeerCloses
<1>18. CASE Quit
  BY <1>4, <1>18 DEF Quit
<1>19. QED
  BY <1>13, <1>15, <1>16, <1>17, <1>18 DEF Next

(* removeAndResetChannel: the resetChannel() of an attempt never finds the  *)
(* channel of the next one.                                                 *)
THEOREM OwnChannelIsReset == Spec => ResetsOwnChannel
<1>1. Inv /\ [Next]_vars =>
        [connector.channel_ = "added" => connector'.channel_ # "null"]_connector
  BY StepKeepsChannel
<1>2. QED
  BY <1>1, InductiveInvariant, PTL DEF Spec, ResetsOwnChannel

(* Only connect() of a connector begins an attempt.                         *)
LEMMA MethodsBeginNothing ==
  ASSUME NEW c \in ConnectorType, c.state_ # "kConnecting"
  PROVE  /\ Fatal(c).state_ # "kConnecting" /\ ResetChannel(c).state_ # "kConnecting"
         /\ Stop(c).state_ # "kConnecting" /\ StopInLoop(c) = c
         /\ HandleError(c) = c /\ \A state : HandleWrite(c, state) = c
<1>1. ASSUME NEW state PROVE HandleWrite(c, state) = c
  BY DEF HandleWrite, HandsOver
<1>2. Stop(c).state_ # "kConnecting"
  BY DEF ConnectorType, Stop, Queue
<1>3. QED
  BY <1>1, <1>2 DEF ConnectorType, Fatal, ResetChannel, StopInLoop, HandleError

(* A step that is not the program's connect() begins no attempt unless the  *)
(* client retries and wants to be connected.                                *)
LEMMA StepBeginsNothing ==
  ASSUME Inv, [Next]_vars, ~ConnectClient, ~(retry_ /\ connect_),
         connector.state_ # "kConnecting"
  PROVE  connector'.state_ # "kConnecting"
<1>1. connector \in ConnectorType /\ connector.queued = <<>> /\ TypeOK
  BY Flags DEF Inv
<1>2. ASSUME NEW c, NEW functors, Becomes(c, functors), c.state_ # "kConnecting",
             c \in ConnectorType
      PROVE  connector'.state_ # "kConnecting"
  BY <1>2 DEF Becomes, ConnectorType
<1>3. CASE connector' = connector
  BY <1>3
<1>5. Stop(connector) \in ConnectorType /\ Stop(connector).state_ # "kConnecting"
  BY <1>1, StopFacts, MethodsBeginNothing
<1>6. CASE StopClient
  BY <1>2, <1>5, <1>6 DEF StopClient
<1>7. CASE Destroy
  <2> DEFINE stopped == IF connection_ = NoFd THEN Stop(connector) ELSE connector
             c == IF stopped.channel_ = "null" THEN stopped ELSE Fatal(stopped)
  <2>1. Becomes(c, <<>>)
    BY <1>7 DEF Destroy
  <2>2. stopped \in ConnectorType /\ stopped.state_ # "kConnecting"
    BY <1>1, <1>5
  <2> HIDE DEF stopped
  <2>3. c \in ConnectorType /\ c.state_ # "kConnecting"
    BY <2>2, ConnectorParts, MethodsBeginNothing
  <2> HIDE DEF c
  <2>4. QED
    BY <1>2, <2>1, <2>3
<1>8. CASE HandleWritable
  <2>1. Becomes(connector, <<>>)
    BY <1>1, <1>8, MethodsBeginNothing DEF HandleWritable
  <2>2. QED
    BY <1>1, <1>2, <2>1
<1>9. CASE HandleFailure
  <2>1. Becomes(connector, <<>>)
    BY <1>1, <1>9, MethodsBeginNothing DEF HandleFailure
  <2>2. QED
    BY <1>1, <1>2, <2>1
<1>10. ASSUME NEW fd \in Fds, HandleClose(fd) PROVE connector'.state_ # "kConnecting"
  <2> DEFINE c == IF alive /\ fd \in live /\ connection_ = fd THEN connector
                  ELSE Fatal(connector)
             functors == <<[call |-> "connectDestroyed", conn |-> fd]>>
  <2>1. Becomes(c, functors)
    BY <1>10 DEF HandleClose, WantsAnother
  <2>2. c \in ConnectorType /\ c.state_ # "kConnecting"
    BY <1>1, ConnectorParts, MethodsBeginNothing
  <2> HIDE DEF c, functors
  <2>3. QED
    BY <1>2, <2>1, <2>2
<1>11. ASSUME ~crashed, TimerFires PROVE connector'.state_ # "kConnecting"
  <2>1. Round /\ OneTimer /\ (expired => timers > 0)
    BY <1>11, Flags DEF Inv, Running
  <2>2. "timer" \in active
    BY <1>11 DEF TimerFires
  <2>3. QED
    BY <2>1, <2>2 DEF Round, OneTimer
<1>12. CASE RunFunctor
  <2> DEFINE functor == Head(executing)
             c == CASE functor.call \in {"stopInLoop", "resetChannel"} /\ ~alive ->
                         Fatal(connector)
                    [] functor.call = "stopInLoop" /\ alive -> StopInLoop(connector)
                    [] functor.call = "resetChannel" /\ alive -> ResetChannel(connector)
                    [] OTHER -> connector
  <2>1. Becomes(c, <<>>)
    BY <1>12 DEF RunFunctor
  <2> HIDE DEF functor
  <2>2. c \in ConnectorType /\ c.state_ # "kConnecting"
    BY <1>1, ConnectorParts, MethodsBeginNothing
  <2> HIDE DEF c
  <2>3. QED
    BY <1>2, <2>1, <2>2
<1>13. CASE UNCHANGED vars
  BY <1>3, <1>13 DEF vars
<1>14. ASSUME NEW fd \in Fds, HandleMessage(fd) PROVE connector'.state_ # "kConnecting"
  <2>1. \/ Becomes(connector, <<>>)
        \/ Becomes(Fatal(connector), <<>>)
    BY <1>14 DEF HandleMessage
  <2>2. Fatal(connector) \in ConnectorType /\ Fatal(connector).state_ # "kConnecting"
    BY <1>1, ConnectorParts, MethodsBeginNothing
  <2>3. QED
    BY <1>1, <1>2, <2>1, <2>2
<1>15. CASE LoopStep
  BY <1>3, <1>8, <1>9, <1>10, <1>11, <1>12, <1>14, <1>15 DEF LoopStep, Poll, DoPendingFunctors
<1>16. CASE UserCall
  BY <1>3, <1>6, <1>7, <1>16 DEF UserCall, EnableRetry, Disconnect, UserDrops
<1>17. CASE Network
  BY <1>3, <1>17 DEF Network, Resolve, SocketFails, ServerChanges, TimerExpires, PeerCloses
<1>18. CASE Quit
  BY <1>3, <1>18 DEF Quit
<1>19. QED
  BY <1>13, <1>15, <1>16, <1>17, <1>18 DEF Next

(* removeConnection, connect(): an attempt begins only in a call of         *)
(* connect(), or when a connection of a client closes that has been told to *)
(* retry and has not been told to disconnect() or stop() since.             *)
THEOREM AttemptsBeginWhenAsked == Spec => BeginsWhenAsked
<1>1. Inv /\ [Next]_vars =>
        [connector.state_ # "kConnecting" /\ connector'.state_ = "kConnecting"
           => ConnectClient \/ (retry_ /\ connect_)]_vars
  BY StepBeginsNothing
<1>2. QED
  BY <1>1, InductiveInvariant, PTL DEF Spec, BeginsWhenAsked
==============================================================================
