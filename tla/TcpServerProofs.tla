--------------------------- MODULE TcpServerProofs ---------------------------
(***************************************************************************)
(* Theorems about TcpServer, for any number of clients, descriptors and    *)
(* threads asked for.                                                      *)
(*                                                                         *)
(* No channel of a deleted connection is known to the poller because       *)
(* connections_ and the queued functors tell all there is to tell: a       *)
(* connection is in connections_ while epoll watches its channel, and then *)
(* in exactly one functor until the poller's map has forgotten it.  Both   *)
(* point to it, so that its descriptor cannot be given to another.         *)
(***************************************************************************)
EXTENDS TcpServer, SequenceTheorems, WellFoundedInduction, TLAPS

Distinct(s) == \A m, n \in 1..Len(s) : s[m] = s[n] => m = n

------------------------------------------------------------------------------
(* Sequences and sets.                                                      *)

(* ToSet, by index.                                                        *)
LEMMA ElementsOf ==
  ASSUME NEW S, NEW s \in Seq(S)
  PROVE  ToSet(s) = {s[k] : k \in 1..Len(s)} /\ ToSet(s) \subseteq S
<1>1. DOMAIN s = 1..Len(s) /\ \A k \in 1..Len(s) : s[k] \in S
  BY LenProperties, ElementOfSeq
<1>2. QED
  BY <1>1 DEF ToSet

(* After the swap nothing is queued.                                        *)
LEMMA NoElements == ToSet(<<>>) = {} /\ Distinct(<<>>)
BY DEF ToSet, Distinct

(* queueInLoop: a connection that is not queued yet is queued once.         *)
LEMMA ElementsOfAppend ==
  ASSUME NEW S, NEW s \in Seq(S), NEW e \in S
  PROVE  /\ Append(s, e) \in Seq(S)
         /\ ToSet(Append(s, e)) = ToSet(s) \cup {e}
         /\ Distinct(s) /\ e \notin ToSet(s) => Distinct(Append(s, e))
<1> DEFINE t == Append(s, e)
<1>1. /\ Len(s) \in Nat /\ t \in Seq(S) /\ Len(t) = Len(s) + 1 /\ t[Len(s) + 1] = e
      /\ \A k \in 1..Len(s) : t[k] = s[k]
  BY AppendProperties, LenProperties
<1>2. ToSet(s) = {s[k] : k \in 1..Len(s)} /\ ToSet(t) = {t[k] : k \in 1..Len(t)}
  BY <1>1, ElementsOf
<1> HIDE DEF t
<1>3. ToSet(t) = ToSet(s) \cup {e}
  BY <1>1, <1>2
<1>4. ASSUME Distinct(s), e \notin ToSet(s) PROVE Distinct(t)
  BY <1>1, <1>2, <1>4 DEF Distinct
<1>5. QED
  BY <1>1, <1>3, <1>4 DEF t

(* The round: the first functor is queued once.                             *)
LEMMA ElementsOfTail ==
  ASSUME NEW S, NEW s \in Seq(S), s # <<>>
  PROVE  /\ Tail(s) \in Seq(S) /\ Head(s) \in ToSet(s)
         /\ ToSet(s) = {Head(s)} \cup ToSet(Tail(s))
         /\ Distinct(s) => Distinct(Tail(s)) /\ Head(s) \notin ToSet(Tail(s))
<1> DEFINE t == Tail(s)
<1>1. /\ Len(s) \in Nat /\ Len(s) >= 1 /\ t \in Seq(S) /\ Len(t) = Len(s) - 1
      /\ \A k \in 1..(Len(s) - 1) : t[k] = s[k + 1]
      /\ Head(s) = s[1]
  BY HeadTailProperties, LenProperties, EmptySeq
<1>2. ToSet(s) = {s[k] : k \in 1..Len(s)} /\ ToSet(t) = {t[k] : k \in 1..Len(t)}
  BY <1>1, ElementsOf
<1> HIDE DEF t
<1>3. Head(s) \in ToSet(s) /\ \A x \in ToSet(t) : x \in ToSet(s)
  BY <1>1, <1>2
<1>4. ASSUME NEW x \in ToSet(s), x # Head(s) PROVE x \in ToSet(t)
  <2>1. PICK k \in 1..Len(s) : x = s[k]
    BY <1>2, <1>4
  <2>2. k - 1 \in 1..(Len(s) - 1) /\ (k - 1) + 1 = k
    BY <1>1, <1>4, <2>1
  <2>3. t[k - 1] = x
    BY <1>1, <2>1, <2>2
  <2>4. QED
    BY <1>1, <1>2, <2>2, <2>3
<1>5. ASSUME Distinct(s) PROVE Distinct(t) /\ Head(s) \notin ToSet(t)
  <2>1. ASSUME NEW m \in 1..Len(t), NEW n \in 1..Len(t), t[m] = t[n] PROVE m = n
    <3>1. m + 1 \in 1..Len(s) /\ n + 1 \in 1..Len(s) /\ s[m + 1] = s[n + 1]
      BY <1>1, <2>1
    <3>2. m + 1 = n + 1
      BY <1>5, <3>1 DEF Distinct
    <3>3. QED
      BY <1>1, <3>2
  <2>2. ASSUME NEW m \in 1..Len(t), t[m] = s[1] PROVE FALSE
    <3>1. m + 1 \in 1..Len(s) /\ 1 \in 1..Len(s) /\ s[m + 1] = s[1]
      BY <1>1, <2>2
    <3>2. m + 1 = 1
      BY <1>5, <3>1 DEF Distinct
    <3>3. QED
      BY <1>1, <3>2
  <2>3. QED
    BY <1>1, <1>2, <2>1, <2>2 DEF Distinct
<1>6. QED
  BY <1>1, <1>3, <1>4, <1>5 DEF t

(* accept() gives the lowest free descriptor: there is one.                 *)
LEMMA MinIsMember ==
  ASSUME NEW S \in SUBSET Nat, S # {}
  PROVE  Min(S) \in S
<1> DEFINE R == {p \in Nat \X Nat : p[1] < p[2]}
<1>1. OpToRel(<, Nat) = R
  BY Zenon DEF OpToRel
<1>2. IsWellFoundedOn(R, Nat)
  BY <1>1, NatLessThanWellFounded, Zenon
<1>3. PICK m \in S : \A n \in S : <<n, m>> \notin R
  BY <1>2, WFMin, Zenon
<1>4. ASSUME NEW n \in Nat, NEW k \in Nat, n < k
      PROVE  <<n, k>> \in R
  BY <1>4
<1>5. ASSUME NEW n \in S, ~(m <= n) PROVE FALSE
  <2>1. n \in Nat /\ m \in Nat /\ n < m
    BY <1>5
  <2>2. <<n, m>> \in R
    BY <2>1, <1>4, Zenon
  <2>3. QED
    BY <2>2, <1>3, Zenon
<1>6. QED
  BY <1>5 DEF Min

------------------------------------------------------------------------------
(* The invariant.                                                           *)

(* setTheadNum never tells the pool.                                        *)
Pool == numThreads_ = 0 /\ loops_ = <<>> /\ next_ = 0

(* removeConnectionInLoop runs once for a connection.                       *)
Queues ==
  /\ Distinct(pending) /\ Distinct(executing)
  /\ ToSet(pending) \cap ToSet(executing) = {}

(* What is still to be called is in connections_, or held by the program    *)
(* when the server is gone.                                                 *)
Calls ==
  /\ phase # "events" => active = {} /\ seenClosed = {}
  /\ phase = "events" => executing = <<>>
  /\ enabled \subseteq connections_
  /\ serverAlive => active \subseteq connections_ \cup {None}
  /\ ~serverAlive => connections_ = {} /\ ~listening
  /\ ~serverAlive /\ ~rash => active \subseteq held

(* The poller's map knows a channel by its own descriptor only.             *)
Entries == \A f \in Fds : channels_[f] # None => fd[channels_[f]] = f

(* There is a number for every client that waits.                           *)
Clients == backlog + nextConnId_ <= MaxConns + 1

Inv ==
  /\ TypeOK /\ ServerAndPollerAgree /\ Entries /\ Pool /\ Queues /\ Calls
  /\ Clients

(* The connections there are have been accepted.                            *)
LEMMA LiveConns ==
  ASSUME TypeOK
  PROVE  /\ live \subseteq Conns /\ nextConnId_ \in Nat
         /\ \A i \in live : i < nextConnId_ /\ i \in Nat \ {0}
BY ConstantsAssumption DEF TypeOK, Conns

(* The start.                                                               *)
LEMMA InitInv == Init => Inv
<1> SUFFICES ASSUME Init PROVE Inv
  OBVIOUS
<1>1. /\ pending = <<>> /\ executing = <<>>
      /\ ToSet(pending) = {} /\ ToSet(executing) = {} /\ Distinct(<<>>)
  BY NoElements DEF Init
<1>2. TypeOK
  <2>1. /\ 0 \in 0..MaxThreads /\ 0 \in 0..MaxConns /\ 1 \in 1..(MaxConns + 1)
        /\ <<>> \in Seq(Conns) /\ <<>> \in Seq(1..MaxThreads)
    BY ConstantsAssumption, EmptySeq
  <2>2. /\ fd \in [Conns -> Fds \cup {None}] /\ channels_ \in [Fds -> Conns \cup {None}]
        /\ live = {} /\ connections_ = {} /\ held = {} /\ enabled = {} /\ ran = {}
        /\ deaf = {}
    BY DEF Init
  <2>3. QED
    BY <2>1, <2>2 DEF Init, TypeOK
<1>3. ServerAndPollerAgree
  BY <1>1 DEF Init, ServerAndPollerAgree, Closing
<1>4. Entries /\ Pool /\ Queues /\ Calls /\ Clients
  BY <1>1, ConstantsAssumption DEF Init, Entries, Pool, Queues, Calls, Clients
<1>5. QED
  BY <1>2, <1>3, <1>4 DEF Inv

(* Steps that move no connection.                                           *)
LEMMA QuietInv ==
  ASSUME Inv, UNCHANGED <<connVars, channels_, enabled, pending, executing, ran,
                          nextConnId_, serverAlive, rash>>,
         deaf' \subseteq enabled,
         Pool', requested' \in 0..MaxThreads, listening' \in BOOLEAN,
         backlog' \in 0..MaxConns, peerClosed' \subseteq Conns,
         peerReset' \subseteq peerClosed', Clients', active' \subseteq Conns \cup {None},
         seenClosed' \subseteq active' \ {None}, phase' \in {"events", "functors", "ended"},
         Calls'
  PROVE  Inv'
<1>1. ServerAndPollerAgree' /\ Entries' /\ Queues'
  BY DEF Inv, ServerAndPollerAgree, Closing, Entries, Queues, connVars, pollVars
<1>2. TypeOK'
  <2>1. numThreads_' \in 0..MaxThreads /\ next_' \in 0..MaxThreads
    BY ConstantsAssumption DEF Pool
  <2>2. loops_' \in Seq(1..MaxThreads)
    BY DEF Pool
  <2>3. QED
    BY <2>1, <2>2 DEF Inv, TypeOK, connVars, pollVars
<1>3. QED
  BY <1>1, <1>2 DEF Inv

(* The program before start(), the clients, and the loop between handlers.  *)
LEMMA OutsideInv ==
  ASSUME Inv,
         \/ \E n \in 1..MaxThreads : SetThreadNum(n)
         \/ Start \/ ClientConnects \/ Quit \/ Poll
         \/ \E i \in Conns : \/ PeerCloses(i) \/ PeerResets(i)
                             \/ HandleMessage(i) \/ BacklogDrains(i),
         UNCHANGED rash
  PROVE  Inv'
<1> USE DEF connVars, pollVars, poolVars, serverVars, loopVars, peerVars
<1>1. ASSUME NEW n \in 1..MaxThreads, SetThreadNum(n) PROVE Inv'
  <2>1. Pool' /\ requested' \in 0..MaxThreads /\ Clients' /\ Calls'
    BY <1>1, ConstantsAssumption DEF SetThreadNum, Inv, Pool, Clients, Calls
  <2>2. QED
    BY <1>1, <2>1, QuietInv DEF SetThreadNum, Inv, TypeOK
<1>2. CASE Start
  <2>1. loops_' = <<>>
    BY <1>2 DEF Start, Inv, Pool
  <2>2. Pool' /\ Clients' /\ Calls' /\ listening' \in BOOLEAN
    BY <1>2, <2>1 DEF Start, Inv, Pool, Clients, Calls
  <2>3. QED
    BY <1>2, <2>2, QuietInv DEF Start, Inv, TypeOK
<1>3. CASE ClientConnects
  <2>1. backlog' \in 0..MaxConns /\ Clients'
    BY <1>3, ConstantsAssumption DEF ClientConnects, Inv, TypeOK, Clients
  <2>2. Pool' /\ Calls'
    BY <1>3 DEF ClientConnects, Inv, Pool, Calls
  <2>3. QED
    BY <1>3, <2>1, <2>2, QuietInv DEF ClientConnects, Inv, TypeOK
<1>4. CASE Quit
  <2>1. Pool' /\ Clients' /\ Calls' /\ phase' = "ended"
    BY <1>4 DEF Quit, Inv, Pool, Clients, Calls
  <2>2. QED
    BY <1>4, <2>1, QuietInv DEF Quit, Inv, TypeOK
<1>5. CASE Poll
  <2>1. /\ active' \subseteq enabled \cup {None}
        /\ None \in active' => listening
        /\ seenClosed' \subseteq active' \ {None}
        /\ phase' = "events" /\ executing = <<>>
        /\ UNCHANGED <<connections_, live, fd, held, channels_, enabled, pending, executing,
                       ran, listening, serverAlive, nextConnId_>>
    <3>1. \A i \in enabled : i # None
      BY DEF Inv, TypeOK, Conns, None, Calls
    <3>2. QED
      BY <1>5, <3>1 DEF Poll, Noticeable
  <2>2. enabled \subseteq connections_ /\ enabled \subseteq Conns
    BY LiveConns DEF Inv, Calls, TypeOK
  <2>3. Calls'
    <3>1. CASE serverAlive
      BY <2>1, <2>2, <3>1 DEF Inv, Calls
    <3>2. CASE ~serverAlive
      <4>1. active' = {}
        BY <2>1, <2>2, <3>2 DEF Inv, Calls
      <4>2. QED
        BY <2>1, <3>2, <4>1 DEF Inv, Calls
    <3>3. QED
      BY <3>1, <3>2
  <2>4. Pool' /\ Clients'
    BY <1>5 DEF Poll, Inv, Pool, Clients
  <2>5. QED
    BY <1>5, <2>1, <2>2, <2>3, <2>4, QuietInv DEF Poll, Inv, TypeOK
<1>6. ASSUME NEW i \in Conns, PeerCloses(i) PROVE Inv'
  <2>1. Pool' /\ Clients' /\ Calls' /\ peerClosed' \subseteq Conns
    BY <1>6 DEF PeerCloses, Inv, Pool, Clients, Calls, TypeOK
  <2>2. QED
    BY <1>6, <2>1, QuietInv DEF PeerCloses, Inv, TypeOK
<1>7. ASSUME NEW i \in Conns, PeerResets(i) PROVE Inv'
  <2>1. /\ Pool' /\ Clients' /\ Calls'
        /\ peerClosed' \subseteq Conns /\ peerReset' \subseteq peerClosed'
    BY <1>7 DEF PeerResets, Inv, Pool, Clients, Calls, TypeOK
  <2>2. QED
    BY <1>7, <2>1, QuietInv DEF PeerResets, Inv, TypeOK
<1>8. ASSUME NEW i \in Conns, HandleMessage(i) PROVE Inv'
  <2>1. /\ Pool' /\ Clients' /\ Calls' /\ active' \subseteq Conns \cup {None}
        /\ seenClosed' \subseteq active' \ {None}
    BY <1>8 DEF HandleMessage, Inv, Pool, Clients, Calls, TypeOK
  <2>2. QED
    BY <1>8, <2>1, QuietInv DEF HandleMessage, Inv, TypeOK
<1>9. ASSUME NEW i \in Conns, BacklogDrains(i) PROVE Inv'
  <2>1. /\ Pool' /\ Clients' /\ Calls' /\ active' \subseteq Conns \cup {None}
        /\ seenClosed' \subseteq active' \ {None} /\ deaf' \subseteq enabled
    BY <1>9 DEF BacklogDrains, Inv, Pool, Clients, Calls, TypeOK
  <2>2. QED
    BY <1>9, <2>1, QuietInv DEF BacklogDrains, Inv, TypeOK
<1>10. QED
  BY <1>1, <1>2, <1>3, <1>4, <1>5, <1>6, <1>7, <1>8, <1>9

(* Of what a step leaves, the connections that somebody points to remain.   *)
LEMMA Remaining ==
  ASSUME NEW w, DeleteUnreferred(w),
         connections_' \subseteq live, held' \subseteq live, ran' \subseteq live,
         ToSet(pending') \subseteq live, ToSet(executing') \subseteq live
  PROVE  /\ live' \subseteq live /\ enabled' = w \cap live' /\ deaf' \subseteq enabled'
         /\ connections_' \subseteq live' /\ held' \subseteq live' /\ ran' \subseteq live'
         /\ ToSet(pending') \subseteq live' /\ ToSet(executing') \subseteq live'
BY DEF DeleteUnreferred, Referred

(* What such a step has to show for the types.                              *)
LEMMA TypesRemain ==
  ASSUME TypeOK, UNCHANGED <<poolVars, nextConnId_, fd, peerVars>>,
         live' \subseteq live, connections_' \subseteq live', held' \subseteq live',
         enabled' \subseteq live', deaf' \subseteq enabled', ran' \subseteq live',
         pending' \in Seq(Conns), executing' \in Seq(Conns),
         channels_' \in [Fds -> Conns \cup {None}], active' \subseteq Conns \cup {None},
         seenClosed' \subseteq active' \ {None}, phase' \in {"events", "functors", "ended"},
         listening' \in BOOLEAN, serverAlive' \in BOOLEAN, rash' \in BOOLEAN
  PROVE  TypeOK'
BY DEF TypeOK, poolVars, peerVars

(* connectDestroyed erases the channels it is called for and no others.     *)
LEMMA Erased ==
  ASSUME Inv, NEW conns \in SUBSET live, ConnectDestroyed(conns)
  PROVE  /\ channels_' \in [Fds -> Conns \cup {None}]
         /\ \A i \in live \ conns : channels_[fd[i]] = i => channels_'[fd[i]] = i
         /\ \A f \in Fds : channels_'[f] # None =>
              channels_'[f] = channels_[f] /\ channels_[f] \notin conns
<1>1. live \subseteq Conns
  BY LiveConns DEF Inv
<1>2. channels_' = [f \in Fds |-> IF \E i \in conns : fd[i] = f THEN None ELSE channels_[f]]
  BY DEF ConnectDestroyed
<1>3. channels_ \in [Fds -> Conns \cup {None}]
  BY DEF Inv, TypeOK
<1>4. channels_' \in [Fds -> Conns \cup {None}]
  BY <1>2, <1>3
<1>5. ASSUME NEW i \in live \ conns, channels_[fd[i]] = i PROVE channels_'[fd[i]] = i
  <2>1. fd[i] \in Fds /\ ~ \E j \in conns : fd[j] = fd[i]
    BY <1>1, <1>5 DEF Inv, TypeOK
  <2>2. QED
    BY <1>2, <1>5, <2>1
<1>6. ASSUME NEW f \in Fds, channels_'[f] # None
      PROVE  channels_'[f] = channels_[f] /\ channels_[f] \notin conns
  <2>1. channels_'[f] = channels_[f] /\ ~ \E i \in conns : fd[i] = f
    BY <1>2, <1>6
  <2>2. fd[channels_[f]] = f
    BY <1>6, <2>1 DEF Inv, Entries
  <2>3. QED
    BY <2>1, <2>2
<1>7. QED
  BY <1>4, <1>5, <1>6

(* doPendingFunctors: the swap.                                             *)
LEMMA SwapInv == Inv /\ DoPendingFunctors /\ UNCHANGED rash => Inv'
<1> SUFFICES ASSUME Inv, DoPendingFunctors, UNCHANGED rash PROVE Inv'
  OBVIOUS
<1>1. /\ executing = <<>> /\ active = {} /\ seenClosed = {} /\ phase' = "functors"
      /\ executing' = pending /\ pending' = <<>>
      /\ UNCHANGED <<poolVars, serverVars, connVars, pollVars, active, seenClosed, ran,
                     peerVars>>
  BY DEF DoPendingFunctors, Inv, Calls, TypeOK
<1>2. /\ ToSet(pending') = {} /\ ToSet(executing') = ToSet(pending) /\ ToSet(executing) = {}
      /\ Distinct(pending') /\ Distinct(executing')
  BY <1>1, NoElements DEF Inv, Queues
<1>3. Closing' = Closing
  BY <1>2 DEF Closing
<1>4. <<>> \in Seq(Conns)
  BY EmptySeq
<1>5. TypeOK'
  BY <1>1, <1>4, TypesRemain DEF Inv, TypeOK, connVars, pollVars, serverVars, poolVars
<1>6. ServerAndPollerAgree' /\ Entries'
  BY <1>1, <1>3 DEF Inv, ServerAndPollerAgree, Entries, connVars, pollVars
<1>7. Pool' /\ Queues' /\ Calls' /\ Clients'
  BY <1>1, <1>2 DEF Inv, Pool, Queues, Calls, Clients, poolVars, serverVars, connVars, pollVars,
                    peerVars
<1>8. QED
  BY <1>5, <1>6, <1>7 DEF Inv

(* connectDestroyed, run by the loop.                                       *)
LEMMA RunFunctorInv == Inv /\ RunFunctor /\ UNCHANGED rash => Inv'
<1> SUFFICES ASSUME Inv, RunFunctor, UNCHANGED rash PROVE Inv'
  OBVIOUS
<1> DEFINE i == Head(executing)
<1>1. /\ phase = "functors" /\ executing # <<>> /\ executing \in Seq(Conns)
      /\ executing' = Tail(executing) /\ ran' \subseteq ran \cup {i}
      /\ ConnectDestroyed({i}) /\ DeleteUnreferred(enabled \ {i})
      /\ UNCHANGED <<poolVars, serverVars, connections_, fd, held, active, seenClosed,
                     phase, pending, peerVars>>
  BY DEF RunFunctor, Inv, TypeOK
<1>2. /\ executing' \in Seq(Conns) /\ ToSet(executing) = {i} \cup ToSet(executing')
      /\ Distinct(executing') /\ i \notin ToSet(executing')
  BY <1>1, ElementsOfTail DEF Inv, Queues
<1> HIDE DEF i
<1>3. i \in Closing /\ i \in live /\ i \notin connections_ /\ i \notin ToSet(pending)
  BY <1>2 DEF Closing, Inv, ServerAndPollerAgree, Queues
<1>4. Closing' = Closing \ {i} /\ ToSet(pending') \subseteq live /\ ToSet(executing') \subseteq live
  BY <1>1, <1>2, <1>3 DEF Closing, Inv, ServerAndPollerAgree
<1>5. /\ live' \subseteq live /\ enabled' = (enabled \ {i}) \cap live'
      /\ deaf' \subseteq enabled'
      /\ connections_' \subseteq live' /\ held' \subseteq live' /\ ran' \subseteq live'
      /\ Closing' \subseteq live'
  <2>1. connections_' \subseteq live /\ held' \subseteq live /\ ran' \subseteq live
    BY <1>1, <1>3 DEF Inv, TypeOK
  <2>2. QED
    BY <1>1, <1>4, <2>1, Remaining DEF Closing
<1>6. /\ channels_' \in [Fds -> Conns \cup {None}]
      /\ \A j \in live \ {i} : channels_[fd[j]] = j => channels_'[fd[j]] = j
      /\ \A f \in Fds : channels_'[f] # None =>
           channels_'[f] = channels_[f] /\ channels_[f] # i
  BY <1>1, <1>3, Erased
<1>7. TypeOK'
  BY <1>1, <1>2, <1>5, <1>6, TypesRemain DEF Inv, TypeOK, serverVars
<1>8. ServerAndPollerAgree'
  <2>1. \A j \in connections_' : channels_'[fd'[j]] = j /\ j \in enabled'
    BY <1>1, <1>3, <1>5, <1>6 DEF Inv, ServerAndPollerAgree, TypeOK
  <2>2. \A j \in Closing' : j \in live' /\ channels_'[fd'[j]] = j /\ j \notin enabled'
    BY <1>1, <1>4, <1>5, <1>6 DEF Inv, ServerAndPollerAgree
  <2>3. \A f \in Fds : channels_'[f] \in connections_' \cup Closing' \cup {None}
    BY <1>1, <1>4, <1>6 DEF Inv, ServerAndPollerAgree
  <2>4. connections_' \cap Closing' = {}
    BY <1>1, <1>4 DEF Inv, ServerAndPollerAgree
  <2>5. QED
    BY <2>1, <2>2, <2>3, <2>4 DEF ServerAndPollerAgree
<1>9. Entries'
  BY <1>1, <1>6 DEF Inv, Entries
<1>10. Pool' /\ Queues' /\ Clients'
  BY <1>1, <1>2 DEF Inv, Pool, Queues, Clients, poolVars, serverVars, peerVars
<1>11. Calls'
  BY <1>1, <1>5 DEF Inv, Calls, serverVars
<1>12. QED
  BY <1>7, <1>8, <1>9, <1>10, <1>11 DEF Inv

(* removeConnection: the functor is queued before the pointer is erased.    *)
LEMMA CloseInv == ASSUME Inv, NEW i \in Conns, HandleClose(i), UNCHANGED rash PROVE Inv'
<1>1. /\ phase = "events" /\ i \in active /\ i \in live /\ serverAlive
      /\ active' = active \ {i} /\ seenClosed' \subseteq active' \ {None}
      /\ connections_' = connections_ \ {i} /\ pending' = Append(pending, i)
      /\ pending \in Seq(Conns)
      /\ DeleteUnreferred(enabled \ {i})
      /\ UNCHANGED <<poolVars, serverVars, fd, held, channels_, phase, executing, ran,
                     peerVars>>
  BY DEF HandleClose, RemoveConnection, Inv, TypeOK
<1>2. i \in connections_ /\ i \notin Closing
  BY <1>1 DEF Inv, Calls, Conns, None, ServerAndPollerAgree
<1>3. /\ pending' \in Seq(Conns) /\ ToSet(pending') = ToSet(pending) \cup {i}
      /\ Distinct(pending')
  BY <1>1, <1>2, ElementsOfAppend DEF Inv, Queues, Closing
<1>4. Closing' = Closing \cup {i} /\ ToSet(pending') \subseteq live /\ ToSet(executing') \subseteq live
  BY <1>1, <1>3 DEF Closing, Inv, ServerAndPollerAgree
<1>5. /\ live' \subseteq live /\ enabled' = (enabled \ {i}) \cap live'
      /\ deaf' \subseteq enabled'
      /\ connections_' \subseteq live' /\ held' \subseteq live' /\ ran' \subseteq live'
      /\ Closing' \subseteq live'
  <2>1. connections_' \subseteq live /\ held' \subseteq live /\ ran' \subseteq live
    BY <1>1 DEF Inv, TypeOK
  <2>2. QED
    BY <1>1, <1>4, <2>1, Remaining DEF Closing
<1>6. TypeOK'
  BY <1>1, <1>3, <1>5, TypesRemain DEF Inv, TypeOK, serverVars
<1>7. ServerAndPollerAgree'
  <2>1. \A j \in connections_' : channels_'[fd'[j]] = j /\ j \in enabled'
    BY <1>1, <1>5 DEF Inv, ServerAndPollerAgree
  <2>2. \A j \in Closing' : j \in live' /\ channels_'[fd'[j]] = j /\ j \notin enabled'
    BY <1>1, <1>2, <1>4, <1>5 DEF Inv, ServerAndPollerAgree
  <2>3. \A f \in Fds : channels_'[f] \in connections_' \cup Closing' \cup {None}
    BY <1>1, <1>4 DEF Inv, ServerAndPollerAgree
  <2>4. connections_' \cap Closing' = {}
    BY <1>1, <1>4 DEF Inv, ServerAndPollerAgree
  <2>5. QED
    BY <2>1, <2>2, <2>3, <2>4 DEF ServerAndPollerAgree
<1>8. Entries' /\ Pool' /\ Clients'
  BY <1>1 DEF Inv, Entries, Pool, Clients, poolVars, serverVars, peerVars
<1>9. Queues'
  BY <1>1, <1>2, <1>3 DEF Inv, Queues, Closing
<1>10. Calls'
  BY <1>1, <1>5 DEF Inv, Calls, serverVars
<1>11. QED
  BY <1>6, <1>7, <1>8, <1>9, <1>10 DEF Inv

(* The program gives up a pointer.                                          *)
LEMMA DropInv == ASSUME Inv, NEW i \in Conns, UserDrops(i), UNCHANGED rash PROVE Inv'
<1>1. /\ serverAlive \/ i \notin active
      /\ held' = held \ {i} /\ DeleteUnreferred(enabled)
      /\ UNCHANGED <<poolVars, serverVars, connections_, fd, channels_, loopVars, peerVars>>
  BY DEF UserDrops
<1>2. Closing' = Closing /\ ToSet(pending') \subseteq live /\ ToSet(executing') \subseteq live
  BY <1>1 DEF Closing, loopVars, Inv, ServerAndPollerAgree
<1>3. /\ live' \subseteq live /\ enabled' = enabled \cap live' /\ deaf' \subseteq enabled'
      /\ connections_' \subseteq live' /\ held' \subseteq live' /\ ran' \subseteq live'
      /\ Closing' \subseteq live'
  <2>1. connections_' \subseteq live /\ held' \subseteq live /\ ran' \subseteq live
    BY <1>1 DEF Inv, TypeOK, loopVars
  <2>2. QED
    BY <1>1, <1>2, <2>1, Remaining DEF Closing
<1>4. TypeOK'
  BY <1>1, <1>3, TypesRemain DEF Inv, TypeOK, serverVars, loopVars
<1>5. ServerAndPollerAgree' /\ Entries'
  BY <1>1, <1>2, <1>3 DEF Inv, ServerAndPollerAgree, Entries
<1>6. Pool' /\ Queues' /\ Clients'
  BY <1>1 DEF Inv, Pool, Queues, Clients, poolVars, serverVars, loopVars, peerVars
<1>7. Calls'
  BY <1>1, <1>3 DEF Inv, Calls, serverVars, loopVars
<1>8. QED
  BY <1>4, <1>5, <1>6, <1>7 DEF Inv

(* ~TcpServer: connections that are closing are left to their functors.     *)
LEMMA DestructorInv ==
  ASSUME Inv, Destructor, serverAlive, rash' \in BOOLEAN,
         active' \subseteq active, seenClosed \subseteq active' \ {None},
         phase # "events" => active' = {},
         ~rash' => active' \cap ({None} \cup (connections_ \ held)) = {}
  PROVE  Inv'
<1>1. /\ serverAlive' = FALSE /\ listening' = FALSE /\ connections_' = {}
      /\ ConnectDestroyed(connections_) /\ DeleteUnreferred(enabled \ connections_)
      /\ UNCHANGED <<poolVars, nextConnId_, fd, held, seenClosed, phase, pending, executing,
                     ran, peerVars>>
  BY DEF Destructor
<1>2. Closing' = Closing /\ ToSet(pending') \subseteq live /\ ToSet(executing') \subseteq live
  BY <1>1 DEF Closing, Inv, ServerAndPollerAgree
<1>3. /\ live' \subseteq live /\ enabled' = {} /\ deaf' \subseteq enabled'
      /\ held' \subseteq live' /\ ran' \subseteq live' /\ Closing' \subseteq live'
  <2>1. connections_' \subseteq live /\ held' \subseteq live /\ ran' \subseteq live
    BY <1>1 DEF Inv, TypeOK
  <2>2. enabled \ connections_ = {}
    BY DEF Inv, Calls
  <2>3. QED
    BY <1>1, <1>2, <2>1, <2>2, Remaining DEF Closing
<1>4. connections_ \subseteq live /\ connections_ \cap Closing = {}
  BY DEF Inv, TypeOK, ServerAndPollerAgree
<1>5. /\ channels_' \in [Fds -> Conns \cup {None}]
      /\ \A j \in live \ connections_ : channels_[fd[j]] = j => channels_'[fd[j]] = j
      /\ \A f \in Fds : channels_'[f] # None =>
           channels_'[f] = channels_[f] /\ channels_[f] \notin connections_
  BY <1>1, <1>4, Erased
<1>6. TypeOK'
  BY <1>1, <1>3, <1>5, TypesRemain DEF Inv, TypeOK
<1>7. ServerAndPollerAgree'
  BY <1>1, <1>2, <1>3, <1>4, <1>5 DEF Inv, ServerAndPollerAgree
<1>8. Entries'
  BY <1>1, <1>5 DEF Inv, Entries
<1>9. Pool' /\ Queues' /\ Clients'
  BY <1>1 DEF Inv, Pool, Queues, Clients, poolVars, peerVars
<1>10. Calls'
  BY <1>1, <1>3 DEF Inv, Calls
<1>11. QED
  BY <1>6, <1>7, <1>8, <1>9, <1>10 DEF Inv

(* Acceptor::handleRead and newConnection: the number is new, and the       *)
(* descriptor is nobody's.                                                  *)
LEMMA AcceptInv == Inv /\ HandleAccept /\ UNCHANGED rash => Inv'
<1> SUFFICES ASSUME Inv, HandleAccept, UNCHANGED rash PROVE Inv'
  OBVIOUS
<1>1. /\ phase = "events" /\ active' = active \ {None} /\ listening
      /\ UNCHANGED <<numThreads_, loops_, requested, serverAlive, seenClosed, phase, pending,
                     executing, ran, peerClosed, peerReset>>
      /\ seenClosed \subseteq active' \ {None}
  BY DEF HandleAccept, Inv, TypeOK
<1>2. CASE AcceptFails
  <2>1. Pool' /\ Clients' /\ Calls'
    BY <1>1, <1>2 DEF AcceptFails, Inv, Pool, Clients, Calls, connVars, pollVars
  <2>2. QED
    BY <1>1, <1>2, <2>1, QuietInv DEF AcceptFails, Inv, TypeOK, connVars, pollVars
<1>3. CASE /\ FreeFds # {} /\ backlog > 0
           /\ NewConnection(nextConnId_, Min(FreeFds))
           /\ backlog' = backlog - 1
           /\ UNCHANGED listening
  <2> DEFINE conn == nextConnId_
             connfd == Min(FreeFds)
  <2>1. conn \in Conns /\ conn \notin live /\ conn \in Nat /\ live \subseteq Conns
    BY <1>3, LiveConns, ConstantsAssumption DEF Inv, Clients, TypeOK, Conns
  <2>2. connfd \in Fds /\ \A i \in live : fd[i] # connfd
    <3>1. FreeFds \in SUBSET Nat
      BY DEF FreeFds, Fds
    <3>2. connfd \in FreeFds
      BY <1>3, <3>1, MinIsMember
    <3>3. QED
      BY <3>2 DEF FreeFds
  <2>3. /\ nextConnId_' = conn + 1 /\ next_' = next_
        /\ connections_' = connections_ \cup {conn} /\ live' = live \cup {conn}
        /\ fd' = [fd EXCEPT ![conn] = connfd]
        /\ channels_' = [channels_ EXCEPT ![connfd] = conn]
        /\ enabled' = enabled \cup {conn} /\ deaf' = deaf
        /\ held \subseteq held' /\ held' \subseteq held \cup {conn}
        /\ backlog' = backlog - 1 /\ listening' = listening
    BY <1>3 DEF NewConnection, AdvanceLoop, Inv, Pool
  <2> HIDE DEF conn, connfd
  <2>4. fd \in [Conns -> Fds \cup {None}] /\ channels_ \in [Fds -> Conns \cup {None}]
    BY DEF Inv, TypeOK
  <2>5. fd'[conn] = connfd /\ \A i \in live : fd'[i] = fd[i] /\ fd[i] \in Fds /\ i # conn
    BY <2>1, <2>3, <2>4 DEF Inv, TypeOK
  <2>6. channels_'[connfd] = conn /\ \A f \in Fds \ {connfd} : channels_'[f] = channels_[f]
    BY <2>2, <2>3, <2>4
  <2>7. Closing' = Closing /\ Closing \subseteq live /\ connections_ \subseteq live
    BY <1>1 DEF Closing, Inv, ServerAndPollerAgree, TypeOK
  <2>8. TypeOK'
    <3>1. conn + 1 \in 1..(MaxConns + 1) /\ live' \subseteq 1..((conn + 1) - 1)
      BY <2>1, <2>3, LiveConns, ConstantsAssumption DEF Inv, TypeOK, Conns, conn
    <3>2. fd' \in [Conns -> Fds \cup {None}] /\ channels_' \in [Fds -> Conns \cup {None}]
      BY <2>1, <2>2, <2>3, <2>4
    <3>3. \A i, j \in live' : fd'[i] # None /\ (fd'[i] = fd'[j] => i = j)
      <4>1. \A f \in Fds : f # None
        BY DEF Fds, None
      <4>2. QED
        BY <2>2, <2>3, <2>5, <4>1 DEF Inv, TypeOK
    <3>4. backlog' \in 0..MaxConns
      BY <1>3, <2>3, ConstantsAssumption DEF Inv, TypeOK
    <3>5. /\ connections_' \subseteq live' /\ held' \subseteq live' /\ enabled' \subseteq live'
          /\ deaf' \subseteq enabled' /\ ran' \subseteq live' /\ next_' \in 0..MaxThreads
      BY <1>1, <2>3 DEF Inv, TypeOK
    <3>6. QED
      BY <1>1, <2>3, <3>1, <3>2, <3>3, <3>4, <3>5 DEF Inv, TypeOK
  <2>9. ServerAndPollerAgree'
    <3>1. \A i \in connections_' : channels_'[fd'[i]] = i /\ i \in enabled'
      BY <2>2, <2>3, <2>5, <2>6, <2>7 DEF Inv, ServerAndPollerAgree
    <3>2. \A i \in Closing' : i \in live' /\ channels_'[fd'[i]] = i /\ i \notin enabled'
      BY <2>1, <2>2, <2>3, <2>5, <2>6, <2>7 DEF Inv, ServerAndPollerAgree
    <3>3. \A f \in Fds : channels_'[f] \in connections_' \cup Closing' \cup {None}
      BY <2>3, <2>6, <2>7 DEF Inv, ServerAndPollerAgree
    <3>4. connections_' \cap Closing' = {}
      BY <2>1, <2>3, <2>7 DEF Inv, ServerAndPollerAgree
    <3>5. QED
      BY <3>1, <3>2, <3>3, <3>4 DEF ServerAndPollerAgree
  <2>10. Entries'
    <3>1. ASSUME NEW f \in Fds, channels_'[f] # None PROVE fd'[channels_'[f]] = f
      <4>1. CASE f = connfd
        BY <2>5, <2>6, <4>1
      <4>2. CASE f # connfd
        <5>1. channels_'[f] = channels_[f] /\ channels_[f] \in live
          BY <2>6, <2>7, <3>1, <4>2 DEF Inv, ServerAndPollerAgree
        <5>2. QED
          BY <2>5, <3>1, <5>1 DEF Inv, Entries
      <4>3. QED
        BY <4>1, <4>2
    <3>2. QED
      BY <3>1 DEF Entries
  <2>11. Pool' /\ Queues'
    BY <1>1, <2>3 DEF Inv, Pool, Queues
  <2>12. Clients'
    BY <2>1, <2>3, ConstantsAssumption DEF Inv, Clients, TypeOK, conn
  <2>13. Calls'
    BY <1>1, <2>3 DEF Inv, Calls
  <2>14. QED
    BY <2>8, <2>9, <2>10, <2>11, <2>12, <2>13 DEF Inv
<1>4. QED
  BY <1>2, <1>3 DEF HandleAccept

(* Every step keeps it.                                                     *)
LEMMA StepInv == Inv /\ [Next]_vars => Inv'
<1> SUFFICES ASSUME Inv, [Next]_vars PROVE Inv'
  OBVIOUS
<1>1. ASSUME NEW i \in Conns, MessageDestroysServer(i) PROVE Inv'
  <2>1. /\ phase = "events" /\ serverAlive /\ Destructor /\ active' = active \ {i}
        /\ rash' = (active' \cap ({None} \cup (connections_ \ held) \cup seenClosed) # {})
        /\ seenClosed \subseteq active' \ {None}
    BY <1>1 DEF MessageDestroysServer, Inv, TypeOK
  <2>2. rash' \in BOOLEAN /\ (~rash' => active' \cap ({None} \cup (connections_ \ held)) = {})
    BY <2>1
  <2>3. QED
    BY <2>1, <2>2, DestructorInv
<1>2. CASE DestroyServer /\ UNCHANGED rash
  <2>1. active = {} /\ active' = {} /\ seenClosed = {} /\ serverAlive /\ Destructor
    BY <1>2 DEF DestroyServer, Inv, Calls
  <2>2. QED
    BY <1>2, <2>1, DestructorInv DEF Inv, TypeOK
<1>3. CASE LoopStep /\ UNCHANGED rash
  BY <1>3, OutsideInv, SwapInv, RunFunctorInv, AcceptInv, CloseInv DEF LoopStep
<1>4. CASE UNCHANGED vars
  BY <1>4 DEF vars, poolVars, serverVars, connVars, pollVars, loopVars, peerVars, Inv, TypeOK,
              ServerAndPollerAgree, Closing, Entries, Pool, Queues, Calls, Clients
<1>5. QED
  BY <1>1, <1>2, <1>3, <1>4, OutsideInv, DropInv DEF Next

------------------------------------------------------------------------------
(* The theorems.                                                            *)

(* Who points to a connection, and what the poller knows of it: the         *)
(* inductive invariant.                                                     *)
THEOREM InductiveInvariant == Spec => []Inv
BY InitInv, StepInv, PTL DEF Spec

(* Connections, descriptors and the poller's map have the values their      *)
(* types say; no two connections share a descriptor.                        *)
THEOREM TypeCorrect == Spec => []TypeOK
BY InductiveInvariant, PTL DEF Inv

(* newConnection, removeConnection, connectDestroyed: the server's map and  *)
(* the poller's agree, though descriptors are used again.                   *)
THEOREM MapsAgree == Spec => []ServerAndPollerAgree
BY InductiveInvariant, PTL DEF Inv

(* removeConnectionInLoop and ~TcpServer: no channel of a deleted object is *)
(* known to the poller or about to be called.                               *)
THEOREM NoChannelDangles == Spec => []NoDanglingChannel
<1>1. Inv => NoDanglingChannel
  <2> SUFFICES ASSUME Inv, ~rash
               PROVE  /\ \A f \in Fds : channels_[f] \in live \cup {None}
                      /\ active \subseteq live \cup {None}
                      /\ None \in active => serverAlive
    BY DEF NoDanglingChannel
  <2>1. \A f \in Fds : channels_[f] \in live \cup {None}
    BY DEF Inv, ServerAndPollerAgree, TypeOK
  <2>2. active \subseteq live \cup {None}
    BY DEF Inv, Calls, TypeOK
  <2>3. None \notin live
    BY LiveConns DEF Inv, None
  <2>4. None \in active => serverAlive
    BY <2>3 DEF Inv, Calls, TypeOK
  <2>5. QED
    BY <2>1, <2>2, <2>4
<1>2. QED
  BY <1>1, InductiveInvariant, PTL
==============================================================================
