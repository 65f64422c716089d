-------------------------- MODULE EpollPollerProofs --------------------------
(***************************************************************************)
(* Theorems about EpollPoller, for any number of channels.                 *)
(*                                                                         *)
(* Each method of Channel keeps ChannelAgrees, whatever the channel's state *)
(* (UpdateAgrees and RemoveAgrees).  A step of EpollPoller changes one channel by one        *)
(* method, so EpollAgrees is inductive with the types.  A channel that     *)
(* Poll returns is watched, for an event epoll was told of or a failure;   *)
(* EpollAgrees says that it is then registered, and that what epoll was    *)
(* told is what the channel wants now.                                     *)
(***************************************************************************)
EXTENDS EpollPoller, TLAPS

Inv == TypeOK /\ EpollAgrees

------------------------------------------------------------------------------
(* One channel, whatever its state.                                         *)

(* updateChannel, EpollPoller.cpp:68: any new set of events, in any state,  *)
(* leaves index_, the map and the epoll set in agreement and calls no       *)
(* epoll_ctl that fails.                                                    *)
LEMMA UpdateAgrees ==
  ASSUME NEW c \in ChannelType, ChannelAgrees(c), NEW events \in SUBSET Events
  PROVE  /\ UpdateChannel([c EXCEPT !.events = events]) \in ChannelType
         /\ ChannelAgrees(UpdateChannel([c EXCEPT !.events = events]))
  BY DEF ChannelType, ChannelAgrees, UpdateChannel, CtlAdd, CtlMod, CtlDel

(* removeChannel, EpollPoller.cpp:100, likewise.                            *)
LEMMA RemoveAgrees ==
  ASSUME NEW c \in ChannelType, ChannelAgrees(c)
  PROVE  Remove(c) \in ChannelType /\ ChannelAgrees(Remove(c))
  BY DEF ChannelType, ChannelAgrees, Remove, RemoveChannel, CtlDel

(* The five methods that change events_, and remove().                      *)
LEMMA MethodsAgree ==
  ASSUME NEW c \in ChannelType, ChannelAgrees(c),
         NEW d \in {EnableReading(c), EnableWriting(c), DisableReading(c),
                    DisableWriting(c), DisableAll(c), Remove(c)}
  PROVE  d \in ChannelType /\ ChannelAgrees(d)
<1>1. c.events \in SUBSET Events
  BY DEF ChannelType
<1>2. {c.events \cup {"read"}, c.events \cup {"write"}, c.events \ {"read"},
       c.events \ {"write"}, {}} \subseteq SUBSET Events
  BY <1>1 DEF Events
<1>3. CASE d = Remove(c)
  BY <1>3, RemoveAgrees
<1>4. CASE \E events \in SUBSET Events : d = UpdateChannel([c EXCEPT !.events = events])
  BY <1>4, UpdateAgrees
<1>5. QED
  BY <1>2, <1>3, <1>4
     DEF EnableReading, EnableWriting, DisableReading, DisableWriting, DisableAll

------------------------------------------------------------------------------
(* All of them.                                                             *)

(* A new channel is kNew, in no map and not watched.                        *)
LEMMA InitInv == Init => Inv
  BY ConstantsAssumption
     DEF Init, Inv, TypeOK, EpollAgrees, ChannelAgrees, NewChannel, ChannelType, Events

(* A step that replaces the record of one channel by one that agrees.       *)
LEMMA OneChannelChanges ==
  ASSUME Inv, NEW c \in Channels, NEW d \in ChannelType, ChannelAgrees(d),
         ch' = [ch EXCEPT ![c] = d], UNCHANGED <<ready, capacity, active>>
  PROVE  Inv'
  BY DEF Inv, TypeOK, EpollAgrees, ChannelAgrees

(* Every step keeps the invariant: only Update and RemoveFromPoller touch a *)
(* channel, by one of its methods.                                          *)
LEMMA StepInv == Inv /\ [Next]_vars => Inv'
<1> SUFFICES ASSUME Inv, [Next]_vars PROVE Inv'
  OBVIOUS
<1>1. ASSUME NEW c \in Channels PROVE ch[c] \in ChannelType /\ ChannelAgrees(ch[c])
  BY <1>1 DEF Inv, TypeOK, EpollAgrees, ChannelAgrees
<1>2. CASE Poll
  <2>1. UNCHANGED ch
    BY <1>2 DEF Poll
  <2>2. capacity' \in Nat \ {0}
    BY <1>2 DEF Poll, NewCapacity, Inv, TypeOK
  <2>3. active' \in [Channels -> SUBSET (Events \cup Unmaskable)]
    <3>1. PICK returned \in SUBSET Channels : active' = Fill(returned)
      BY <1>2 DEF Poll
    <3>2. \A c \in Channels : Returnable(c) \subseteq Events \cup Unmaskable
      BY DEF Returnable, Inv, TypeOK
    <3>3. QED
      BY <3>1, <3>2 DEF Fill
  <2>4. ready' = ready
    BY <1>2 DEF Poll
  <2>5. QED
    BY <2>1, <2>2, <2>3, <2>4 DEF Inv, TypeOK, EpollAgrees
<1>3. ASSUME NEW c \in Channels, HandleEvent(c) PROVE Inv'
  BY <1>3 DEF HandleEvent, Inv, TypeOK, EpollAgrees
<1>4. ASSUME NEW c \in Channels, Readiness(c) PROVE Inv'
  BY <1>4 DEF Readiness, Inv, TypeOK, EpollAgrees
<1>5. ASSUME NEW c \in Channels, Update(c) PROVE Inv'
  <2>1. PICK d \in {EnableReading(ch[c]), EnableWriting(ch[c]), DisableReading(ch[c]),
                    DisableWriting(ch[c]), DisableAll(ch[c])} :
          ch' = [ch EXCEPT ![c] = d]
    BY <1>5 DEF Update
  <2>2. d \in ChannelType /\ ChannelAgrees(d)
    BY <1>1, <1>5, <2>1, MethodsAgree
  <2>3. QED
    BY <1>5, <2>1, <2>2, OneChannelChanges DEF Update
<1>6. ASSUME NEW c \in Channels, RemoveFromPoller(c) PROVE Inv'
  <2>1. Remove(ch[c]) \in ChannelType /\ ChannelAgrees(Remove(ch[c]))
    BY <1>1, <1>6, RemoveAgrees
  <2>2. ch' = [ch EXCEPT ![c] = Remove(ch[c])]
    BY <1>6 DEF RemoveFromPoller
  <2>3. QED
    BY <1>6, <2>1, <2>2, OneChannelChanges DEF RemoveFromPoller
<1>7. CASE UNCHANGED vars
  BY <1>7 DEF vars, Inv, TypeOK, EpollAgrees
<1>8. QED
  BY <1>2, <1>3, <1>4, <1>5, <1>6, <1>7 DEF Next, LoopStep

(* The types and the agreement hold in every state the poller can reach,   *)
(* whichever methods are called on whichever channels.                      *)
THEOREM InductiveInvariant == Spec => []Inv
  BY InitInv, StepInv, PTL DEF Spec

(* The poller's state is always well typed; the event array never has size  *)
(* zero, with which epoll_wait would fail.                                  *)
THEOREM TypeCorrect == Spec => []TypeOK
  BY InductiveInvariant, PTL DEF Inv

(* updateChannel and removeChannel keep index_, channels_ and the epoll set *)
(* in agreement for any sequence of calls on any number of channels, so     *)
(* LOG_FATAL of EpollPoller::update is never reached.                       *)
THEOREM PollerAgrees == Spec => []EpollAgrees
  BY InductiveInvariant, PTL DEF Inv

(* A channel that Poll returns is registered, and is returned for what it   *)
(* wants or for a failure: from EpollAgrees, as what epoll watches it for   *)
(* is what it wants, and a channel that is watched is kAdded and mapped.    *)
THEOREM PollReturnsRegistered == Spec => OnlyRegisteredAreReturned
<1>1. ASSUME Inv, [Next]_vars, NEW c \in Channels, active[c] = {}, active'[c] # {}
      PROVE  /\ ch[c].index = "kAdded" /\ ch[c].mapped
             /\ active'[c] \subseteq ch[c].events \cup Unmaskable
  <2>1. CASE Poll
    <3>1. PICK returned \in SUBSET {e \in Channels : IsReturnable(e)} :
            active' = Fill(returned)
      BY <2>1 DEF Poll
    <3>2. c \in returned /\ active'[c] = Returnable(c)
      BY <1>1, <3>1 DEF Fill
    <3>3. ch[c].watched /\ ChannelAgrees(ch[c])
      BY <1>1, <3>2 DEF IsReturnable, Inv, EpollAgrees
    <3>4. /\ ch[c].index = "kAdded" /\ ch[c].mapped
          /\ ch[c].interest = ch[c].events
      BY <3>3 DEF ChannelAgrees
    <3>5. QED
      BY <3>2, <3>4 DEF Returnable
  <2>2. ASSUME NEW e \in Channels,
               HandleEvent(e) \/ Readiness(e) \/ Update(e) \/ RemoveFromPoller(e)
        PROVE  FALSE
    BY <1>1, <2>2 DEF HandleEvent, Readiness, Update, RemoveFromPoller, Inv, TypeOK
  <2>3. CASE UNCHANGED vars
    BY <1>1, <2>3 DEF vars
  <2>4. QED
    BY <1>1, <2>1, <2>2, <2>3 DEF Next, LoopStep
<1>2. Inv /\ [Next]_vars =>
        [\A c \in Channels :
           active[c] = {} /\ active'[c] # {} =>
             /\ ch[c].index = "kAdded" /\ ch[c].mapped
             /\ active'[c] \subseteq ch[c].events \cup Unmaskable]_vars
  BY <1>1
<1>3. QED
  BY <1>2, InductiveInvariant, PTL DEF Spec, OnlyRegisteredAreReturned
==============================================================================
