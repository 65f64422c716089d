----------------------------- MODULE EpollPoller -----------------------------
(***************************************************************************)
(* EpollPoller.cpp: the channels of one loop, the epoll set behind them,   *)
(* and the array that epoll_wait fills.  Handlers call the methods of any  *)
(* channel in any order; the fds become ready and cease to be.             *)
(***************************************************************************)
EXTENDS Channel, Naturals, FiniteSets

CONSTANTS Channels,            \* the channels
          InitEventListSize    \* kInitEventListSize

ASSUME ConstantsAssumption ==
  /\ IsFiniteSet(Channels)
  /\ InitEventListSize \in Nat \ {0}

(* EPOLLERR and EPOLLHUP: epoll_wait reports them for any fd in the set,    *)
(* whatever it was registered for, nothing included.                        *)
Unmaskable == {"error"}

VARIABLES ch,        \* the channels, see Channel
          ready,     \* what their fds are ready for
          capacity,  \* events_.size()
          active     \* activeChannels_, with each channel's revents_

vars == <<ch, ready, capacity, active>>

TypeOK ==
  /\ ch \in [Channels -> ChannelType]
  /\ ready \in [Channels -> SUBSET (Events \cup Unmaskable)]
  /\ capacity \in Nat \ {0}
  /\ active \in [Channels -> SUBSET (Events \cup Unmaskable)]

Init ==
  /\ ch = [c \in Channels |-> NewChannel]
  /\ ready = [c \in Channels |-> {}]
  /\ capacity = InitEventListSize
  /\ active = [c \in Channels |-> {}]

------------------------------------------------------------------------------
(* The fd of a channel becomes ready, fails, or is drained.                 *)
Readiness(c) ==
  /\ \E events \in SUBSET (Events \cup Unmaskable) : ready' = [ready EXCEPT ![c] = events]
  /\ UNCHANGED <<ch, capacity, active>>

(* A handler changes what it wants to be told; a channel that is not, or no *)
(* longer, registered may be enabled (again).                               *)
Update(c) ==
  /\ \/ ch' = [ch EXCEPT ![c] = EnableReading(@)]
     \/ ch' = [ch EXCEPT ![c] = EnableWriting(@)]
     \/ ch' = [ch EXCEPT ![c] = DisableReading(@)]
     \/ ch' = [ch EXCEPT ![c] = DisableWriting(@)]
     \/ ch' = [ch EXCEPT ![c] = DisableAll(@)]
  /\ UNCHANGED <<ready, capacity, active>>

RemoveFromPoller(c) ==
  /\ ch' = [ch EXCEPT ![c] = Remove(@)]
  /\ UNCHANGED <<ready, capacity, active>>

Returnable(c) == ready[c] \cap (ch[c].interest \cup Unmaskable)

IsReturnable(c) == ch[c].watched /\ Returnable(c) # {}

(* fillActiveChannels.                                                      *)
Fill(returned) ==
  [c \in Channels |-> IF c \in returned THEN Returnable(c) ELSE {}]

(* Mutations: the array keeps its size; it is resized to what was not used. *)
NewCapacityFixed(n) == capacity
NewCapacityUnused(n) == capacity - n

NewCapacity(n) == IF n = capacity THEN 2 * capacity ELSE capacity

(* epoll_wait: as many of the ready channels as the array holds, in the     *)
(* kernel's order, and all that happened to each.  A full array is doubled  *)
(* for the next time.                                                       *)
Poll ==
  /\ \A c \in Channels : active[c] = {}
  /\ \E returned \in SUBSET {c \in Channels : IsReturnable(c)} :
       /\ returned # {}
       /\ \/ Cardinality(returned) = capacity
          \/ /\ Cardinality(returned) < capacity
             /\ \A c \in Channels : IsReturnable(c) => c \in returned
       /\ active' = Fill(returned)
       /\ capacity' = NewCapacity(Cardinality(returned))
  /\ UNCHANGED <<ch, ready>>

(* EventLoop::loop() calls the channel, whatever has become of it since.    *)
HandleEvent(c) ==
  /\ active[c] # {}
  /\ active' = [active EXCEPT ![c] = {}]
  /\ UNCHANGED <<ch, ready, capacity>>

LoopStep == Poll \/ \E c \in Channels : HandleEvent(c)

Next ==
  \/ LoopStep
  \/ \E c \in Channels : Readiness(c) \/ Update(c) \/ RemoveFromPoller(c)

Spec == Init /\ [][Next]_vars

FairSpec == Spec /\ WF_vars(LoopStep)

------------------------------------------------------------------------------
(* Properties.                                                              *)

(* updateChannel and removeChannel: index_, channels_ and the epoll set     *)
(* never disagree, in whatever order the channel's methods are called: so   *)
(* no epoll_ctl fails.                                                      *)
EpollAgrees == \A c \in Channels : ChannelAgrees(ch[c])

(* poll(): a channel that was removed, or disabled while it was registered, *)
(* is in no later result of epoll_wait; the others are returned for what    *)
(* they want now, not for what they once wanted, or for a failure of their  *)
(* fd.  (One that is disabled while it is not registered is registered by   *)
(* that, EpollPoller.cpp:73, and so is still told of failures.)             *)
OnlyRegisteredAreReturned ==
  [][\A c \in Channels :
       active[c] = {} /\ active'[c] # {} =>
         /\ ch[c].index = "kAdded" /\ ch[c].mapped
         /\ active'[c] \subseteq ch[c].events \cup Unmaskable]_vars

(* poll(): a channel that stays ready, or whose fd has failed, is returned, *)
(* however many others are ready too and whatever order the kernel prefers. *)
ReadyChannelIsReturned ==
  \A c \in Channels :
    []<>(active[c] # {} \/ ~IsReturnable(c))
==============================================================================
