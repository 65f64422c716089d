------------------------------- MODULE Channel -------------------------------
(***************************************************************************)
(* Channel.h, and the part of EpollPoller.cpp that keeps epoll's view of   *)
(* one channel: a channel is a record, its methods are functions of it.    *)
(***************************************************************************)

Events == {"read", "write"}    \* kReadEvent, kWriteEvent

ChannelType ==
  [events   : SUBSET Events,                    \* events_
   index    : {"kNew", "kAdded", "kDeleted"},   \* index_
   mapped   : BOOLEAN,        \* is it in the poller's channels_?
   watched  : BOOLEAN,        \* is its fd in the epoll set ...
   interest : SUBSET Events,  \* ... and for what?
   fatal    : BOOLEAN]        \* has epoll_ctl failed in a way that exits?

NewChannel ==
  [events |-> {}, index |-> "kNew", mapped |-> FALSE, watched |-> FALSE,
   interest |-> {}, fatal |-> FALSE]

(* EpollPoller::update: adding what is there or changing what is not is     *)
(* logged with LOG_FATAL, which exits; a failing delete is only logged.     *)
CtlAdd(ch) ==
  IF ch.watched THEN [ch EXCEPT !.fatal = TRUE]
                ELSE [ch EXCEPT !.watched = TRUE, !.interest = ch.events]

CtlMod(ch) ==
  IF ch.watched THEN [ch EXCEPT !.interest = ch.events]
                ELSE [ch EXCEPT !.fatal = TRUE]

CtlDel(ch) == [ch EXCEPT !.watched = FALSE, !.interest = {}]

(* Mutation: a channel without events stays in the epoll set.               *)
UpdateChannelKeeping(ch) ==
  IF ch.index = "kAdded"
  THEN IF ch.events = {} THEN [ch EXCEPT !.index = "kDeleted"] ELSE CtlMod(ch)
  ELSE CtlAdd([ch EXCEPT !.index = "kAdded", !.mapped = TRUE])

(* EpollPoller::updateChannel.  A kDeleted channel is still in channels_. *)
UpdateChannel(ch) ==
  IF ch.index = "kAdded"
  THEN IF ch.events = {} THEN CtlDel([ch EXCEPT !.index = "kDeleted"]) ELSE CtlMod(ch)
  ELSE CtlAdd([ch EXCEPT !.index = "kAdded", !.mapped = @ \/ ch.index = "kNew"])

(* Mutation: the test of the index is left out.                             *)
RemoveChannelUnregistered(ch) == [ch EXCEPT !.mapped = FALSE, !.index = "kNew"]

(* EpollPoller::removeChannel.                                              *)
RemoveChannel(ch) ==
  [(IF ch.index = "kAdded" THEN CtlDel(ch) ELSE ch)
     EXCEPT !.mapped = FALSE, !.index = "kNew"]

EnableReading(ch)  == UpdateChannel([ch EXCEPT !.events = @ \cup {"read"}])
DisableReading(ch) == UpdateChannel([ch EXCEPT !.events = @ \ {"read"}])
EnableWriting(ch)  == UpdateChannel([ch EXCEPT !.events = @ \cup {"write"}])
DisableWriting(ch) == UpdateChannel([ch EXCEPT !.events = @ \ {"write"}])
DisableAll(ch)     == UpdateChannel([ch EXCEPT !.events = {}])
Remove(ch)         == RemoveChannel(ch)

IsWriting(ch) == "write" \in ch.events

------------------------------------------------------------------------------
(* What every method keeps.                                                 *)

(* index_, channels_ and the epoll set agree on a channel, and no epoll_ctl *)
(* has failed.                                                              *)
ChannelAgrees(ch) ==
  /\ ch.watched <=> ch.index = "kAdded"
  /\ ch.mapped <=> ch.index # "kNew"
  /\ ch.watched => ch.interest = ch.events
  /\ ~ch.fatal
==============================================================================
