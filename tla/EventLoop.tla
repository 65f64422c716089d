------------------------------ MODULE EventLoop ------------------------------
(***************************************************************************)
(* EventLoop.cpp: the reactor.  One thread (LoopThread) built the loop and *)
(* calls loop(): it waits in epoll_wait, calls back the channels that are  *)
(* ready, then runs the functors that any thread may have put into         *)
(* pendingFunctors_.  Callers are the other threads that hold a pointer to *)
(* the loop.                                                               *)
(*                                                                         *)
(* A step is one access to something two threads share: a critical section *)
(* of mutex_, one atomic flag, one read or write of the eventfd.           *)
(*                                                                         *)
(* User code (a channel callback, a functor, or what the loop's thread     *)
(* does before and after loop()) is where operations are called from; what *)
(* else it does is not modelled, and it returns.                           *)
(***************************************************************************)
EXTENDS Naturals, Sequences

CONSTANTS Callers,         \* the threads that share the loop, its own excepted
          LoopThread,      \* the thread that constructed the loop
          Channels,        \* channels registered with poller_ ...
          WakeupChannel,   \* ... besides wakeupChannel_
          MaxTasks         \* bound: functors ever put into pendingFunctors_

ASSUME ConstantsAssumption ==
  /\ LoopThread \notin Callers
  /\ WakeupChannel \notin Channels
  /\ MaxTasks \in Nat

Threads == Callers \cup {LoopThread}

VARIABLES
  pc,                      \* where LoopThread stands, see Locations
  looping,                 \* looping_
  quit,                    \* quit_
  callingPendingFunctors,  \* callingPendingFunctors_
  pendingFunctors,         \* pendingFunctors_
  wakeupfd,                \* the eventfd's counter
  activeChannels,          \* the part of activeChannels_ still to be called
  functors,                \* the part of doPendingFunctors' vector still to run
  call,                    \* how far each thread is in queueInLoop or quit
  executed,                \* history: functors of the queue, in the order run
  ranIn,                   \* history: threads that ran a runInLoop callback
  submitted                \* history: number of functors ever queued

vars == <<pc, looping, quit, callingPendingFunctors, pendingFunctors, wakeupfd,
          activeChannels, functors, call, executed, ranIn, submitted>>

loopVars == <<looping, quit, callingPendingFunctors, activeChannels, functors,
              executed>>

(* "outside", "callback" and "functor" are user code on the loop's thread.  *)
UserCode  == {"outside", "callback", "functor"}
Locations == UserCode \cup {"while", "poll", "events", "swap", "run"}

(* "queued": appended, wakeup condition not yet read; "waking": in wakeup() *)
CallSteps == {"none", "queued", "waking"}

(* A functor, and where its submitter stood: for another thread, "foreign". *)
Task == [id : 1..MaxTasks, from : UserCode \cup {"foreign"}]

TypeOK ==
  /\ pc \in Locations
  /\ looping \in BOOLEAN
  /\ quit \in BOOLEAN
  /\ callingPendingFunctors \in BOOLEAN
  /\ pendingFunctors \in Seq(Task)
  /\ wakeupfd \in Nat
  /\ activeChannels \subseteq Channels \cup {WakeupChannel}
  /\ functors \in Seq(Task)
  /\ call \in [Threads -> CallSteps]
  /\ executed \in Seq(Task)
  /\ ranIn \subseteq Threads
  /\ submitted \in Nat

Init ==
  /\ pc = "outside"
  /\ looping = FALSE
  /\ quit = FALSE
  /\ callingPendingFunctors = FALSE
  /\ pendingFunctors = <<>>
  /\ wakeupfd = 0
  /\ activeChannels = {}
  /\ functors = <<>>
  /\ call = [t \in Threads |-> "none"]
  /\ executed = <<>>
  /\ ranIn = {}
  /\ submitted = 0

------------------------------------------------------------------------------
(* Which thread am I?                                                       *)

(* cacheTid() assigns in its condition, `if (t_cachedTid=0)`: the branch    *)
(* that would ask the kernel is never taken and every thread keeps tid 0.   *)
CacheTid(t) == 0

Tid(t) == CacheTid(t)

(* threadId_ is the constructing thread's tid.                              *)
IsInLoopThread(t) == Tid(LoopThread) = Tid(t)

------------------------------------------------------------------------------
(* Operations, called by any thread.                                        *)

MayCall(t) ==
  /\ call[t] = "none"
  /\ t = LoopThread => pc \in UserCode

Goto(t, step) == call' = [call EXCEPT ![t] = step]

From(t) == IF t = LoopThread THEN pc ELSE "foreign"

(* queueInLoop, the critical section.                                       *)
QueueInLoop(t) ==
  /\ MayCall(t)
  /\ submitted < MaxTasks
  /\ submitted' = submitted + 1
  /\ pendingFunctors' = Append(pendingFunctors, [id |-> submitted + 1, from |-> From(t)])
  /\ Goto(t, "queued")
  /\ UNCHANGED <<loopVars, pc, wakeupfd, ranIn>>

(* Mutation: a functor queued by a running functor wakes nobody.            *)
MustWakeOthersOnly(t) == ~IsInLoopThread(t)

MustWake(t) == ~IsInLoopThread(t) \/ callingPendingFunctors

(* queueInLoop, the test made after the lock is released.                   *)
TestWakeup(t) ==
  /\ call[t] = "queued"
  /\ Goto(t, IF MustWake(t) THEN "waking" ELSE "none")
  /\ UNCHANGED <<loopVars, pc, pendingFunctors, wakeupfd, ranIn, submitted>>

(* Mutation: the eventfd is taken from instead of added to.                 *)
WrittenLess == wakeupfd - 1

Written == wakeupfd + 1

Wakeup(t) ==
  /\ call[t] = "waking"
  /\ wakeupfd' = Written
  /\ Goto(t, "none")
  /\ UNCHANGED <<loopVars, pc, pendingFunctors, ranIn, submitted>>

RunInLoop(t) ==
  IF IsInLoopThread(t)
  THEN /\ MayCall(t)
       /\ ranIn' = ranIn \cup {t}
       /\ UNCHANGED <<loopVars, pc, pendingFunctors, wakeupfd, call, submitted>>
  ELSE QueueInLoop(t)

Quit(t) ==
  /\ MayCall(t)
  /\ quit' = TRUE
  /\ Goto(t, IF IsInLoopThread(t) THEN "none" ELSE "waking")
  /\ UNCHANGED <<pc, looping, callingPendingFunctors, pendingFunctors, wakeupfd,
                 activeChannels, functors, executed, ranIn, submitted>>

------------------------------------------------------------------------------
(* The loop's thread.  It moves on only between calls of its own.           *)

Step(from, to) ==
  /\ pc = from
  /\ call[LoopThread] = "none"
  /\ pc' = to
  /\ UNCHANGED <<call, ranIn, submitted>>

(* loop(), up to the while.  Whatever was in quit_ is overwritten.          *)
EnterLoop ==
  /\ Step("outside", "while")
  /\ looping' = TRUE
  /\ quit' = FALSE
  /\ UNCHANGED <<callingPendingFunctors, pendingFunctors, wakeupfd,
                 activeChannels, functors, executed>>

ExitLoop ==
  /\ quit
  /\ Step("while", "outside")
  /\ looping' = FALSE
  /\ UNCHANGED <<quit, callingPendingFunctors, pendingFunctors, wakeupfd,
                 activeChannels, functors, executed>>

StartIteration ==
  /\ ~quit
  /\ Step("while", "poll")
  /\ activeChannels' = {}
  /\ UNCHANGED <<looping, quit, callingPendingFunctors, pendingFunctors,
                 wakeupfd, functors, executed>>

(* Mutation: an infinite timeout.                                           *)
InfiniteTimeMs == 0 - 1

kPollTimeMs == 10000

(* epoll_wait returns the ready channels; none if kPollTimeMs have passed   *)
(* or a signal came (EINTR).                                                *)
Poll ==
  /\ Step("poll", "events")
  /\ \E ready \in SUBSET Channels :
       activeChannels' = ready \cup (IF wakeupfd > 0 THEN {WakeupChannel} ELSE {})
  /\ activeChannels' # {} \/ kPollTimeMs >= 0
  /\ UNCHANGED <<looping, quit, callingPendingFunctors, pendingFunctors,
                 wakeupfd, functors, executed>>

(* channel->handleEvent for wakeupChannel_: the read resets the counter.    *)
HandleRead ==
  /\ Step("events", "events")
  /\ WakeupChannel \in activeChannels
  /\ activeChannels' = activeChannels \ {WakeupChannel}
  /\ wakeupfd' = 0
  /\ UNCHANGED <<looping, quit, callingPendingFunctors, pendingFunctors,
                 functors, executed>>

(* channel->handleEvent for any other channel: user code, until it returns. *)
HandleEvent ==
  /\ Step("events", "callback")
  /\ \E channel \in activeChannels \cap Channels :
       activeChannels' = activeChannels \ {channel}
  /\ UNCHANGED <<looping, quit, callingPendingFunctors, pendingFunctors,
                 wakeupfd, functors, executed>>

ReturnFromCallback ==
  /\ Step("callback", "events")
  /\ UNCHANGED <<loopVars, pendingFunctors, wakeupfd>>

(* doPendingFunctors, from its first line to its last.                      *)
BeginPendingFunctors ==
  /\ activeChannels = {}
  /\ Step("events", "swap")
  /\ callingPendingFunctors' = TRUE
  /\ UNCHANGED <<looping, quit, pendingFunctors, wakeupfd, activeChannels,
                 functors, executed>>

(* Mutation: the vector is copied and not emptied.                          *)
LeftBySwapAll == pendingFunctors

LeftBySwap == <<>>

SwapFunctors ==
  /\ Step("swap", "run")
  /\ functors' = pendingFunctors
  /\ pendingFunctors' = LeftBySwap
  /\ UNCHANGED <<looping, quit, callingPendingFunctors, wakeupfd,
                 activeChannels, executed>>

(* Mutation: functors are taken from pendingFunctors_ itself.               *)
RunFunctorInPlace ==
  /\ functors \o pendingFunctors # <<>>
  /\ Step("run", "functor")
  /\ executed' = Append(executed, Head(functors \o pendingFunctors))
  /\ functors' = Tail(functors \o pendingFunctors)
  /\ pendingFunctors' = <<>>
  /\ UNCHANGED <<looping, quit, callingPendingFunctors, wakeupfd, activeChannels>>

RunFunctor ==
  /\ functors # <<>>
  /\ Step("run", "functor")
  /\ executed' = Append(executed, Head(functors))
  /\ functors' = Tail(functors)
  /\ UNCHANGED <<looping, quit, callingPendingFunctors, pendingFunctors,
                 wakeupfd, activeChannels>>

ReturnFromFunctor ==
  /\ Step("functor", "run")
  /\ UNCHANGED <<loopVars, pendingFunctors, wakeupfd>>

EndPendingFunctors ==
  /\ functors = <<>>
  /\ Step("run", "while")
  /\ callingPendingFunctors' = FALSE
  /\ UNCHANGED <<looping, quit, pendingFunctors, wakeupfd, activeChannels,
                 functors, executed>>

------------------------------------------------------------------------------
Operation(t) == QueueInLoop(t) \/ RunInLoop(t) \/ Quit(t)

FinishCall(t) == TestWakeup(t) \/ Wakeup(t)

LoopStep ==
  \/ ExitLoop
  \/ StartIteration
  \/ Poll
  \/ HandleRead
  \/ HandleEvent
  \/ ReturnFromCallback
  \/ BeginPendingFunctors
  \/ SwapFunctors
  \/ RunFunctor
  \/ ReturnFromFunctor
  \/ EndPendingFunctors

Next ==
  \/ EnterLoop
  \/ LoopStep
  \/ \E t \in Threads : Operation(t) \/ FinishCall(t)

Spec == Init /\ [][Next]_vars

(* A running thread keeps running and user code returns; that anyone calls  *)
(* loop() or an operation, or that a channel ever has an event, is not      *)
(* assumed.  epoll_wait cannot outlast kPollTimeMs, so Poll needs no event. *)
UnaidedStep == LoopStep /\ activeChannels' \cap Channels \subseteq activeChannels

Fairness ==
  /\ WF_vars(UnaidedStep)
  /\ \A t \in Threads : WF_vars(FinishCall(t))

FairSpec == Spec /\ Fairness

------------------------------------------------------------------------------
(* Properties.                                                              *)

(* queueInLoop and doPendingFunctors keep the line of functors: the queue   *)
(* and the vector swapped out of it are, together, the abstract queue.      *)
Queue == INSTANCE TaskQueue WITH Tasks <- Task,
                                 todo <- functors \o pendingFunctors,
                                 done <- executed

QueueRefined == Queue!Spec

(* The wakeup test of queueInLoop: what the loop's own thread queued inside *)
(* loop() is never left waiting for the poll timeout.  A callback's functor *)
(* runs in the same iteration; a functor's functor finds the eventfd        *)
(* readable when the loop next waits.                                       *)
NoStalledFunctor ==
  pc = "poll" =>
    \A i \in DOMAIN pendingFunctors :
      /\ pendingFunctors[i].from # "callback"
      /\ pendingFunctors[i].from = "functor" => wakeupfd > 0

(* doPendingFunctors runs what was queued when it took the lock and no      *)
(* more: functors that keep queueing functors cannot keep the loop away     *)
(* from epoll_wait.                                                         *)
RoundIsFixed ==
  [][{pc, pc'} \subseteq {"run", "functor"} =>
       executed' \o functors' = executed \o functors]_vars

(* loop(): whoever queued it, a functor runs unless the loop is left first, *)
(* at the latest when epoll_wait times out.                                 *)
FunctorRuns ==
  \A id \in 1..MaxTasks :
    id <= submitted ~> id <= Len(executed) \/ pc = "outside"

(* quit(): a loop told to quit while it runs leaves the while.              *)
QuitLeavesLoop == quit /\ pc # "outside" ~> pc = "outside"

(* EventLoop.h:35, runInLoop "runs cb in the current loop": no other thread *)
(* runs a callback of this loop.                                            *)
RunsInLoopThread == ranIn \subseteq {LoopThread}
==============================================================================
