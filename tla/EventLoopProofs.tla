--------------------------- MODULE EventLoopProofs ---------------------------
(***************************************************************************)
(* Theorems of EventLoop, for any set of calling threads and channels and  *)
(* any bound on the functors.                                              *)
(***************************************************************************)
EXTENDS EventLoop, SequenceTheorems, TLAPS

------------------------------------------------------------------------------
(* The inductive invariant.                                                 *)

(* queueInLoop and quit are called, on the loop's thread, by user code.     *)
CallsFromUserCode == call[LoopThread] # "none" => pc \in UserCode

(* callingPendingFunctors_ is set exactly while doPendingFunctors runs.     *)
FlagMeansFunctors ==
  callingPendingFunctors <=> pc \in {"swap", "run", "functor"}

(* Only doPendingFunctors holds a vector of functors.                       *)
VectorIsLocal == pc \notin {"run", "functor"} => functors = <<>>

(* What a callback queues is taken by the doPendingFunctors that follows.   *)
CallbackFunctorsTaken ==
  \A i \in DOMAIN pendingFunctors :
    pendingFunctors[i].from = "callback" => pc \in {"events", "callback", "swap"}

(* A functor queued by a functor is in the same case once the next wait is  *)
(* over; before that the eventfd is readable, or the submitter is on its    *)
(* way to writing it.                                                       *)
FunctorFunctorsAnnounced ==
  \A i \in DOMAIN pendingFunctors :
    pendingFunctors[i].from = "functor" =>
      \/ pc \in {"events", "callback", "swap"}
      \/ wakeupfd > 0
      \/ pc = "functor" /\ call[LoopThread] # "none"

IInv ==
  /\ TypeOK
  /\ CallsFromUserCode
  /\ FlagMeansFunctors
  /\ VectorIsLocal
  /\ CallbackFunctorsTaken
  /\ FunctorFunctorsAnnounced

------------------------------------------------------------------------------
(* The concatenation of what runs and what waits, taken apart.              *)

(* Appending to the waiting part appends to the whole.                      *)
LEMMA AppendToConcat ==
  ASSUME NEW S, NEW s \in Seq(S), NEW t \in Seq(S), NEW e \in S
  PROVE  s \o Append(t, e) = Append(s \o t, e)
<1>1. Append(t, e) = t \o <<e>> /\ <<e>> \in Seq(S)
  BY AppendIsConcat
<1>2. s \o t \in Seq(S)
  BY ConcatProperties
<1>3. Append(s \o t, e) = (s \o t) \o <<e>>
  BY <1>2, AppendIsConcat
<1>4. (s \o t) \o <<e>> = s \o (t \o <<e>>)
  BY <1>1, ConcatAssociative
<1> QED
  BY <1>1, <1>3, <1>4

(* A sequence is its head followed by its tail.                             *)
LEMMA HeadThenTail ==
  ASSUME NEW S, NEW s \in Seq(S), s # <<>>
  PROVE  s = <<Head(s)>> \o Tail(s)
  OBVIOUS

(* Taking from the front of the first part takes from the front of the whole. *)
LEMMA TakeFromConcat ==
  ASSUME NEW S, NEW s \in Seq(S), NEW t \in Seq(S), s # <<>>
  PROVE  /\ s \o t # <<>>
         /\ Head(s \o t) = Head(s)
         /\ Tail(s \o t) = Tail(s) \o t
<1>1. /\ Head(s) \in S
      /\ Tail(s) \in Seq(S)
  BY HeadTailProperties
<1>2. Tail(s) \o t \in Seq(S)
  BY <1>1, ConcatProperties
<1>3. s \o t = <<Head(s)>> \o (Tail(s) \o t)
  <2>1. <<Head(s)>> \in Seq(S)
    BY <1>1
  <2>2. (<<Head(s)>> \o Tail(s)) \o t = <<Head(s)>> \o (Tail(s) \o t)
    BY <1>1, <2>1, ConcatAssociative
  <2> QED
    BY <2>2, HeadThenTail
<1>4. ASSUME NEW h \in S, NEW u \in Seq(S)
      PROVE  /\ <<h>> \o u # <<>>
             /\ Head(<<h>> \o u) = h
             /\ Tail(<<h>> \o u) = u
  OBVIOUS
<1> QED
  BY <1>1, <1>2, <1>3, <1>4

(* Moving the head across leaves the whole as it was.                       *)
LEMMA MoveHead ==
  ASSUME NEW S, NEW done \in Seq(S), NEW s \in Seq(S), s # <<>>
  PROVE  Append(done, Head(s)) \o Tail(s) = done \o s
<1>1. /\ Head(s) \in S
      /\ Tail(s) \in Seq(S)
      /\ <<Head(s)>> \in Seq(S)
  BY HeadTailProperties
<1>2. Append(done, Head(s)) = done \o <<Head(s)>>
  BY <1>1, AppendIsConcat
<1>3. (done \o <<Head(s)>>) \o Tail(s) = done \o (<<Head(s)>> \o Tail(s))
  BY <1>1, ConcatAssociative
<1> QED
  BY <1>2, <1>3, HeadThenTail

------------------------------------------------------------------------------
(* The invariant is inductive.                                              *)

(* The types of the parts the steps are made of.                            *)
LEMMA TaskIsTask ==
  ASSUME TypeOK, submitted < MaxTasks, NEW t \in Threads, MayCall(t)
  PROVE  [id |-> submitted + 1, from |-> From(t)] \in Task
<1>1. submitted + 1 \in 1..MaxTasks
  BY ConstantsAssumption DEF TypeOK
<1>2. From(t) \in UserCode \cup {"foreign"}
  BY DEF MayCall, From
<1> QED
  BY <1>1, <1>2 DEF Task

(* queueInLoop: the one step that puts a functor into pendingFunctors_.     *)
LEMMA QueueInLoopKeepsIInv ==
  ASSUME IInv, NEW t \in Threads, QueueInLoop(t)
  PROVE  IInv'
<1> DEFINE new == [id |-> submitted + 1, from |-> From(t)]
<1> USE DEF QueueInLoop, Goto, loopVars
<1>1. new \in Task
  BY TaskIsTask DEF IInv
<1>2. /\ pendingFunctors \in Seq(Task)
      /\ pendingFunctors' = Append(pendingFunctors, new)
  BY DEF IInv, TypeOK
<1>3. /\ pendingFunctors' \in Seq(Task)
      /\ \A i \in DOMAIN pendingFunctors' :
            \/ i \in DOMAIN pendingFunctors /\ pendingFunctors'[i] = pendingFunctors[i]
            \/ pendingFunctors'[i] = new
  BY <1>1, <1>2, AppendProperties, LenProperties
<1>4. TypeOK'
  BY <1>3 DEF IInv, TypeOK, CallSteps
<1>5. CallsFromUserCode'
  BY DEF IInv, CallsFromUserCode, MayCall
<1>6. FlagMeansFunctors' /\ VectorIsLocal'
  BY DEF IInv, FlagMeansFunctors, VectorIsLocal
<1>7. CallbackFunctorsTaken'
  BY <1>3 DEF IInv, CallbackFunctorsTaken, From
<1>8. FunctorFunctorsAnnounced'
  <2> SUFFICES ASSUME NEW i \in DOMAIN pendingFunctors', pendingFunctors'[i].from = "functor"
               PROVE  \/ pc \in {"events", "callback", "swap"}
                      \/ wakeupfd > 0
                      \/ pc = "functor" /\ call'[LoopThread] # "none"
    BY DEF FunctorFunctorsAnnounced
  <2>1. CASE i \in DOMAIN pendingFunctors /\ pendingFunctors'[i] = pendingFunctors[i]
    BY <2>1 DEF IInv, FunctorFunctorsAnnounced, TypeOK, CallSteps, Threads
  <2>2. CASE pendingFunctors'[i] = new
    <3>1. t = LoopThread /\ pc = "functor"
      BY <2>2 DEF From
    <3> QED
      BY <3>1 DEF IInv, TypeOK, Threads
  <2> QED
    BY <1>3, <2>1, <2>2
<1> QED
  BY <1>4, <1>5, <1>6, <1>7, <1>8 DEF IInv

(* The steps by which a call ends, and those that queue nothing.            *)
LEMMA CallsKeepIInv ==
  ASSUME IInv, NEW t \in Threads,
         TestWakeup(t) \/ Wakeup(t) \/ RunInLoop(t) \/ Quit(t)
  PROVE  IInv'
<1> USE DEF IInv, TypeOK, CallsFromUserCode, FlagMeansFunctors, VectorIsLocal,
            CallbackFunctorsTaken, FunctorFunctorsAnnounced, CallSteps, Threads,
            Goto, loopVars
<1>1. CASE TestWakeup(t)
  <2>1. pc = "functor" /\ t = LoopThread => call'[t] = "waking"
    BY <1>1 DEF TestWakeup, MustWake
  <2> QED
    BY <1>1, <2>1 DEF TestWakeup, MustWake
<1>2. CASE Wakeup(t)
  BY <1>2 DEF Wakeup, Written
<1>3. CASE RunInLoop(t)
  <2>1. CASE IsInLoopThread(t)
    BY <1>3, <2>1 DEF RunInLoop
  <2>2. CASE ~IsInLoopThread(t)
    BY <1>3, <2>2, QueueInLoopKeepsIInv DEF RunInLoop
  <2> QED
    BY <2>1, <2>2
<1>4. CASE Quit(t)
  BY <1>4 DEF Quit, MayCall, IsInLoopThread, Tid, CacheTid
<1> QED
  BY <1>1, <1>2, <1>3, <1>4

(* The loop's own steps.                                                    *)
LEMMA LoopStepKeepsIInv ==
  ASSUME IInv, EnterLoop \/ LoopStep
  PROVE  IInv'
<1> USE DEF IInv, TypeOK, CallsFromUserCode, FlagMeansFunctors, VectorIsLocal,
            CallbackFunctorsTaken, FunctorFunctorsAnnounced, Locations, UserCode,
            Step, loopVars
<1>1. CASE EnterLoop
  BY <1>1 DEF EnterLoop
<1>2. CASE ExitLoop
  BY <1>2 DEF ExitLoop
<1>3. CASE StartIteration
  BY <1>3 DEF StartIteration
<1>4. CASE Poll
  BY <1>4 DEF Poll
<1>5. CASE HandleRead
  BY <1>5 DEF HandleRead
<1>6. CASE HandleEvent
  BY <1>6 DEF HandleEvent
<1>7. CASE ReturnFromCallback
  BY <1>7 DEF ReturnFromCallback
<1>8. CASE BeginPendingFunctors
  BY <1>8 DEF BeginPendingFunctors
<1>9. CASE SwapFunctors
  <2>1. DOMAIN pendingFunctors' = {} /\ pendingFunctors' \in Seq(Task)
    BY <1>9, EmptySeq, LenProperties DEF SwapFunctors, LeftBySwap
  <2>2. CallbackFunctorsTaken' /\ FunctorFunctorsAnnounced'
    BY <2>1
  <2>3. TypeOK'
    BY <1>9, <2>1 DEF SwapFunctors, LeftBySwap
  <2> QED
    BY <1>9, <2>2, <2>3 DEF SwapFunctors
<1>10. CASE RunFunctor
  <2>1. /\ Head(functors) \in Task
        /\ Tail(functors) \in Seq(Task)
    BY <1>10, HeadTailProperties DEF RunFunctor
  <2>2. executed' \in Seq(Task)
    BY <1>10, <2>1, AppendProperties DEF RunFunctor
  <2> QED
    BY <1>10, <2>1, <2>2 DEF RunFunctor
<1>11. CASE ReturnFromFunctor
  BY <1>11 DEF ReturnFromFunctor
<1>12. CASE EndPendingFunctors
  BY <1>12 DEF EndPendingFunctors
<1> QED
  BY <1>1, <1>2, <1>3, <1>4, <1>5, <1>6, <1>7, <1>8, <1>9, <1>10, <1>11, <1>12
     DEF LoopStep

(* The loop starts and stays in the invariant, whoever calls it and when.   *)
THEOREM InductiveInvariant == Spec => []IInv
<1>1. Init => IInv
  <2> SUFFICES ASSUME Init PROVE IInv
    OBVIOUS
  <2>1. <<>> \in Seq(Task) /\ DOMAIN pendingFunctors = {}
    BY EmptySeq, LenProperties DEF Init
  <2>2. TypeOK
    BY <2>1 DEF Init, TypeOK, Locations, UserCode, CallSteps
  <2>3. CallbackFunctorsTaken /\ FunctorFunctorsAnnounced
    BY <2>1 DEF CallbackFunctorsTaken, FunctorFunctorsAnnounced
  <2> QED
    BY <2>2, <2>3 DEF Init, IInv, CallsFromUserCode, FlagMeansFunctors,
                      VectorIsLocal, UserCode
<1>2. IInv /\ [Next]_vars => IInv'
  <2> SUFFICES ASSUME IInv, [Next]_vars
               PROVE  IInv'
    OBVIOUS
  <2>1. CASE UNCHANGED vars
    BY <2>1 DEF vars, IInv, TypeOK, CallsFromUserCode, FlagMeansFunctors,
                VectorIsLocal, CallbackFunctorsTaken, FunctorFunctorsAnnounced
  <2>2. CASE EnterLoop \/ LoopStep
    BY <2>2, LoopStepKeepsIInv
  <2>3. ASSUME NEW t \in Threads, Operation(t) \/ FinishCall(t)
        PROVE  IInv'
    BY <2>3, QueueInLoopKeepsIInv, CallsKeepIInv DEF Operation, FinishCall
  <2> QED
    BY <2>1, <2>2, <2>3 DEF Next
<1> QED
  BY <1>1, <1>2, PTL DEF Spec

(* Type correctness of the reactor's state.                                 *)
THEOREM TypeCorrect == Spec => []TypeOK
BY InductiveInvariant, PTL DEF IInv

(* Whatever the loop's own thread queues inside loop() is run or announced  *)
(* on the eventfd before the loop waits in epoll_wait.                      *)
THEOREM NoFunctorStalls == Spec => []NoStalledFunctor
<1>1. IInv => NoStalledFunctor
  BY DEF IInv, NoStalledFunctor, CallbackFunctorsTaken, FunctorFunctorsAnnounced
<1> QED
  BY <1>1, InductiveInvariant, PTL

------------------------------------------------------------------------------
(* The queue of functors.                                                   *)

(* A round of doPendingFunctors runs what its swap took, in that order,     *)
(* whatever is queued meanwhile.                                            *)
THEOREM RoundsAreFixed == Spec => RoundIsFixed
<1>1. IInv /\ [Next]_vars
      => [{pc, pc'} \subseteq {"run", "functor"} =>
           executed' \o functors' = executed \o functors]_vars
  <2> SUFFICES ASSUME IInv, [Next]_vars, {pc, pc'} \subseteq {"run", "functor"}
               PROVE  executed' \o functors' = executed \o functors
    OBVIOUS
  <2>1. CASE RunFunctor
    <3>1. /\ functors \in Seq(Task)
          /\ executed \in Seq(Task)
          /\ functors # <<>>
      BY <2>1 DEF RunFunctor, IInv, TypeOK
    <3> QED
      BY <2>1, <3>1, MoveHead DEF RunFunctor
  <2>2. CASE ~RunFunctor
    BY <2>2 DEF Next, LoopStep, Operation, FinishCall, EnterLoop, ExitLoop,
         StartIteration, Poll, HandleRead, HandleEvent, ReturnFromCallback,
         BeginPendingFunctors, SwapFunctors, ReturnFromFunctor,
         EndPendingFunctors, QueueInLoop, TestWakeup, Wakeup, RunInLoop, Quit,
         Step, loopVars, vars
  <2> QED
    BY <2>1, <2>2
<1> QED
  BY <1>1, InductiveInvariant, PTL DEF Spec, RoundIsFixed

(* queueInLoop and doPendingFunctors implement the abstract line of         *)
(* functors: first come, first run, at most once, none lost.                *)
THEOREM ImplementsTaskQueue == Spec => QueueRefined
<1> DEFINE todo == functors \o pendingFunctors
<1>1. Init => Queue!Init
  BY EmptySeq, ConcatEmptySeq DEF Init, Queue!Init
<1>2. IInv /\ [Next]_vars => [Queue!Next]_(Queue!vars)
  <2> SUFFICES ASSUME IInv, [Next]_vars
               PROVE  Queue!Next \/ UNCHANGED <<todo, executed>>
    BY DEF Queue!vars
  <2> pendingFunctors \in Seq(Task) /\ functors \in Seq(Task) /\ executed \in Seq(Task)
    BY DEF IInv, TypeOK
  <2>1. ASSUME NEW t \in Threads, QueueInLoop(t)
        PROVE  \E task \in Task : Queue!Submit(task)
    <3> DEFINE new == [id |-> submitted + 1, from |-> From(t)]
    <3>1. new \in Task
      BY <2>1, TaskIsTask DEF IInv, QueueInLoop
    <3>2. todo' = Append(todo, new)
      BY <2>1, <3>1, AppendToConcat DEF QueueInLoop, loopVars
    <3> QED
      BY <2>1, <3>1, <3>2 DEF QueueInLoop, loopVars, Queue!Submit
  <2>2. CASE RunFunctor
    <3>1. /\ todo # <<>>
          /\ Head(todo) = Head(functors)
          /\ Tail(todo) = Tail(functors) \o pendingFunctors
      BY <2>2, TakeFromConcat DEF RunFunctor
    <3> QED
      BY <2>2, <3>1 DEF RunFunctor, Queue!RunFirst, Queue!Next
  <2>3. CASE SwapFunctors
    <3>1. functors = <<>>
      BY <2>3 DEF IInv, VectorIsLocal, SwapFunctors, Step
    <3> QED
      BY <2>3, <3>1, ConcatEmptySeq DEF SwapFunctors, LeftBySwap
  <2>4. CASE ~RunFunctor /\ ~SwapFunctors /\ ~(\E t \in Threads : QueueInLoop(t))
    BY <2>4 DEF Next, LoopStep, Operation, FinishCall, EnterLoop, ExitLoop,
         StartIteration, Poll, HandleRead, HandleEvent, ReturnFromCallback,
         BeginPendingFunctors, ReturnFromFunctor, EndPendingFunctors,
         TestWakeup, Wakeup, RunInLoop, Quit, loopVars, vars
  <2> QED
    BY <2>1, <2>2, <2>3, <2>4 DEF Queue!Next
<1> QED
  BY <1>1, <1>2, InductiveInvariant, PTL DEF Spec, Queue!Spec, QueueRefined

------------------------------------------------------------------------------
(* The order of the functors.                                               *)

(* All that was ever queued: what has been run, what runs, what waits.      *)
Line == executed \o (functors \o pendingFunctors)

(* queueInLoop: the k-th functor to be queued, by whichever thread, is the  *)
(* k-th in line.                                                            *)
LineInOrder ==
  /\ Len(Line) = submitted
  /\ \A k \in 1..submitted : Line[k].id = k

(* The k-th functor to be run is the k-th that was queued: none is run      *)
(* twice, none is passed over.                                              *)
RunInOrder ==
  /\ Len(executed) <= submitted
  /\ \A k \in 1..Len(executed) : executed[k].id = k

(* What a step does to the line: queueInLoop appends to it, and no other    *)
(* step changes it.                                                         *)
LEMMA StepOfLine ==
  ASSUME IInv, [Next]_vars
  PROVE  \/ Line' = Line /\ submitted' = submitted
         \/ \E task \in Task :
              task.id = submitted + 1 /\ Line' = Append(Line, task)
              /\ submitted' = submitted + 1
<1>1. /\ pendingFunctors \in Seq(Task) /\ functors \in Seq(Task) /\ executed \in Seq(Task)
      /\ functors \o pendingFunctors \in Seq(Task)
  BY ConcatProperties DEF IInv, TypeOK
<1>2. ASSUME NEW t \in Threads, QueueInLoop(t)
      PROVE  \E task \in Task :
               task.id = submitted + 1 /\ Line' = Append(Line, task)
               /\ submitted' = submitted + 1
  <2> DEFINE new == [id |-> submitted + 1, from |-> From(t)]
  <2>1. new \in Task /\ new.id = submitted + 1
    BY <1>2, TaskIsTask DEF IInv, QueueInLoop
  <2>2. /\ pendingFunctors' = Append(pendingFunctors, new) /\ submitted' = submitted + 1
        /\ functors' = functors /\ executed' = executed
    BY <1>2 DEF QueueInLoop, loopVars
  <2> HIDE DEF new
  <2>3. functors \o Append(pendingFunctors, new) = Append(functors \o pendingFunctors, new)
    BY <1>1, <2>1, AppendToConcat
  <2>4. executed \o Append(functors \o pendingFunctors, new) = Append(Line, new)
    BY <1>1, <2>1, AppendToConcat DEF Line
  <2>5. Line' = Append(Line, new)
    BY <2>2, <2>3, <2>4 DEF Line
  <2>6. QED
    BY <2>1, <2>2, <2>5
<1>3. CASE RunFunctor
  <2>1. /\ functors # <<>> /\ executed' = Append(executed, Head(functors))
        /\ functors' = Tail(functors) /\ pendingFunctors' = pendingFunctors
        /\ submitted' = submitted
    BY <1>3 DEF RunFunctor, Step
  <2>2. /\ functors \o pendingFunctors # <<>>
        /\ Head(functors \o pendingFunctors) = Head(functors)
        /\ Tail(functors \o pendingFunctors) = Tail(functors) \o pendingFunctors
    BY <1>1, <2>1, TakeFromConcat
  <2>3. Append(executed, Head(functors)) \o (Tail(functors) \o pendingFunctors) = Line
    BY <1>1, <2>2, MoveHead DEF Line
  <2>4. QED
    BY <2>1, <2>3 DEF Line
<1>4. CASE SwapFunctors
  <2>1. /\ functors = <<>> /\ functors' = pendingFunctors /\ pendingFunctors' = <<>>
        /\ executed' = executed /\ submitted' = submitted
    BY <1>4 DEF IInv, VectorIsLocal, SwapFunctors, Step, LeftBySwap
  <2>2. functors \o pendingFunctors = functors' \o pendingFunctors'
    BY <1>1, <2>1, ConcatEmptySeq
  <2>3. QED
    BY <2>1, <2>2 DEF Line
<1>5. CASE ~RunFunctor /\ ~SwapFunctors /\ ~(\E t \in Threads : QueueInLoop(t))
  <2>1. UNCHANGED <<executed, functors, pendingFunctors, submitted>>
    BY <1>5 DEF Next, LoopStep, Operation, FinishCall, EnterLoop, ExitLoop,
         StartIteration, Poll, HandleRead, HandleEvent, ReturnFromCallback,
         BeginPendingFunctors, ReturnFromFunctor, EndPendingFunctors,
         TestWakeup, Wakeup, RunInLoop, Quit, Step, loopVars, vars
  <2>2. QED
    BY <2>1 DEF Line
<1>6. QED
  BY <1>2, <1>3, <1>4, <1>5

(* queueInLoop, doPendingFunctors: functors of all threads are run in the   *)
(* order in which they were queued, each at most once.                      *)
THEOREM FunctorsRunInOrder == Spec => []RunInOrder
<1> DEFINE Ordered == IInv /\ LineInOrder
<1>1. Init => LineInOrder
  BY EmptySeq, ConcatEmptySeq DEF Init, LineInOrder, Line
<1>2. IInv => Line \in Seq(Task) /\ submitted \in Nat
  BY ConcatProperties DEF IInv, TypeOK, Line
<1>3. Ordered /\ [Next]_vars => LineInOrder'
  <2> SUFFICES ASSUME IInv, LineInOrder, [Next]_vars PROVE LineInOrder'
    OBVIOUS
  <2>1. CASE Line' = Line /\ submitted' = submitted
    BY <2>1 DEF LineInOrder
  <2>2. ASSUME NEW task \in Task, task.id = submitted + 1, Line' = Append(Line, task),
               submitted' = submitted + 1
        PROVE  LineInOrder'
    <3>1. /\ Len(Append(Line, task)) = Len(Line) + 1
          /\ \A k \in 1..Len(Line) : Append(Line, task)[k] = Line[k]
          /\ Append(Line, task)[Len(Line) + 1] = task
      BY <1>2, AppendProperties
    <3>2. QED
      BY <1>2, <2>2, <3>1 DEF LineInOrder
  <2>3. QED
    BY <2>1, <2>2, StepOfLine
<1>4. IInv /\ LineInOrder => RunInOrder
  <2> SUFFICES ASSUME IInv, LineInOrder PROVE RunInOrder
    OBVIOUS
  <2>1. executed \in Seq(Task) /\ functors \o pendingFunctors \in Seq(Task)
    BY ConcatProperties DEF IInv, TypeOK
  <2>2. /\ Len(executed) \in Nat /\ Len(functors \o pendingFunctors) \in Nat
        /\ Len(Line) = Len(executed) + Len(functors \o pendingFunctors)
        /\ \A k \in 1..Len(executed) : Line[k] = executed[k]
    BY <2>1, ConcatProperties, LenProperties DEF Line
  <2>3. QED
    BY <2>2 DEF LineInOrder, RunInOrder
<1>5. QED
  BY <1>1, <1>3, <1>4, InductiveInvariant, PTL DEF Spec
==============================================================================
