--------------------------- MODULE EventLoopThread ---------------------------
(***************************************************************************)
(* EventLoopThread.cpp and Thread.cpp: an object whose owner starts a      *)
(* child thread with a loop of its own, waits until that loop exists, uses *)
(* it, and on destruction quits it and joins the thread.  One thread, the  *)
(* owner, has several such objects.                                        *)
(*                                                                         *)
(* The loop lives on the child's stack; loop_ points to it from the time   *)
(* the child publishes it until the child has left loop().  Of the loop    *)
(* itself (module EventLoop) only quit_ is kept: the while tests it, and   *)
(* the wait in epoll_wait ends by itself.  The owner's quit() writes no    *)
(* eventfd (see EventLoop!IsInLoopThread), so it is one assignment.        *)
(***************************************************************************)
EXTENDS Naturals

CONSTANTS Objects,    \* the EventLoopThread objects of the owner
          EarlyQuit   \* those whose loop not only the destructor quits

ASSUME EarlyQuitAssumption == EarlyQuit \subseteq Objects

VARIABLE obj   \* each object with its child thread, see ObjectType

(* Where the owner stands, in a call on this object or between two.         *)
Idle      == {"constructed", "running", "destroyed", "crashed"}
InCall    == {"semWait", "semDestroy", "check", "blocked", "quitting", "joining"}

(* Where the child stands.                                                  *)
ChildPlaces == {"unborn", "born", "posted", "callback", "publish", "enter",
                "while", "poll", "exit", "unlock", "unwind", "dead"}

ObjectType ==
  [owner    : Idle \cup InCall,
   child    : ChildPlaces,
   loop     : {"null", "loop"},     \* loop_
   alive    : BOOLEAN,              \* is the child's EventLoop object alive?
   mutex    : {"free", "child"},    \* who holds mutex_
   sem      : 0..1,                 \* the value of sem_
   semAlive : BOOLEAN,              \* between sem_init and sem_destroy?
   quit     : BOOLEAN]              \* the loop's quit_

TypeOK == obj \in [Objects -> ObjectType]

Init == obj = [o \in Objects |->
  [owner |-> "constructed", child |-> "unborn", loop |-> "null", alive |-> FALSE,
   mutex |-> "free", sem |-> 0, semAlive |-> FALSE, quit |-> FALSE]]

------------------------------------------------------------------------------
(* The owner, which is in one call at a time.                               *)

Call(o) ==
  /\ obj[o].owner \in {"constructed", "running"}
  /\ \A other \in Objects : obj[other].owner \in Idle

OwnerGoto(o, from, to) ==
  /\ obj[o].owner = from
  /\ obj' = [obj EXCEPT ![o].owner = to]

(* startLoop() calls Thread::start().                                       *)
Start(o) ==
  /\ Call(o)
  /\ obj[o].owner = "constructed"
  /\ obj' = [obj EXCEPT ![o].owner = "semWait", ![o].child = "born",
                        ![o].sem = 0, ![o].semAlive = TRUE]

(* Mutation: start() does not wait for the child.                           *)
DoNotWait(o) == OwnerGoto(o, "semWait", "semDestroy")

(* Mutation: the semaphore is taken before it is posted.                    *)
SemTakeUnposted(o) ==
  /\ obj[o].owner = "semWait"
  /\ obj' = [obj EXCEPT ![o].owner = "semDestroy", ![o].sem = @ - 1]

SemWait(o) ==
  /\ obj[o].owner = "semWait"
  /\ obj[o].sem > 0
  /\ obj' = [obj EXCEPT ![o].owner = "semDestroy", ![o].sem = @ - 1]

SemDestroy(o) ==
  /\ obj[o].owner = "semDestroy"
  /\ obj' = [obj EXCEPT ![o].owner = "check", ![o].semAlive = FALSE]

(* startLoop(), cond_.wait: the predicate is read with mutex_ held, and the *)
(* mutex is released in the same step as the owner starts to wait.          *)
CheckLoop(o) ==
  /\ obj[o].mutex = "free"
  /\ OwnerGoto(o, "check", IF obj[o].loop = "loop" THEN "running" ELSE "blocked")

(* Mutation: any wakeup ends the wait, cond_.wait without a predicate.       *)
WakeupUnchecked(o) == OwnerGoto(o, "blocked", "running")

(* A condition variable may wake its waiter for no reason.                  *)
SpuriousWakeup(o) == OwnerGoto(o, "blocked", "check")

(* Mutation: loop_ is used without being tested.                            *)
DestroyUntested(o) ==
  /\ Call(o)
  /\ OwnerGoto(o, obj[o].owner, "quitting")

(* ~EventLoopThread(): loop_ is read without the mutex.  If it is null the  *)
(* members are destroyed at once (a thread not joined is detached).         *)
Destroy(o) ==
  /\ Call(o)
  /\ OwnerGoto(o, obj[o].owner, IF obj[o].loop = "loop" THEN "quitting" ELSE "destroyed")

(* loop_->quit(): the second read of loop_ races with the child's write, so *)
(* the old address may still be used.                                       *)
QuitLoop(o) ==
  /\ obj[o].owner = "quitting"
  /\ \/ /\ obj[o].alive
        /\ obj' = [obj EXCEPT ![o].owner = "joining", ![o].quit = TRUE]
     \/ /\ obj[o].loop = "null" \/ ~obj[o].alive
        /\ obj' = [obj EXCEPT ![o].owner = "crashed"]

(* Mutation: the destructor does not join.                                  *)
DoNotJoin(o) == OwnerGoto(o, "joining", "destroyed")

Join(o) ==
  /\ obj[o].child = "dead"
  /\ OwnerGoto(o, "joining", "destroyed")

------------------------------------------------------------------------------
(* The child.                                                               *)

ChildGoto(o, from, to) ==
  /\ obj[o].child = from
  /\ obj' = [obj EXCEPT ![o].child = to]

(* The lambda of Thread::start(), up to func_().                            *)
SemPost(o) ==
  /\ obj[o].child = "born"
  /\ obj' = [obj EXCEPT ![o].child = "posted", ![o].sem = @ + 1]

(* threadFunc(), `EventLoop loop;`.                                         *)
ConstructLoop(o) ==
  /\ obj[o].child = "posted"
  /\ obj' = [obj EXCEPT ![o].child = "callback", ![o].alive = TRUE, ![o].quit = FALSE]

(* callback_(&loop): user code, which may quit the loop.                    *)
InitCallback(o) ==
  /\ obj[o].child = "callback"
  /\ \E quit \in {q \in BOOLEAN : q => o \in EarlyQuit} :
       obj' = [obj EXCEPT ![o].child = "publish", ![o].quit = quit]

(* Mutation: loop_ is set and nobody notified.                              *)
PublishSilently(o) ==
  /\ obj[o].child = "publish"
  /\ obj[o].mutex = "free"
  /\ obj' = [obj EXCEPT ![o].child = "enter", ![o].loop = "loop"]

(* loop_ = &loop and notify_one(), with the mutex held.                     *)
Publish(o) ==
  /\ obj[o].child = "publish"
  /\ obj[o].mutex = "free"
  /\ obj' = [obj EXCEPT ![o].child = "enter", ![o].loop = "loop",
                        ![o].owner = IF @ = "blocked" THEN "check" ELSE @]

(* loop(), up to the while: quit_ is reset.                                 *)
EnterLoop(o) ==
  /\ obj[o].child = "enter"
  /\ obj' = [obj EXCEPT ![o].child = "while", ![o].quit = FALSE]

TestQuit(o) == ChildGoto(o, "while", IF obj[o].quit THEN "exit" ELSE "poll")

(* One turn of the while: epoll_wait, callbacks, functors.                  *)
Iterate(o) == ChildGoto(o, "poll", "while")

(* Mutation: loop_ is left as it was.                                       *)
LeavePublished(o) ==
  /\ obj[o].child = "exit"
  /\ obj[o].mutex = "free"
  /\ obj' = [obj EXCEPT ![o].child = "unlock", ![o].mutex = "child"]

(* After loop().  The lock is released before `loop` is destroyed, both     *)
(* when threadFunc() returns.                                               *)
Unpublish(o) ==
  /\ obj[o].child = "exit"
  /\ obj[o].mutex = "free"
  /\ obj' = [obj EXCEPT ![o].child = "unlock", ![o].loop = "null", ![o].mutex = "child"]

Unlock(o) ==
  /\ obj[o].child = "unlock"
  /\ obj' = [obj EXCEPT ![o].child = "unwind", ![o].mutex = "free"]

DestructLoop(o) ==
  /\ obj[o].child = "unwind"
  /\ obj' = [obj EXCEPT ![o].child = "dead", ![o].alive = FALSE]

------------------------------------------------------------------------------
(* User code, on the owner's thread or in the loop, quits the loop.         *)
QuitEarly(o) ==
  /\ o \in EarlyQuit
  /\ obj[o].alive
  /\ obj[o].owner = "running" \/ obj[o].child = "poll"
  /\ obj' = [obj EXCEPT ![o].quit = TRUE]

OwnerStep(o) ==
  Start(o) \/ SemWait(o) \/ SemDestroy(o) \/ CheckLoop(o) \/ QuitLoop(o) \/ Join(o)

ChildStep(o) ==
  \/ SemPost(o) \/ ConstructLoop(o) \/ InitCallback(o) \/ Publish(o) \/ EnterLoop(o)
  \/ TestQuit(o) \/ Iterate(o) \/ Unpublish(o) \/ Unlock(o) \/ DestructLoop(o)

Next == \E o \in Objects :
  OwnerStep(o) \/ Destroy(o) \/ SpuriousWakeup(o) \/ ChildStep(o) \/ QuitEarly(o)

Spec == Init /\ [][Next]_obj

(* Every thread is scheduled, and what it calls returns.  When, and whether *)
(* the owner destroys an object is the program's business.                  *)
Fairness == \A o \in Objects : WF_obj(OwnerStep(o)) /\ WF_obj(ChildStep(o))

FairSpec == Spec /\ Fairness

------------------------------------------------------------------------------
(* Properties.  Most hold of objects whose loop nobody else quits.          *)
OwnObjects == Objects \ EarlyQuit

(* Thread.cpp:23: start() does not leave, and destroy sem_, before the      *)
(* child has posted it.                                                     *)
SemaphoreOutlivesPost ==
  \A o \in Objects : obj[o].child = "born" => obj[o].semAlive

(* ~EventLoopThread() leaves no child behind that still uses the members it *)
(* destroys (mutex_, loop_, callback_, the Thread).                         *)
ChildDoesNotOutliveObject ==
  \A o \in OwnObjects : obj[o].owner = "destroyed" => obj[o].child \in {"unborn", "dead"}

(* loop_ is null or the address of a loop that exists, however the loop was *)
(* quit: threadFunc() clears it before `loop` is destroyed.  If nobody else *)
(* quits it, the owner holds the address of a loop that exists from the end *)
(* of startLoop() to the destructor, which never calls quit() through a     *)
(* null or dangling loop_.                                                  *)
LoopPointerValid ==
  /\ \A o \in Objects : obj[o].loop = "loop" => obj[o].alive
  /\ \A o \in OwnObjects : obj[o].owner = "running" => obj[o].alive
  /\ \A o \in OwnObjects : obj[o].owner # "crashed"

(* startLoop() returns.                                                     *)
StartLoopReturns ==
  \A o \in OwnObjects : obj[o].owner = "semWait" ~> obj[o].owner = "running"

(* EventLoop.h:27, quit() "leaves the event loop", from another thread too  *)
(* (EventLoop.cpp:82): the destructor, having quit the loop, returns from   *)
(* join().                                                                  *)
DestructorReturns ==
  \A o \in OwnObjects : obj[o].owner = "joining" ~> obj[o].owner = "destroyed"
==============================================================================
