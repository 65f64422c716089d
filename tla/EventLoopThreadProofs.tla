------------------------ MODULE EventLoopThreadProofs ------------------------
(***************************************************************************)
(* Theorems about EventLoopThread, for any number of objects.              *)
(*                                                                         *)
(* The objects share nothing but the owner, so the invariant speaks of one *)
(* object at a time.  Where the child stands decides who holds mutex_,     *)
(* whether the loop exists and whether loop_ points to it; the semaphore   *)
(* ties the child's first step to the owner's return from start().  If     *)
(* nobody else quits the loop (Undisturbed), the child leaves loop() only  *)
(* after the destructor's quit(): hence loop_ is valid when the destructor *)
(* uses it, and the child is dead when join() returns.                     *)
(***************************************************************************)
EXTENDS EventLoopThread, TLAPS

Before == {"unborn", "born", "posted"}
InLoop == {"enter", "while", "poll"}
After  == {"exit", "unlock", "unwind", "dead"}

(* Thread::start() and sem_.                                                *)
Semaphore(x) ==
  /\ x.owner = "constructed" => x.child = "unborn"
  /\ x.owner = "semWait" => x.semAlive /\ x.child # "unborn"
  /\ x.child = "born" => x.owner = "semWait"
  /\ x.sem = IF x.owner = "semWait" /\ x.child # "born" THEN 1 ELSE 0

(* What the child's place says of the members it shares with its owner.     *)
Published(x) ==
  /\ x.alive <=> x.child \notin Before \cup {"dead"}
  /\ x.loop = "loop" <=> x.child \in InLoop \cup {"exit"}
  /\ x.mutex = "child" <=> x.child = "unlock"

(* Nobody but the destructor has quit the loop.                             *)
Undisturbed(x) ==
  /\ x.owner # "crashed"
  /\ x.quit \/ x.child \in After => x.owner \in {"joining", "destroyed"}
  /\ x.owner \in {"running", "quitting"} => x.child \in InLoop
  /\ x.owner = "destroyed" => x.child \in {"unborn", "dead"}

Good(o, x) ==
  /\ x \in ObjectType /\ Semaphore(x) /\ Published(x)
  /\ o \in OwnObjects => Undisturbed(x)

Inv ==
  /\ TypeOK
  /\ \A o \in Objects : Good(o, obj[o])

(* An object that is constructed: no child, no loop, no semaphore.          *)
LEMMA InitInv == Init => Inv
<1> SUFFICES ASSUME Init PROVE Inv
  OBVIOUS
<1>1. TypeOK
  BY DEF Init, TypeOK, ObjectType, Idle, InCall, ChildPlaces
<1>2. ASSUME NEW o \in Objects PROVE Good(o, obj[o])
  <2>1. obj[o] \in ObjectType
    BY <1>1 DEF TypeOK
  <2>2. QED
    BY <2>1 DEF Init, Good, Semaphore, Published, Undisturbed, Before, InLoop, After
<1>3. QED
  BY <1>1, <1>2 DEF Inv

(* It is enough to look at the object that a step is about.                 *)
LEMMA OneObjectChanges ==
  ASSUME Inv, NEW o \in Objects, NEW x, Good(o, x),
         obj' = [obj EXCEPT ![o] = x]
  PROVE  Inv'
BY DEF Inv, TypeOK, Good

(* The owner's calls, and the wakeups of its wait.                          *)
LEMMA OwnerInv ==
  ASSUME Inv, NEW o \in Objects, OwnerStep(o) \/ Destroy(o) \/ SpuriousWakeup(o)
  PROVE  Inv'
<1> DEFINE x == obj[o]
<1>1. Good(o, x) /\ obj \in [Objects -> ObjectType]
  BY DEF Inv, TypeOK, Good
<1>2. SUFFICES \E y : Good(o, y) /\ obj' = [obj EXCEPT ![o] = y]
  BY OneObjectChanges
<1> USE DEF Good, ObjectType, Idle, InCall, ChildPlaces, Semaphore, Published,
            Undisturbed, Before, InLoop, After
<1>3. CASE Start(o)
  <2> DEFINE y == [x EXCEPT !.owner = "semWait", !.child = "born", !.sem = 0,
                            !.semAlive = TRUE]
  <2>1. obj' = [obj EXCEPT ![o] = y]
    BY <1>1, <1>3 DEF Start
  <2>2. Good(o, y)
    BY <1>1, <1>3 DEF Start
  <2>3. QED
    BY <2>1, <2>2
<1>4. CASE SemWait(o)
  <2> DEFINE y == [x EXCEPT !.owner = "semDestroy", !.sem = x.sem - 1]
  <2>1. obj' = [obj EXCEPT ![o] = y]
    BY <1>1, <1>4 DEF SemWait
  <2>2. Good(o, y)
    BY <1>1, <1>4 DEF SemWait
  <2>3. QED
    BY <2>1, <2>2
<1>5. CASE SemDestroy(o)
  <2> DEFINE y == [x EXCEPT !.owner = "check", !.semAlive = FALSE]
  <2>1. obj' = [obj EXCEPT ![o] = y]
    BY <1>1, <1>5 DEF SemDestroy
  <2>2. Good(o, y)
    BY <1>1, <1>5 DEF SemDestroy
  <2>3. QED
    BY <2>1, <2>2
<1>6. CASE CheckLoop(o)
  <2> DEFINE y == [x EXCEPT !.owner = IF x.loop = "loop" THEN "running" ELSE "blocked"]
  <2>1. obj' = [obj EXCEPT ![o] = y]
    BY <1>1, <1>6 DEF CheckLoop, OwnerGoto
  <2>2. Good(o, y)
    BY <1>1, <1>6 DEF CheckLoop, OwnerGoto
  <2>3. QED
    BY <2>1, <2>2, ZenonT(30)
<1>7. CASE QuitLoop(o)
  <2>1. CASE x.alive /\ obj' = [obj EXCEPT ![o].owner = "joining", ![o].quit = TRUE]
    <3> DEFINE y == [x EXCEPT !.owner = "joining", !.quit = TRUE]
    <3>1. obj' = [obj EXCEPT ![o] = y]
      BY <1>1, <2>1
    <3>2. Good(o, y)
      BY <1>1, <1>7, <2>1 DEF QuitLoop
    <3>3. QED
      BY <3>1, <3>2
  <2>2. CASE (x.loop = "null" \/ ~x.alive) /\ obj' = [obj EXCEPT ![o].owner = "crashed"]
    <3> DEFINE y == [x EXCEPT !.owner = "crashed"]
    <3>1. obj' = [obj EXCEPT ![o] = y]
      BY <1>1, <2>2
    <3>2. Good(o, y)
      BY <1>1, <1>7, <2>2 DEF QuitLoop
    <3>3. QED
      BY <3>1, <3>2
  <2>3. QED
    BY <1>7, <2>1, <2>2 DEF QuitLoop
<1>8. CASE Join(o)
  <2> DEFINE y == [x EXCEPT !.owner = "destroyed"]
  <2>1. obj' = [obj EXCEPT ![o] = y]
    BY <1>1, <1>8 DEF Join, OwnerGoto
  <2>2. Good(o, y)
    BY <1>1, <1>8 DEF Join, OwnerGoto
  <2>3. QED
    BY <2>1, <2>2
<1>9. CASE Destroy(o)
  <2> DEFINE y == [x EXCEPT !.owner = IF x.loop = "loop" THEN "quitting" ELSE "destroyed"]
  <2>1. obj' = [obj EXCEPT ![o] = y]
    BY <1>1, <1>9 DEF Destroy, Call, OwnerGoto
  <2>2. Good(o, y)
    BY <1>1, <1>9 DEF Destroy, Call, OwnerGoto
  <2>3. QED
    BY <2>1, <2>2, ZenonT(30)
<1>10. CASE SpuriousWakeup(o)
  <2> DEFINE y == [x EXCEPT !.owner = "check"]
  <2>1. obj' = [obj EXCEPT ![o] = y]
    BY <1>1, <1>10 DEF SpuriousWakeup, OwnerGoto
  <2>2. Good(o, y)
    BY <1>1, <1>10 DEF SpuriousWakeup, OwnerGoto
  <2>3. QED
    BY <2>1, <2>2
<1>11. QED
  BY <1>3, <1>4, <1>5, <1>6, <1>7, <1>8, <1>9, <1>10 DEF OwnerStep

(* The child's steps, and a quit() by user code.                            *)
LEMMA ChildInv ==
  ASSUME Inv, NEW o \in Objects, ChildStep(o) \/ QuitEarly(o)
  PROVE  Inv'
<1> DEFINE x == obj[o]
<1>1. Good(o, x) /\ obj \in [Objects -> ObjectType]
  BY DEF Inv, TypeOK, Good
<1>2. SUFFICES \E y : Good(o, y) /\ obj' = [obj EXCEPT ![o] = y]
  BY OneObjectChanges
<1> USE DEF Good, ObjectType, Idle, InCall, ChildPlaces, Semaphore, Published,
            Undisturbed, Before, InLoop, After
<1>3. CASE SemPost(o)
  <2> DEFINE y == [x EXCEPT !.child = "posted", !.sem = x.sem + 1]
  <2>1. obj' = [obj EXCEPT ![o] = y]
    BY <1>1, <1>3 DEF SemPost
  <2>2. Good(o, y)
    BY <1>1, <1>3 DEF SemPost
  <2>3. QED
    BY <2>1, <2>2
<1>4. CASE ConstructLoop(o)
  <2> DEFINE y == [x EXCEPT !.child = "callback", !.alive = TRUE, !.quit = FALSE]
  <2>1. obj' = [obj EXCEPT ![o] = y]
    BY <1>1, <1>4 DEF ConstructLoop
  <2>2. Good(o, y)
    BY <1>1, <1>4 DEF ConstructLoop
  <2>3. QED
    BY <2>1, <2>2
<1>5. CASE InitCallback(o)
  <2>1. PICK quit \in {q \in BOOLEAN : q => o \in EarlyQuit} :
          obj' = [obj EXCEPT ![o].child = "publish", ![o].quit = quit]
    BY <1>5 DEF InitCallback
  <2>2. quit \in BOOLEAN /\ (o \in OwnObjects => quit = FALSE)
    BY DEF OwnObjects
  <2> DEFINE y == [x EXCEPT !.child = "publish", !.quit = quit]
  <2>3. obj' = [obj EXCEPT ![o] = y]
    BY <1>1, <2>1
  <2>4. Good(o, y)
    BY <1>1, <1>5, <2>2 DEF InitCallback
  <2>5. QED
    BY <2>3, <2>4
<1>6. CASE Publish(o)
  <2> DEFINE y == [x EXCEPT !.child = "enter", !.loop = "loop",
                            !.owner = IF x.owner = "blocked" THEN "check" ELSE x.owner]
  <2>1. obj' = [obj EXCEPT ![o] = y]
    BY <1>1, <1>6 DEF Publish
  <2>2. Good(o, y)
    BY <1>1, <1>6 DEF Publish
  <2>3. QED
    BY <2>1, <2>2, ZenonT(30)
<1>7. CASE EnterLoop(o)
  <2> DEFINE y == [x EXCEPT !.child = "while", !.quit = FALSE]
  <2>1. obj' = [obj EXCEPT ![o] = y]
    BY <1>1, <1>7 DEF EnterLoop
  <2>2. Good(o, y)
    BY <1>1, <1>7 DEF EnterLoop
  <2>3. QED
    BY <2>1, <2>2
<1>8. CASE TestQuit(o)
  <2> DEFINE y == [x EXCEPT !.child = IF x.quit THEN "exit" ELSE "poll"]
  <2>1. obj' = [obj EXCEPT ![o] = y]
    BY <1>1, <1>8 DEF TestQuit, ChildGoto
  <2>2. Good(o, y)
    BY <1>1, <1>8 DEF TestQuit, ChildGoto
  <2>3. QED
    BY <2>1, <2>2, ZenonT(30)
<1>9. CASE Iterate(o)
  <2> DEFINE y == [x EXCEPT !.child = "while"]
  <2>1. obj' = [obj EXCEPT ![o] = y]
    BY <1>1, <1>9 DEF Iterate, ChildGoto
  <2>2. Good(o, y)
    BY <1>1, <1>9 DEF Iterate, ChildGoto
  <2>3. QED
    BY <2>1, <2>2
<1>10. CASE Unpublish(o)
  <2> DEFINE y == [x EXCEPT !.child = "unlock", !.loop = "null", !.mutex = "child"]
  <2>1. obj' = [obj EXCEPT ![o] = y]
    BY <1>1, <1>10 DEF Unpublish
  <2>2. Good(o, y)
    BY <1>1, <1>10 DEF Unpublish
  <2>3. QED
    BY <2>1, <2>2
<1>11. CASE Unlock(o)
  <2> DEFINE y == [x EXCEPT !.child = "unwind", !.mutex = "free"]
  <2>1. obj' = [obj EXCEPT ![o] = y]
    BY <1>1, <1>11 DEF Unlock
  <2>2. Good(o, y)
    BY <1>1, <1>11 DEF Unlock
  <2>3. QED
    BY <2>1, <2>2
<1>12. CASE DestructLoop(o)
  <2> DEFINE y == [x EXCEPT !.child = "dead", !.alive = FALSE]
  <2>1. obj' = [obj EXCEPT ![o] = y]
    BY <1>1, <1>12 DEF DestructLoop
  <2>2. Good(o, y)
    BY <1>1, <1>12 DEF DestructLoop
  <2>3. QED
    BY <2>1, <2>2
<1>13. CASE QuitEarly(o)
  <2> DEFINE y == [x EXCEPT !.quit = TRUE]
  <2>1. obj' = [obj EXCEPT ![o] = y]
    BY <1>1, <1>13 DEF QuitEarly, OwnObjects
  <2>2. Good(o, y)
    BY <1>1, <1>13 DEF QuitEarly, OwnObjects
  <2>3. QED
    BY <2>1, <2>2
<1>14. QED
  BY <1>3, <1>4, <1>5, <1>6, <1>7, <1>8, <1>9, <1>10, <1>11, <1>12, <1>13 DEF ChildStep

(* Every step is one of one object, by its owner or by its child.           *)
THEOREM Invariance == Spec => []Inv
<1>1. Inv /\ [Next]_obj => Inv'
  <2> SUFFICES ASSUME Inv, [Next]_obj PROVE Inv'
    OBVIOUS
  <2>1. CASE UNCHANGED obj
    BY <2>1 DEF Inv, TypeOK, Good
  <2>2. CASE Next
    BY <2>2, OwnerInv, ChildInv DEF Next
  <2>3. QED
    BY <2>1, <2>2
<1>2. QED
  BY InitInv, <1>1, PTL DEF Spec

(* Every object is what its type says: sem_ is never negative.              *)
THEOREM TypesAreCorrect == Spec => []TypeOK
BY Invariance, PTL DEF Inv

(* Thread.cpp:23: sem_ exists when the child posts it, for the owner cannot *)
(* leave the wait before.                                                   *)
THEOREM SemaphoreIsThere == Spec => []SemaphoreOutlivesPost
<1>1. Inv => SemaphoreOutlivesPost
  BY DEF Inv, Good, Semaphore, SemaphoreOutlivesPost
<1>2. QED
  BY Invariance, <1>1, PTL

(* ~EventLoopThread(): no child of a destroyed object uses its members,     *)
(* unless somebody else has quit the loop.                                  *)
THEOREM NoChildIsLeft == Spec => []ChildDoesNotOutliveObject
<1>1. Inv => ChildDoesNotOutliveObject
  BY DEF Inv, Good, Undisturbed, ChildDoesNotOutliveObject, OwnObjects
<1>2. QED
  BY Invariance, <1>1, PTL

(* threadFunc() and ~EventLoopThread(): loop_ never dangles; it is there    *)
(* for the owner from startLoop() to the destructor's quit(), unless        *)
(* somebody else has quit the loop.                                         *)
THEOREM LoopPointerIsValid == Spec => []LoopPointerValid
<1>1. ASSUME Inv, NEW o \in Objects, obj[o].loop = "loop" PROVE obj[o].alive
  BY <1>1 DEF Inv, Good, Published, InLoop, Before
<1>2. ASSUME Inv, NEW o \in OwnObjects
      PROVE  obj[o].owner # "crashed" /\ (obj[o].owner = "running" => obj[o].alive)
  BY <1>2 DEF Inv, Good, Published, Undisturbed, InLoop, Before, OwnObjects
<1>3. Inv => LoopPointerValid
  BY <1>1, <1>2 DEF LoopPointerValid
<1>4. QED
  BY Invariance, <1>3, PTL
==============================================================================
