------------------------------ MODULE TaskQueue ------------------------------
(***************************************************************************)
(* What EventLoop::queueInLoop promises, with the loop taken away: functors *)
(* submitted by any thread form one line; the loop takes them from its     *)
(* front, so each runs at most once, none is lost, and they run in the     *)
(* order in which they were submitted.                                     *)
(***************************************************************************)
EXTENDS Sequences

CONSTANT Tasks    \* the functors that may be submitted

VARIABLES todo,   \* submitted and not yet started, in submission order
          done    \* started, in the order in which they were started

vars == <<todo, done>>

Init == todo = <<>> /\ done = <<>>

Submit(task) ==
  /\ todo' = Append(todo, task)
  /\ UNCHANGED done

RunFirst ==
  /\ todo # <<>>
  /\ todo' = Tail(todo)
  /\ done' = Append(done, Head(todo))

Next == RunFirst \/ \E task \in Tasks : Submit(task)

Spec == Init /\ [][Next]_vars
==============================================================================
