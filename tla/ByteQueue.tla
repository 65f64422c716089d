------------------------------ MODULE ByteQueue ------------------------------
(***************************************************************************)
(* What a Buffer promises: bytes come out in the order in which they were  *)
(* put in, none lost, none twice, and none that was never put in.          *)
(***************************************************************************)
EXTENDS Naturals, Sequences

CONSTANT Bytes

VARIABLES queue,   \* the bytes put in and not yet taken
          put,     \* the bytes the last operation put in
          taken    \* the bytes the last operation took out

vars == <<queue, put, taken>>

Init == queue = <<>> /\ put = <<>> /\ taken = <<>>

Put ==
  /\ put' \in Seq(Bytes)
  /\ queue' = queue \o put'
  /\ taken' = <<>>

Take(n) ==
  /\ taken' = SubSeq(queue, 1, n)
  /\ queue' = SubSeq(queue, n + 1, Len(queue))
  /\ put' = <<>>

Next == Put \/ \E n \in 0..Len(queue) : Take(n)

Spec == Init /\ [][Next]_vars
==============================================================================
