-------------------------------- MODULE Buffer --------------------------------
(***************************************************************************)
(* Buffer.h and Buffer.cpp: the byte buffer in front of and behind every   *)
(* connection.  buffer_ is one array: kCheapPrepend bytes or more that are *)
(* free, the readable bytes, the writable bytes.  Indices count from 0 as  *)
(* in the code, so byte i of the array is mem[i + 1].                      *)
(***************************************************************************)
EXTENDS Naturals, Sequences

CONSTANTS Bytes,         \* values of a byte
          Zero,          \* the value resize() fills with
          CheapPrepend,  \* kCheapPrepend
          InitialSize,   \* initialSize
          ExtraBuf,      \* sizeof extrabuf
          MaxChunk,      \* bound: bytes of one append or one readv
          MaxReadable    \* bound: readable bytes

ASSUME ConstantsAssumption ==
  /\ Zero \in Bytes
  /\ CheapPrepend \in Nat
  /\ InitialSize \in Nat
  /\ ExtraBuf \in Nat
  /\ MaxChunk \in Nat
  /\ MaxReadable \in Nat

VARIABLES buf,     \* buffer_ (mem), readerIndex_ (r) and writerIndex_ (w)
          put,     \* history: the bytes the last operation put in
          taken    \* history: the bytes the last operation took out

vars == <<buf, put, taken>>

Chunks == UNION {[1..n -> Bytes] : n \in 0..MaxChunk}

TypeOK ==
  /\ buf \in [mem : Seq(Bytes), r : Nat, w : Nat]
  /\ CheapPrepend <= buf.r
  /\ buf.r <= buf.w
  /\ buf.w <= Len(buf.mem)
  /\ put \in Seq(Bytes)
  /\ taken \in Seq(Bytes)

Init ==
  /\ buf = [mem |-> [i \in 1..(CheapPrepend + InitialSize) |-> Zero],
            r |-> CheapPrepend, w |-> CheapPrepend]
  /\ put = <<>>
  /\ taken = <<>>

------------------------------------------------------------------------------
(* The methods, as functions of a buffer.                                   *)

ReadableBytes(b)    == b.w - b.r
WritableBytes(b)    == Len(b.mem) - b.w
PrependableBytes(b) == b.r

Readable(b) == SubSeq(b.mem, b.r + 1, b.w)

(* std::copy(data, data + len, begin() + at), within the array.             *)
CopyTo(mem, at, data) ==
  [i \in 1..Len(mem) |-> IF i \in (at + 1)..(at + Len(data)) THEN data[i - at] ELSE mem[i]]

Resize(mem, size) ==
  [i \in 1..size |-> IF i <= Len(mem) THEN mem[i] ELSE Zero]

RetrieveAll(b) == [b EXCEPT !.r = CheapPrepend, !.w = CheapPrepend]

Retrieve(b, len) ==
  IF len < ReadableBytes(b) THEN [b EXCEPT !.r = @ + len] ELSE RetrieveAll(b)

(* Mutation: the indices move and the bytes stay.                           *)
MakeSpaceWithoutCopy(b, len) ==
  IF WritableBytes(b) + PrependableBytes(b) < len + CheapPrepend
  THEN [b EXCEPT !.mem = Resize(@, b.w + len)]
  ELSE [b EXCEPT !.r = CheapPrepend, !.w = CheapPrepend + ReadableBytes(b)]

(* Mutation: the free space before the readable bytes is not used.          *)
MakeSpaceByGrowing(b, len) == [b EXCEPT !.mem = Resize(@, b.w + len)]

MakeSpace(b, len) ==
  IF WritableBytes(b) + PrependableBytes(b) < len + CheapPrepend
  THEN [b EXCEPT !.mem = Resize(@, b.w + len)]
  ELSE [mem |-> CopyTo(b.mem, CheapPrepend, Readable(b)),
        r |-> CheapPrepend, w |-> CheapPrepend + ReadableBytes(b)]

EnsureWriteableBytes(b, len) ==
  IF WritableBytes(b) < len THEN MakeSpace(b, len) ELSE b

AppendTo(b, data) ==
  LET c == EnsureWriteableBytes(b, Len(data))
  IN  [c EXCEPT !.mem = CopyTo(@, c.w, data), !.w = @ + Len(data)]

(* Mutation: what readv put into extrabuf is only counted.                  *)
FillUncopied(b, data) ==
  [b EXCEPT !.mem = CopyTo(@, b.w, data), !.w = @ + Len(data)]

(* readFd, once readv has delivered data: first into the writable bytes,    *)
(* the rest into extrabuf, from where it is appended.                       *)
Fill(b, data) ==
  LET writeable == WritableBytes(b)
  IN  IF Len(data) <= writeable
      THEN [b EXCEPT !.mem = CopyTo(@, b.w, data), !.w = @ + Len(data)]
      ELSE AppendTo([b EXCEPT !.mem = CopyTo(@, b.w, SubSeq(data, 1, writeable)),
                                 !.w = Len(b.mem)],
                       SubSeq(data, writeable + 1, Len(data)))

(* The most that readv may deliver: extrabuf is offered only if the buffer  *)
(* has less room than extrabuf.                                             *)
ReadvRoom(b) ==
  WritableBytes(b) + (IF WritableBytes(b) < ExtraBuf THEN ExtraBuf ELSE 0)

------------------------------------------------------------------------------
(* The operations of a connection on its buffers.                           *)

AppendData(data) ==
  /\ ReadableBytes(buf) + Len(data) <= MaxReadable
  /\ buf' = AppendTo(buf, data)
  /\ put' = data
  /\ taken' = <<>>

(* readv may also fail; then nothing changes.                               *)
ReadFd(data) ==
  /\ ReadableBytes(buf) + Len(data) <= MaxReadable
  /\ Len(data) <= ReadvRoom(buf)
  /\ buf' = Fill(buf, data)
  /\ put' = data
  /\ taken' = <<>>

(* retrieveAsString; what writeFd wrote is retrieved in the same way.  That *)
(* no more is taken than is readable is the caller's precondition: the      *)
(* method does not test it.                                                 *)
RetrieveAsString(len) ==
  /\ len <= ReadableBytes(buf)
  /\ taken' = SubSeq(buf.mem, buf.r + 1, buf.r + len)
  /\ put' = <<>>
  /\ buf' = Retrieve(buf, len)

Next ==
  \/ \E data \in Chunks : AppendData(data) \/ ReadFd(data)
  \/ \E len \in 0..MaxReadable : RetrieveAsString(len)

Spec == Init /\ [][Next]_vars

------------------------------------------------------------------------------
(* Properties.                                                              *)

(* append, readFd, makeSpace and retrieve: whatever is copied, moved or     *)
(* overwritten in the array, the readable bytes are a FIFO queue.           *)
Queue == INSTANCE ByteQueue WITH queue <- Readable(buf)

QueueRefined == Queue!Spec

(* makeSpace: the array grows only when the readable and the new bytes do   *)
(* not fit, so its size follows the largest content ever held and not the   *)
(* amount of traffic.                                                       *)
SizeIsBounded ==
  \/ Len(buf.mem) = CheapPrepend + InitialSize
  \/ Len(buf.mem) < CheapPrepend + MaxReadable + MaxChunk
===============================================================================
