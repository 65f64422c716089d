----------------------------- MODULE BufferProofs -----------------------------
(***************************************************************************)
(* Theorems about Buffer, for any bytes, any sizes and any chunks.         *)
(*                                                                         *)
(* Every method is first described by what it does to the readable bytes:  *)
(* Write appends to them, makeSpace leaves them alone wherever it puts     *)
(* them, retrieve drops them from the front.  The operations are made of   *)
(* these, and so each is one of ByteQueue.                                 *)
(***************************************************************************)
EXTENDS Buffer, SequenceTheorems, TLAPS

Shape(b) ==
  /\ b \in [mem : Seq(Bytes), r : Nat, w : Nat]
  /\ CheapPrepend <= b.r
  /\ b.r <= b.w
  /\ b.w <= Len(b.mem)

------------------------------------------------------------------------------
(* The pieces of the methods.                                               *)

(* peek() and readableBytes().                                              *)
LEMMA ReadableFacts ==
  ASSUME NEW b, Shape(b)
  PROVE  /\ Readable(b) \in Seq(Bytes) /\ Len(Readable(b)) = b.w - b.r
         /\ \A i \in 1..(b.w - b.r) : Readable(b)[i] = b.mem[b.r + i]
<1>1. b.mem \in Seq(Bytes) /\ b.r \in Nat /\ b.w \in Nat /\ b.r <= b.w /\ b.w <= Len(b.mem)
  BY DEF Shape
<1>2. \A i \in (b.r + 1)..b.w : b.mem[i] \in Bytes
  BY <1>1, LenProperties
<1>3. /\ SubSeq(b.mem, b.r + 1, b.w) \in Seq(Bytes)
      /\ Len(SubSeq(b.mem, b.r + 1, b.w)) = b.w - b.r
      /\ \A i \in 1..(b.w - b.r) : SubSeq(b.mem, b.r + 1, b.w)[i] = b.mem[b.r + i]
  BY <1>1, <1>2, SubSeqProperties, SMTT(30)
<1>4. QED
  BY <1>3 DEF Readable

(* std::copy within the array.                                              *)
LEMMA CopyToFacts ==
  ASSUME NEW mem \in Seq(Bytes), NEW at \in Nat, NEW data \in Seq(Bytes)
  PROVE  /\ CopyTo(mem, at, data) \in Seq(Bytes)
         /\ Len(CopyTo(mem, at, data)) = Len(mem)
         /\ \A i \in 1..Len(mem) :
              CopyTo(mem, at, data)[i] =
                IF i \in (at + 1)..(at + Len(data)) THEN data[i - at] ELSE mem[i]
<1>1. Len(mem) \in Nat /\ Len(data) \in Nat
      /\ (\A i \in 1..Len(mem) : mem[i] \in Bytes) /\ (\A i \in 1..Len(data) : data[i] \in Bytes)
  BY LenProperties
<1>2. \A i \in 1..Len(mem) :
        (IF i \in (at + 1)..(at + Len(data)) THEN data[i - at] ELSE mem[i]) \in Bytes
  BY <1>1
<1>3. QED
  BY <1>1, <1>2 DEF CopyTo

(* vector::resize.                                                          *)
LEMMA ResizeFacts ==
  ASSUME NEW mem \in Seq(Bytes), NEW size \in Nat
  PROVE  /\ Resize(mem, size) \in Seq(Bytes)
         /\ Len(Resize(mem, size)) = size
         /\ \A i \in 1..size : i <= Len(mem) => Resize(mem, size)[i] = mem[i]
<1>1. Len(mem) \in Nat /\ \A i \in 1..Len(mem) : mem[i] \in Bytes
  BY LenProperties
<1>2. \A i \in 1..size : (IF i <= Len(mem) THEN mem[i] ELSE Zero) \in Bytes
  BY <1>1, ConstantsAssumption
<1>3. QED
  BY <1>1, <1>2 DEF Resize

(* What is copied behind the readable bytes, where there is room for it, is *)
(* readable after them.                                                     *)
LEMMA WriteFacts ==
  ASSUME NEW b, Shape(b), NEW data \in Seq(Bytes), b.w + Len(data) <= Len(b.mem),
         NEW c, c = [b EXCEPT !.mem = CopyTo(b.mem, b.w, data), !.w = b.w + Len(data)]
  PROVE  /\ Shape(c) /\ Readable(c) = Readable(b) \o data
         /\ Len(c.mem) = Len(b.mem) /\ c.r = b.r /\ c.w = b.w + Len(data)
<1> DEFINE n == b.w - b.r
           m == Len(data)
           copy == CopyTo(b.mem, b.w, data)
<1>1. /\ b \in [mem : Seq(Bytes), r : Nat, w : Nat]
      /\ b.mem \in Seq(Bytes) /\ b.r \in Nat /\ b.w \in Nat
      /\ CheapPrepend <= b.r /\ b.r <= b.w /\ b.w <= Len(b.mem)
  BY DEF Shape
<1>2. m \in Nat /\ n \in Nat /\ Len(b.mem) \in Nat
  BY <1>1, LenProperties
<1>3. /\ copy \in Seq(Bytes) /\ Len(copy) = Len(b.mem)
      /\ \A i \in 1..Len(b.mem) :
           copy[i] = IF i \in (b.w + 1)..(b.w + m) THEN data[i - b.w] ELSE b.mem[i]
  BY <1>1, CopyToFacts
<1> HIDE DEF copy
<1>4. c.mem = copy /\ c.r = b.r /\ c.w = b.w + m
  BY <1>1 DEF copy
<1>5. c \in [mem : Seq(Bytes), r : Nat, w : Nat]
  <2>1. c = [mem |-> copy, r |-> b.r, w |-> b.w + m]
    BY <1>1 DEF copy
  <2>2. QED
    BY <1>1, <1>2, <1>3, <2>1
<1>6. Shape(c)
  BY <1>1, <1>2, <1>3, <1>4, <1>5, ConstantsAssumption DEF Shape
<1>7. /\ Readable(b) \in Seq(Bytes) /\ Len(Readable(b)) = n
      /\ \A i \in 1..n : Readable(b)[i] = b.mem[b.r + i]
  BY ReadableFacts
<1>8. /\ Readable(c) \in Seq(Bytes) /\ Len(Readable(c)) = n + m
      /\ \A i \in 1..(n + m) : Readable(c)[i] = copy[b.r + i]
  <2>1. /\ Readable(c) \in Seq(Bytes) /\ Len(Readable(c)) = c.w - c.r
        /\ \A i \in 1..(c.w - c.r) : Readable(c)[i] = c.mem[c.r + i]
    BY <1>6, ReadableFacts
  <2>2. c.w - c.r = n + m
    BY <1>1, <1>2, <1>4
  <2>3. QED
    BY <1>4, <2>1, <2>2
<1>9. ASSUME NEW s \in Seq(Bytes), Len(s) = n
      PROVE  /\ s \o data \in Seq(Bytes) /\ Len(s \o data) = n + m
             /\ \A i \in 1..(n + m) : (s \o data)[i] = IF i <= n THEN s[i] ELSE data[i - n]
  BY <1>9, ConcatProperties
<1>10. ASSUME NEW i \in 1..(n + m) PROVE Readable(c)[i] = (Readable(b) \o data)[i]
  <2>1. Readable(c)[i] = copy[b.r + i] /\ b.r + i \in 1..Len(b.mem)
    BY <1>1, <1>2, <1>8
  <2>2. (Readable(b) \o data)[i] = IF i <= n THEN Readable(b)[i] ELSE data[i - n]
    BY <1>7, <1>9
  <2>3. CASE i <= n
    <3>1. b.r + i \notin (b.w + 1)..(b.w + m) /\ i \in 1..n
      BY <1>1, <1>2, <2>3
    <3>2. copy[b.r + i] = b.mem[b.r + i]
      BY <1>3, <2>1, <3>1
    <3>3. QED
      BY <1>7, <2>1, <2>2, <2>3, <3>1, <3>2
  <2>4. CASE i > n
    <3>1. b.r + i \in (b.w + 1)..(b.w + m) /\ (b.r + i) - b.w = i - n /\ ~(i <= n)
      BY <1>1, <1>2, <2>4
    <3>2. copy[b.r + i] = data[(b.r + i) - b.w]
      BY <1>3, <2>1, <3>1
    <3>3. QED
      BY <2>1, <2>2, <3>1, <3>2
  <2>5. i \in Nat /\ n \in Nat
    BY <1>2
  <2>6. i <= n \/ i > n
    BY ONLY <2>5
  <2>7. QED
    BY <2>3, <2>4, <2>6
<1>11. Readable(c) = Readable(b) \o data
  <2>1. Readable(b) \o data \in Seq(Bytes) /\ Len(Readable(b) \o data) = n + m
    BY <1>7, <1>9
  <2> DEFINE s == Readable(c)
             t == Readable(b) \o data
  <2>2. s \in Seq(Bytes) /\ t \in Seq(Bytes) /\ Len(s) = Len(t)
        /\ \A i \in 1..Len(s) : s[i] = t[i]
    BY <1>8, <1>10, <2>1
  <2> HIDE DEF s, t
  <2>3. s = t
    BY ONLY <2>2, SeqEqual
  <2>4. QED
    BY <2>3 DEF s, t
<1>12. QED
  BY <1>3, <1>4, <1>6, <1>11

(* makeSpace, by growing or by moving the readable bytes to the front: they *)
(* stay what they are, and there is room behind them.                       *)
LEMMA EnsureFacts ==
  ASSUME NEW b, Shape(b), NEW len \in Nat,
         NEW c, c = EnsureWriteableBytes(b, len)
  PROVE  /\ Shape(c) /\ Readable(c) = Readable(b)
         /\ c.w + len <= Len(c.mem) /\ c.w - c.r = b.w - b.r
         /\ \/ Len(c.mem) = Len(b.mem)
            \/ Len(c.mem) < (b.w - b.r) + len + CheapPrepend + len
<1>1. /\ b \in [mem : Seq(Bytes), r : Nat, w : Nat]
      /\ b.mem \in Seq(Bytes) /\ b.r \in Nat /\ b.w \in Nat /\ Len(b.mem) \in Nat
      /\ CheapPrepend <= b.r /\ b.r <= b.w /\ b.w <= Len(b.mem) /\ CheapPrepend \in Nat
  BY LenProperties, ConstantsAssumption DEF Shape
<1> DEFINE n == b.w - b.r
<1>2. /\ Readable(b) \in Seq(Bytes) /\ Len(Readable(b)) = n /\ n \in Nat
      /\ \A i \in 1..n : Readable(b)[i] = b.mem[b.r + i]
  BY <1>1, ReadableFacts
<1>3. ASSUME NEW s \in Seq(Bytes), NEW t \in Seq(Bytes), Len(s) = Len(t),
             \A i \in 1..Len(s) : s[i] = t[i]
      PROVE  s = t
  BY ONLY <1>3, SeqEqual
<1>4. ASSUME Shape(c), c.w - c.r = n, \A i \in 1..n : c.mem[c.r + i] = b.mem[b.r + i]
      PROVE  Readable(c) = Readable(b)
  <2>1. /\ Readable(c) \in Seq(Bytes) /\ Len(Readable(c)) = c.w - c.r
        /\ \A i \in 1..(c.w - c.r) : Readable(c)[i] = c.mem[c.r + i]
    BY <1>4, ReadableFacts
  <2>2. Len(Readable(c)) = n /\ \A i \in 1..n : Readable(c)[i] = Readable(b)[i]
    BY <1>2, <1>4, <2>1
  <2>3. QED
    BY <1>2, <1>3, <2>1, <2>2
<1>5. CASE WritableBytes(b) >= len
  <2>1. c = b
    BY <1>1, <1>5 DEF EnsureWriteableBytes, WritableBytes
  <2>2. QED
    BY <1>1, <1>5, <2>1 DEF WritableBytes
<1>6. CASE WritableBytes(b) < len /\ WritableBytes(b) + PrependableBytes(b) < len + CheapPrepend
  <2> DEFINE grown == Resize(b.mem, b.w + len)
  <2>1. /\ grown \in Seq(Bytes) /\ Len(grown) = b.w + len
        /\ \A i \in 1..(b.w + len) : i <= Len(b.mem) => grown[i] = b.mem[i]
    <3>1. b.w + len \in Nat
      BY <1>1
    <3>2. ASSUME NEW size \in Nat
          PROVE  /\ Resize(b.mem, size) \in Seq(Bytes) /\ Len(Resize(b.mem, size)) = size
                 /\ \A i \in 1..size : i <= Len(b.mem) => Resize(b.mem, size)[i] = b.mem[i]
      BY <1>1, ResizeFacts
    <3>3. QED
      BY <3>1, <3>2
  <2>2. c = [b EXCEPT !.mem = grown]
    BY <1>6 DEF EnsureWriteableBytes, MakeSpace
  <2> HIDE DEF grown
  <2>3. c = [mem |-> grown, r |-> b.r, w |-> b.w]
    BY <1>1, <2>2
  <2>4. c.mem = grown /\ c.r = b.r /\ c.w = b.w
    BY <2>3
  <2>5. Shape(c)
    BY <1>1, <2>1, <2>3, <2>4 DEF Shape
  <2>6. \A i \in 1..n : c.mem[c.r + i] = b.mem[b.r + i]
    BY <1>1, <2>1, <2>4
  <2>7. b.w + len < n + len + CheapPrepend + len
    BY <1>1, <1>6 DEF WritableBytes, PrependableBytes
  <2>8. QED
    BY <1>1, <1>4, <2>1, <2>4, <2>5, <2>6, <2>7
<1>7. CASE WritableBytes(b) < len /\ ~(WritableBytes(b) + PrependableBytes(b) < len + CheapPrepend)
  <2> DEFINE moved == CopyTo(b.mem, CheapPrepend, Readable(b))
  <2>1. /\ moved \in Seq(Bytes) /\ Len(moved) = Len(b.mem)
        /\ \A i \in 1..Len(b.mem) :
             moved[i] = IF i \in (CheapPrepend + 1)..(CheapPrepend + n)
                        THEN Readable(b)[i - CheapPrepend] ELSE b.mem[i]
    <3>1. ASSUME NEW s \in Seq(Bytes), Len(s) = n
          PROVE  /\ CopyTo(b.mem, CheapPrepend, s) \in Seq(Bytes)
                 /\ Len(CopyTo(b.mem, CheapPrepend, s)) = Len(b.mem)
                 /\ \A i \in 1..Len(b.mem) :
                      CopyTo(b.mem, CheapPrepend, s)[i] =
                        IF i \in (CheapPrepend + 1)..(CheapPrepend + n)
                        THEN s[i - CheapPrepend] ELSE b.mem[i]
      BY <1>1, <3>1, CopyToFacts
    <3>2. QED
      BY <1>2, <3>1
  <2>2. c = [mem |-> moved, r |-> CheapPrepend, w |-> CheapPrepend + n]
    BY <1>7 DEF EnsureWriteableBytes, MakeSpace, ReadableBytes
  <2> HIDE DEF moved
  <2>3. c.mem = moved /\ c.r = CheapPrepend /\ c.w = CheapPrepend + n
    BY <2>2
  <2>4. CheapPrepend + n + len <= Len(b.mem)
    BY <1>1, <1>7 DEF WritableBytes, PrependableBytes
  <2>5. Shape(c)
    BY <1>1, <1>2, <2>1, <2>2, <2>3, <2>4 DEF Shape
  <2>6. ASSUME NEW i \in 1..n PROVE c.mem[c.r + i] = b.mem[b.r + i]
    <3>1. CheapPrepend + i \in 1..Len(b.mem)
          /\ CheapPrepend + i \in (CheapPrepend + 1)..(CheapPrepend + n)
          /\ (CheapPrepend + i) - CheapPrepend = i
      BY <1>1, <1>2, <2>4
    <3>2. moved[CheapPrepend + i] = Readable(b)[i]
      BY <2>1, <3>1
    <3>3. QED
      BY <1>2, <2>3, <3>2
  <2>7. c.w - c.r = n
    BY <1>1, <1>2, <2>3
  <2>8. QED
    BY <1>1, <1>2, <1>4, <2>1, <2>3, <2>4, <2>5, <2>6, <2>7
<1>8. QED
  BY <1>1, <1>5, <1>6, <1>7 DEF WritableBytes

------------------------------------------------------------------------------
(* The methods.                                                             *)

(* append(): the data is readable after what was.                           *)
LEMMA AppendFacts ==
  ASSUME NEW b, Shape(b), NEW data \in Seq(Bytes)
  PROVE  /\ Shape(AppendTo(b, data))
         /\ Readable(AppendTo(b, data)) = Readable(b) \o data
         /\ LET size == Len(AppendTo(b, data).mem) IN
              \/ size = Len(b.mem)
              \/ size < (b.w - b.r) + Len(data) + CheapPrepend + Len(data)
<1> DEFINE c == EnsureWriteableBytes(b, Len(data))
           d == [c EXCEPT !.mem = CopyTo(c.mem, c.w, data), !.w = c.w + Len(data)]
<1>1. Len(data) \in Nat
  BY LenProperties
<1>2. /\ Shape(c) /\ Readable(c) = Readable(b) /\ c.w + Len(data) <= Len(c.mem)
      /\ \/ Len(c.mem) = Len(b.mem)
         \/ Len(c.mem) < (b.w - b.r) + Len(data) + CheapPrepend + Len(data)
  BY <1>1, EnsureFacts
<1>3. AppendTo(b, data) = d
  BY DEF AppendTo
<1> HIDE DEF c
<1>4. Shape(d) /\ Readable(d) = Readable(c) \o data /\ Len(d.mem) = Len(c.mem)
  BY <1>2, WriteFacts
<1> HIDE DEF d
<1>5. QED
  BY <1>2, <1>3, <1>4

(* readFd(): likewise, though the data comes in two pieces.                 *)
LEMMA FillFacts ==
  ASSUME NEW b, Shape(b), NEW data \in Seq(Bytes)
  PROVE  /\ Shape(Fill(b, data))
         /\ Readable(Fill(b, data)) = Readable(b) \o data
         /\ LET size == Len(Fill(b, data).mem) IN
              \/ size = Len(b.mem)
              \/ size < (b.w - b.r) + Len(data) + CheapPrepend + Len(data)
<1>1. /\ b \in [mem : Seq(Bytes), r : Nat, w : Nat]
      /\ b.mem \in Seq(Bytes) /\ b.r \in Nat /\ b.w \in Nat /\ Len(b.mem) \in Nat
      /\ b.r <= b.w /\ b.w <= Len(b.mem) /\ Len(data) \in Nat /\ CheapPrepend \in Nat
  BY LenProperties, ConstantsAssumption DEF Shape
<1>2. CASE Len(data) <= WritableBytes(b)
  <2> DEFINE d == [b EXCEPT !.mem = CopyTo(b.mem, b.w, data), !.w = b.w + Len(data)]
  <2>1. Fill(b, data) = d
    BY <1>2 DEF Fill
  <2>2. b.w + Len(data) <= Len(b.mem)
    BY <1>1, <1>2 DEF WritableBytes
  <2>3. Shape(d) /\ Readable(d) = Readable(b) \o data /\ Len(d.mem) = Len(b.mem)
    BY <2>2, WriteFacts
  <2> HIDE DEF d
  <2>4. QED
    BY <2>1, <2>3
<1>3. CASE Len(data) > WritableBytes(b)
  <2> DEFINE room == WritableBytes(b)
             head == SubSeq(data, 1, room)
             rest == SubSeq(data, room + 1, Len(data))
             d == [b EXCEPT !.mem = CopyTo(b.mem, b.w, head), !.w = b.w + Len(head)]
  <2>1. room \in Nat /\ room < Len(data) /\ b.w + room = Len(b.mem)
    BY <1>1, <1>3 DEF WritableBytes
  <2>2. /\ head \in Seq(Bytes) /\ Len(head) = room
        /\ rest \in Seq(Bytes) /\ Len(rest) = Len(data) - room
    <3>1. \A i \in 1..Len(data) : data[i] \in Bytes
      BY LenProperties
    <3>2. head \in Seq(Bytes) /\ Len(head) = room
      BY <1>1, <2>1, <3>1, SubSeqProperties
    <3>3. rest \in Seq(Bytes) /\ Len(rest) = Len(data) - room
      BY <1>1, <2>1, <3>1, SubSeqProperties
    <3>4. QED
      BY <3>2, <3>3
  <2>3. head \o rest = data
    <3>1. 1 \in 1..Len(data)+1 /\ room \in 1-1..Len(data) /\ Len(data) \in room..Len(data)
      BY <1>1, <2>1
    <3>2. ASSUME NEW k \in 0..Len(data)
          PROVE  SubSeq(data, 1, k) \o SubSeq(data, k + 1, Len(data)) = SubSeq(data, 1, Len(data))
      <4>1. 1 \in 1..Len(data)+1 /\ k \in 1-1..Len(data) /\ Len(data) \in k..Len(data)
        BY <1>1, <3>2
      <4>2. QED
        BY ONLY <4>1, ConcatAdjacentSubSeq, data \in Seq(Bytes)
    <3>3. SubSeq(data, 1, Len(data)) = data
      BY SubSeqFull
    <3>4. room \in 0..Len(data)
      BY <1>1, <2>1
    <3>5. QED
      BY <3>2, <3>3, <3>4
  <2>4. Fill(b, data) = AppendTo(d, rest)
    <3>1. Fill(b, data) = AppendTo([b EXCEPT !.mem = CopyTo(b.mem, b.w, head),
                                             !.w = Len(b.mem)], rest)
      BY <1>1, <1>3 DEF Fill, WritableBytes
    <3>2. b.w + Len(head) = Len(b.mem)
      BY <2>1, <2>2
    <3>3. QED
      BY <3>1, <3>2
  <2> HIDE DEF room, head, rest
  <2>5. Shape(d) /\ Readable(d) = Readable(b) \o head /\ Len(d.mem) = Len(b.mem)
        /\ d.r = b.r /\ d.w = b.w + room
    <3>1. b.w + Len(head) <= Len(b.mem)
      BY <1>1, <2>1, <2>2
    <3>2. Shape(d) /\ Readable(d) = Readable(b) \o head /\ Len(d.mem) = Len(b.mem)
          /\ d.r = b.r /\ d.w = b.w + Len(head)
      BY <2>2, <3>1, WriteFacts
    <3>3. QED
      BY <2>2, <3>2
  <2>6. /\ Shape(AppendTo(d, rest)) /\ Readable(AppendTo(d, rest)) = Readable(d) \o rest
        /\ \/ Len(AppendTo(d, rest).mem) = Len(d.mem)
           \/ Len(AppendTo(d, rest).mem) < (d.w - d.r) + Len(rest) + CheapPrepend + Len(rest)
    BY <2>2, <2>5, AppendFacts
  <2>7. (Readable(b) \o head) \o rest = Readable(b) \o (head \o rest)
    <3>1. Readable(b) \in Seq(Bytes)
      BY ReadableFacts
    <3>2. QED
      BY ONLY <2>2, <3>1, ConcatAssociative
  <2>8. Readable(AppendTo(d, rest)) = Readable(b) \o data
    BY <2>3, <2>5, <2>6, <2>7
  <2>9. ASSUME NEW x \in Nat, NEW y \in Nat, NEW l \in Nat, NEW m \in Nat,
               NEW size, size < ((x + m) - y) + (l - m) + CheapPrepend + (l - m), size \in Nat
        PROVE  size < (x - y) + l + CheapPrepend + l
    BY <1>1, <2>9
  <2>10. Len(AppendTo(d, rest).mem) \in Nat
    BY <2>6, LenProperties DEF Shape
  <2>11. \/ Len(AppendTo(d, rest).mem) = Len(b.mem)
         \/ Len(AppendTo(d, rest).mem) < (b.w - b.r) + Len(data) + CheapPrepend + Len(data)
    BY <1>1, <2>1, <2>2, <2>5, <2>6, <2>9, <2>10
  <2>12. QED
    BY <2>4, <2>6, <2>8, <2>11
<1>4. QED
  BY <1>1, <1>2, <1>3 DEF WritableBytes

(* retrieve(): the first bytes go.                                          *)
LEMMA RetrieveFacts ==
  ASSUME NEW b, Shape(b), NEW len \in Nat, len <= ReadableBytes(b)
  PROVE  /\ Shape(Retrieve(b, len)) /\ Len(Retrieve(b, len).mem) = Len(b.mem)
         /\ Readable(Retrieve(b, len)) = SubSeq(Readable(b), len + 1, Len(Readable(b)))
         /\ SubSeq(b.mem, b.r + 1, b.r + len) = SubSeq(Readable(b), 1, len)
<1> DEFINE n == b.w - b.r
           q == Readable(b)
<1>1. /\ b \in [mem : Seq(Bytes), r : Nat, w : Nat]
      /\ b.mem \in Seq(Bytes) /\ b.r \in Nat /\ b.w \in Nat /\ Len(b.mem) \in Nat
      /\ CheapPrepend <= b.r /\ b.r <= b.w /\ b.w <= Len(b.mem) /\ CheapPrepend \in Nat
      /\ n \in Nat /\ len <= n
  BY LenProperties, ConstantsAssumption DEF Shape, ReadableBytes
<1>2. /\ q \in Seq(Bytes) /\ Len(q) = n
      /\ \A i \in 1..n : q[i] = b.mem[b.r + i]
  BY ReadableFacts
<1> HIDE DEF q
<1>3. \A i \in 1..n : q[i] \in Bytes
  BY <1>2, LenProperties
<1>4. ASSUME NEW s \in Seq(Bytes), NEW t \in Seq(Bytes), Len(s) = Len(t),
             \A i \in 1..Len(s) : s[i] = t[i]
      PROVE  s = t
  BY ONLY <1>4, SeqEqual
<1>5. SubSeq(b.mem, b.r + 1, b.r + len) = SubSeq(q, 1, len)
  <2>1. \A i \in (b.r + 1)..(b.r + len) : b.mem[i] \in Bytes
    BY <1>1, LenProperties
  <2>2. /\ SubSeq(b.mem, b.r + 1, b.r + len) \in Seq(Bytes)
        /\ Len(SubSeq(b.mem, b.r + 1, b.r + len)) = len
        /\ \A i \in 1..len : SubSeq(b.mem, b.r + 1, b.r + len)[i] = b.mem[b.r + i]
    BY <1>1, <2>1, SubSeqProperties
  <2>3. /\ SubSeq(q, 1, len) \in Seq(Bytes) /\ Len(SubSeq(q, 1, len)) = len
        /\ \A i \in 1..len : SubSeq(q, 1, len)[i] = q[i]
    BY <1>1, <1>3, SubSeqProperties
  <2>4. \A i \in 1..len : q[i] = b.mem[b.r + i]
    BY <1>1, <1>2
  <2>5. QED
    BY <1>4, <2>2, <2>3, <2>4
<1>6. /\ SubSeq(q, len + 1, n) \in Seq(Bytes) /\ Len(SubSeq(q, len + 1, n)) = n - len
      /\ \A i \in 1..(n - len) : SubSeq(q, len + 1, n)[i] = q[len + i]
  BY <1>1, <1>3, SubSeqProperties
<1>7. CASE len < n
  <2> DEFINE c == [mem |-> b.mem, r |-> b.r + len, w |-> b.w]
  <2>1. Retrieve(b, len) = c
    BY <1>1, <1>7 DEF Retrieve, ReadableBytes
  <2>2. c.mem = b.mem /\ c.r = b.r + len /\ c.w = b.w /\ Shape(c)
    BY <1>1, <1>7 DEF Shape
  <2> HIDE DEF c
  <2>3. /\ Readable(c) \in Seq(Bytes) /\ Len(Readable(c)) = c.w - c.r
        /\ \A i \in 1..(c.w - c.r) : Readable(c)[i] = c.mem[c.r + i]
    BY <2>2, ReadableFacts
  <2>4. Len(Readable(c)) = n - len
        /\ \A i \in 1..(n - len) : Readable(c)[i] = b.mem[(b.r + len) + i]
    BY <1>1, <2>2, <2>3
  <2>5. ASSUME NEW i \in 1..(n - len) PROVE q[len + i] = b.mem[(b.r + len) + i]
    <3>1. len + i \in 1..n /\ b.r + (len + i) = (b.r + len) + i
      BY <1>1
    <3>2. QED
      BY <1>2, <3>1
  <2>6. Readable(c) = SubSeq(q, len + 1, n)
    BY <1>4, <1>6, <2>3, <2>4, <2>5
  <2>7. QED
    BY <1>2, <1>5, <2>1, <2>2, <2>6 DEF q
<1>8. CASE len = n
  <2> DEFINE c == [mem |-> b.mem, r |-> CheapPrepend, w |-> CheapPrepend]
  <2>1. Retrieve(b, len) = c
    <3>1. Retrieve(b, len) = RetrieveAll(b)
      BY <1>1, <1>8 DEF Retrieve, ReadableBytes
    <3>2. RetrieveAll(b) = c
      <4>1. RetrieveAll(b) = [b EXCEPT !.r = CheapPrepend, !.w = CheapPrepend]
        BY DEF RetrieveAll
      <4>2. QED
        BY <1>1, <4>1
    <3>3. QED
      BY <3>1, <3>2
  <2>2. c.mem = b.mem /\ c.r = CheapPrepend /\ c.w = CheapPrepend /\ Shape(c)
    BY <1>1 DEF Shape
  <2> HIDE DEF c
  <2>3. Readable(c) \in Seq(Bytes) /\ Len(Readable(c)) = 0
    BY <1>1, <2>2, ReadableFacts
  <2>4. Readable(c) = SubSeq(q, len + 1, n)
    BY <1>1, <1>4, <1>6, <1>8, <2>3, SMTT(30)
  <2>5. QED
    BY <1>2, <1>5, <2>1, <2>2, <2>4 DEF q
<1>9. QED
  BY <1>1, <1>7, <1>8

------------------------------------------------------------------------------
(* The theorems.                                                            *)

Inv == Shape(buf) /\ put \in Seq(Bytes) /\ taken \in Seq(Bytes)

(* The type invariant is inductive as it stands.                            *)
LEMMA InvIsTypeOK == Inv <=> TypeOK
BY DEF Inv, TypeOK, Shape

(* The free bytes before the data are there from the start.                 *)
LEMMA InitInv == Init => Inv /\ Queue!Init /\ SizeIsBounded
<1> SUFFICES ASSUME Init PROVE Inv /\ Queue!Init /\ SizeIsBounded
  OBVIOUS
<1> DEFINE mem == [i \in 1..(CheapPrepend + InitialSize) |-> Zero]
<1>1. mem \in Seq(Bytes) /\ Len(mem) = CheapPrepend + InitialSize
  BY ConstantsAssumption
<1>2. buf = [mem |-> mem, r |-> CheapPrepend, w |-> CheapPrepend]
      /\ put = <<>> /\ taken = <<>>
  BY DEF Init
<1> HIDE DEF mem
<1>3. buf.mem = mem /\ buf.r = CheapPrepend /\ buf.w = CheapPrepend
  BY <1>2
<1>4. Shape(buf)
  BY <1>1, <1>2, <1>3, ConstantsAssumption DEF Shape
<1>5. Len(Readable(buf)) = 0 /\ Readable(buf) \in Seq(Bytes)
  BY <1>3, <1>4, ReadableFacts, ConstantsAssumption
<1>6. Readable(buf) = <<>>
  BY <1>5, EmptySeq
<1>7. QED
  BY <1>1, <1>2, <1>3, <1>4, <1>6, EmptySeq DEF Inv, Queue!Init, SizeIsBounded

(* A chunk is a sequence of bytes.                                          *)
LEMMA ChunkIsSeq ==
  ASSUME NEW data \in Chunks
  PROVE  data \in Seq(Bytes) /\ Len(data) \in 0..MaxChunk
<1>1. PICK n \in 0..MaxChunk : data \in [1..n -> Bytes]
  BY DEF Chunks
<1>2. QED
  BY <1>1, ConstantsAssumption

(* What append and readFd have in common.                                   *)
LEMMA PutStep ==
  ASSUME Inv, SizeIsBounded, NEW data \in Chunks,
         ReadableBytes(buf) + Len(data) <= MaxReadable,
         buf' = AppendTo(buf, data) \/ buf' = Fill(buf, data),
         put' = data, taken' = <<>>
  PROVE  Inv' /\ Queue!Put /\ SizeIsBounded'
<1>1. data \in Seq(Bytes) /\ Len(data) \in 0..MaxChunk /\ Shape(buf)
  BY ChunkIsSeq DEF Inv
<1>2. /\ Shape(buf') /\ Readable(buf') = Readable(buf) \o data
      /\ \/ Len(buf'.mem) = Len(buf.mem)
         \/ Len(buf'.mem) < (buf.w - buf.r) + Len(data) + CheapPrepend + Len(data)
  BY <1>1, AppendFacts, FillFacts
<1>3. Inv'
  BY <1>1, <1>2, EmptySeq DEF Inv
<1>4. Queue!Put
  BY <1>1, <1>2 DEF Queue!Put
<1>5. SizeIsBounded'
  <2>1. buf.w \in Nat /\ buf.r \in Nat /\ Len(data) \in Nat /\ CheapPrepend \in Nat
        /\ MaxReadable \in Nat /\ MaxChunk \in Nat /\ Len(data) <= MaxChunk
        /\ (buf.w - buf.r) + Len(data) <= MaxReadable
    BY <1>1, ConstantsAssumption DEF Shape, ReadableBytes
  <2>2. Len(buf'.mem) \in Nat
    BY <1>2, LenProperties DEF Shape
  <2>3. CASE Len(buf'.mem) = Len(buf.mem)
    BY <2>3 DEF SizeIsBounded
  <2>4. CASE Len(buf'.mem) < (buf.w - buf.r) + Len(data) + CheapPrepend + Len(data)
    BY <2>1, <2>2, <2>4 DEF SizeIsBounded
  <2>5. QED
    BY <1>2, <2>3, <2>4
<1>6. QED
  BY <1>3, <1>4, <1>5

(* retrieveAsString().                                                      *)
LEMMA TakeStep ==
  ASSUME Inv, SizeIsBounded, NEW len \in 0..MaxReadable, RetrieveAsString(len)
  PROVE  Inv' /\ Queue!Next /\ SizeIsBounded'
<1>1. Shape(buf) /\ len \in Nat /\ len <= ReadableBytes(buf)
      /\ put' = <<>> /\ buf' = Retrieve(buf, len)
      /\ taken' = SubSeq(buf.mem, buf.r + 1, buf.r + len)
  BY ConstantsAssumption DEF Inv, RetrieveAsString
<1>2. /\ Shape(buf') /\ Len(buf'.mem) = Len(buf.mem)
      /\ Readable(buf') = SubSeq(Readable(buf), len + 1, Len(Readable(buf)))
      /\ taken' = SubSeq(Readable(buf), 1, len)
  BY <1>1, RetrieveFacts
<1>3. Readable(buf) \in Seq(Bytes) /\ Len(Readable(buf)) = buf.w - buf.r
  BY <1>1, ReadableFacts
<1>4. len \in 0..Len(Readable(buf))
  BY <1>1, <1>3 DEF ReadableBytes, Shape
<1>5. SubSeq(Readable(buf), 1, len) \in Seq(Bytes)
  BY <1>1, <1>3, <1>4, SubSeqProperties, LenProperties
<1>6. Queue!Next
  BY <1>1, <1>2, <1>4 DEF Queue!Next, Queue!Take
<1>7. Inv' /\ SizeIsBounded'
  BY <1>1, <1>2, <1>5, EmptySeq DEF Inv, SizeIsBounded
<1>8. QED
  BY <1>6, <1>7

(* Every step keeps the invariant and is one of the queue.                  *)
LEMMA Step ==
  ASSUME Inv, SizeIsBounded, [Next]_vars
  PROVE  Inv' /\ [Queue!Next]_Queue!vars /\ SizeIsBounded'
<1>1. CASE UNCHANGED vars
  BY <1>1 DEF vars, Inv, SizeIsBounded, Queue!vars
<1>2. ASSUME NEW data \in Chunks, AppendData(data) \/ ReadFd(data)
      PROVE  Inv' /\ Queue!Put /\ SizeIsBounded'
  BY <1>2, PutStep DEF AppendData, ReadFd
<1>3. QED
  BY <1>1, <1>2, TakeStep DEF Next, Queue!Next

(* The indices delimit bytes of the array, which makeSpace does not let grow *)
(* beyond its content: the inductive invariant.                             *)
THEOREM InductiveInvariant == Spec => [](Inv /\ SizeIsBounded)
<1>1. Init => Inv /\ SizeIsBounded
  BY InitInv
<1>2. Inv /\ SizeIsBounded /\ [Next]_vars => (Inv /\ SizeIsBounded)'
  BY Step
<1>3. QED
  BY <1>1, <1>2, PTL DEF Spec

(* The indices stay in order and within the array.                          *)
THEOREM TypeCorrect == Spec => []TypeOK
BY InductiveInvariant, InvIsTypeOK, PTL

(* makeSpace grows the array only for content that does not fit.            *)
THEOREM SizeStaysBounded == Spec => []SizeIsBounded
BY InductiveInvariant, PTL

(* The readable bytes are a FIFO queue.                                     *)
THEOREM ImplementsByteQueue == Spec => QueueRefined
<1>1. Init => Queue!Init
  BY InitInv
<1>2. Inv /\ SizeIsBounded /\ [Next]_vars => [Queue!Next]_Queue!vars
  BY Step
<1>3. QED
  BY <1>1, <1>2, InductiveInvariant, PTL DEF Spec, QueueRefined, Queue!Spec
===============================================================================
