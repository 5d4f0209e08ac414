------------------------- MODULE EventBufferProofs --------------------------
(***************************************************************************)
(* Proofs about EventBuffer: the layout of every buffer, and that the      *)
(* buffers implement queues of bytes, for all sizes and contents.          *)
(***************************************************************************)
EXTENDS EventBuffer, SequenceTheorems, TLAPS

Byte == Bytes \cup {Junk}

(* A buffer whose bytes in use lie in its block and were written.          *)
Good(b) ==
  /\ b \in Buffer
  /\ b.misalign + b.off <= Len(b.mem)
  /\ Content(b) \in [1 .. b.off -> Bytes]

(* e has the bytes of b and room for n more.                               *)
Room(b, e, n) ==
  /\ Good(e)
  /\ e.off = b.off
  /\ Content(e) = Content(b)
  /\ e.misalign + e.off + n <= Len(e.mem)

LEMMA FunctionIsSeq ==
  ASSUME NEW S, NEW n \in Nat, NEW f \in [1 .. n -> S]
  PROVE  f \in Seq(S) /\ Len(f) = n
<1>1. f \in Seq(S) BY SeqDef
<1>2. Len(f) \in Nat /\ DOMAIN f = 1 .. Len(f) /\ DOMAIN f = 1 .. n
  BY <1>1, LenProperties
<1> QED BY <1>1, <1>2

LEMMA GoodFields ==
  ASSUME NEW b, Good(b)
  PROVE  /\ b.mem \in [1 .. Len(b.mem) -> Byte]
         /\ Len(b.mem) \in Nat /\ b.misalign \in Nat /\ b.off \in Nat
         /\ b.misalign + b.off <= Len(b.mem)
<1>1. b.mem \in Seq(Byte) /\ b.misalign \in Nat /\ b.off \in Nat
  BY DEF Good, Buffer, Byte
<1> QED BY <1>1, LenProperties DEF Good

LEMMA ContentProperties ==
  ASSUME NEW b, Good(b)
  PROVE  /\ Content(b) \in Seq(Bytes) /\ Len(Content(b)) = b.off
         /\ \A i \in 1 .. b.off :
              Content(b)[i] \in Bytes /\ Content(b)[i] = b.mem[b.misalign + i]
<1>1. Content(b) \in [1 .. b.off -> Bytes] /\ b.off \in Nat
  BY GoodFields DEF Good
<1>2. \A i \in 1 .. b.off : Content(b)[i] = b.mem[b.misalign + i]
  BY DEF Content
<1> QED BY <1>1, <1>2, FunctionIsSeq

(* The struct b has this block m of n bytes, of which c are in use.        *)
Struct(b, n, m, misalign, off, c) ==
  /\ b = [mem |-> m, misalign |-> misalign, off |-> off]
  /\ n \in Nat /\ misalign \in Nat /\ off \in Nat /\ misalign + off <= n
  /\ m \in [1 .. n -> Byte]
  /\ c \in [1 .. off -> Bytes]
  /\ \A i \in 1 .. off : m[misalign + i] = c[i]

LEMMA MakeGood ==
  ASSUME NEW b, NEW n, NEW m, NEW misalign, NEW off, NEW c,
         Struct(b, n, m, misalign, off, c)
  PROVE  /\ Good(b) /\ Content(b) = c
         /\ b.mem = m /\ b.misalign = misalign /\ b.off = off /\ Len(b.mem) = n
<1>1. m \in Seq(Byte) /\ Len(m) = n BY FunctionIsSeq DEF Struct
<1>2. b \in Buffer BY <1>1 DEF Buffer, Byte, Struct
<1>3. b.mem = m /\ b.misalign = misalign /\ b.off = off BY DEF Struct
<1>4. Content(b) = [i \in 1 .. off |-> m[misalign + i]] BY <1>3 DEF Content
<1>5. Content(b) = c BY <1>4 DEF Struct
<1>6. misalign + off <= n /\ c \in [1 .. off -> Bytes] BY DEF Struct
<1> QED BY <1>1, <1>2, <1>3, <1>5, <1>6 DEF Good

LEMMA AlignProperties ==
  ASSUME NEW b, Good(b)
  PROVE  /\ Room(b, Align(b), Len(b.mem) - b.off)
         /\ Len(Align(b).mem) = Len(b.mem) /\ Align(b).misalign = 0
<1> DEFINE n == Len(b.mem)
           m == [i \in 1 .. n |->
                   IF i <= b.off THEN b.mem[b.misalign + i] ELSE b.mem[i]]
<1>1. /\ b.mem \in [1 .. n -> Byte] /\ n \in Nat
      /\ b.misalign \in Nat /\ b.off \in Nat /\ b.misalign + b.off <= n
  BY GoodFields
<1>2. Align(b) = [mem |-> m, misalign |-> 0, off |-> b.off]
  BY DEF Align, totallen
<1>3. m \in [1 .. n -> Byte]
  <2> SUFFICES ASSUME NEW i \in 1 .. n
               PROVE  (IF i <= b.off THEN b.mem[b.misalign + i] ELSE b.mem[i]) \in Byte
    OBVIOUS
  <2>1. i <= b.off => b.misalign + i \in 1 .. n BY <1>1
  <2> QED BY <1>1, <2>1
<1>4. \A i \in 1 .. b.off : m[0 + i] = Content(b)[i]
  BY <1>1 DEF Content
<1>5. Content(b) \in [1 .. b.off -> Bytes] BY DEF Good
<1>6. 0 \in Nat /\ 0 + b.off <= n BY <1>1
<1> HIDE DEF m, n
<1>7. Struct(Align(b), n, m, 0, b.off, Content(b))
  BY <1>1, <1>2, <1>3, <1>4, <1>5, <1>6 DEF Struct
<1>8. /\ Good(Align(b)) /\ Content(Align(b)) = Content(b)
      /\ Align(b).misalign = 0 /\ Align(b).off = b.off /\ Len(Align(b).mem) = n
  BY <1>7, MakeGood
<1> QED BY <1>1, <1>8 DEF Room, n

LEMMA ReallocProperties ==
  ASSUME NEW b, Good(b), NEW k \in Nat, Len(b.mem) <= k
  PROVE  Room(b, Realloc(b, k), k - b.misalign - b.off)
<1> DEFINE m == [i \in 1 .. k |-> IF i <= Len(b.mem) THEN b.mem[i] ELSE Junk]
<1>1. /\ b.mem \in [1 .. Len(b.mem) -> Byte] /\ Len(b.mem) \in Nat
      /\ b.misalign \in Nat /\ b.off \in Nat /\ b.misalign + b.off <= Len(b.mem)
  BY GoodFields
<1>2. Realloc(b, k) = [mem |-> m, misalign |-> b.misalign, off |-> b.off]
  BY DEF Realloc, totallen
<1>3. m \in [1 .. k -> Byte] BY <1>1 DEF Byte
<1>4. \A i \in 1 .. b.off : m[b.misalign + i] = Content(b)[i]
  BY <1>1 DEF Content
<1>5. Content(b) \in [1 .. b.off -> Bytes] BY DEF Good
<1>6. b.misalign + b.off <= k BY <1>1
<1> HIDE DEF m
<1>7. Struct(Realloc(b, k), k, m, b.misalign, b.off, Content(b))
  BY <1>1, <1>2, <1>3, <1>4, <1>5, <1>6 DEF Struct
<1>8. /\ Good(Realloc(b, k)) /\ Content(Realloc(b, k)) = Content(b)
      /\ Realloc(b, k).misalign = b.misalign /\ Realloc(b, k).off = b.off
      /\ Len(Realloc(b, k).mem) = k
  BY <1>7, MakeGood
<1> QED BY <1>1, <1>8 DEF Room

LEMMA ExpandedProperties ==
  ASSUME NEW b, Good(b), NEW n \in Nat, NEW e \in Expanded(b, n)
  PROVE  Room(b, e, n)
<1>1. /\ Len(b.mem) \in Nat /\ b.misalign \in Nat /\ b.off \in Nat
      /\ b.misalign + b.off <= Len(b.mem)
  BY GoodFields
<1>2. CASE Fits(b, n)
  <2>1. e = b BY <1>2 DEF Expanded
  <2>2. b.misalign + b.off + n <= Len(b.mem)
    BY <1>1, <1>2 DEF Fits, Need, totallen
  <2> QED BY <2>1, <2>2 DEF Room
<1>3. CASE ~Fits(b, n) /\ b.misalign >= n
  <2>1. e = Align(b) BY <1>3 DEF Expanded
  <2>2. n <= Len(b.mem) - b.off BY <1>1, <1>3
  <2>3. /\ Room(b, Align(b), Len(b.mem) - b.off)
        /\ Len(Align(b).mem) = Len(b.mem) /\ Align(b).misalign = 0
    BY AlignProperties
  <2> QED BY <1>1, <2>1, <2>2, <2>3 DEF Room
<1>4. CASE ~Fits(b, n) /\ ~(b.misalign >= n)
  <2>1. PICK k \in Lengths(totallen(b), Need(b, n)) : e = Realloc(Align(b), k)
    BY <1>4 DEF Expanded
  <2>2. Need(b, n) \in Nat /\ Need(b, n) = b.misalign + b.off + n
        /\ Len(b.mem) < Need(b, n)
    BY <1>1, <1>4 DEF Fits, Need, totallen
  <2>3. k \in Need(b, n) .. MaxTotal BY <2>1 DEF Lengths
  <2>4. k \in Nat /\ k >= Need(b, n)
    BY <2>2, <2>3, BufferAssumption
  <2>5. /\ Good(Align(b)) /\ Align(b).off = b.off /\ Align(b).misalign = 0
        /\ Content(Align(b)) = Content(b) /\ Len(Align(b).mem) = Len(b.mem)
    BY AlignProperties DEF Room
  <2>6. Len(Align(b).mem) <= k BY <1>1, <2>2, <2>4, <2>5
  <2>7. Room(Align(b), e, k - Align(b).misalign - Align(b).off)
    BY <2>1, <2>4, <2>5, <2>6, ReallocProperties
  <2>8. e.off = b.off /\ Content(e) = Content(b) /\ Good(e)
    BY <2>5, <2>7 DEF Room
  <2>9. e.misalign + e.off + (k - b.off) <= Len(e.mem)
    BY <1>1, <2>4, <2>5, <2>7 DEF Room
  <2>10. e.misalign \in Nat /\ Len(e.mem) \in Nat BY <2>8, GoodFields
  <2>11. e.misalign + e.off + n <= Len(e.mem)
    <3>1. PICK room : room = k - b.off
      OBVIOUS
    <3>2. room \in Int /\ n <= room
      BY <1>1, <2>2, <2>4, <3>1, SMTT(60)
    <3>3. /\ e.off \in Nat /\ e.misalign \in Nat /\ Len(e.mem) \in Nat
          /\ e.misalign + e.off + room <= Len(e.mem)
      BY <1>1, <2>8, <2>9, <2>10, <3>1
    <3> HIDE <3>1
    <3> QED
      BY <3>2, <3>3, SMTT(60)
  <2> QED BY <2>8, <2>11 DEF Room
<1> QED BY <1>2, <1>3, <1>4

LEMMA UnexpandedProperties ==
  ASSUME NEW b, Good(b), NEW n, NEW e \in Unexpanded(b, n)
  PROVE  Good(e) /\ Content(e) = Content(b) /\ e.off = b.off
<1>1. e = Align(b) BY DEF Unexpanded
<1> QED BY <1>1, AlignProperties DEF Room

LEMMA WrittenProperties ==
  ASSUME NEW b, Good(b), NEW data \in Seq(Bytes),
         b.misalign + b.off + Len(data) <= Len(b.mem)
  PROVE  /\ Good(Written(b, data))
         /\ Content(Written(b, data)) = Content(b) \o data
<1> DEFINE n == Len(b.mem)
           end == b.misalign + b.off
           m == [i \in 1 .. n |->
                   IF i - end \in 1 .. Len(data) THEN data[i - end] ELSE b.mem[i]]
           mis == b.misalign
           off == b.off + Len(data)
           c == Content(b) \o data
           e == Written(b, data)
<1>1. /\ b.mem \in [1 .. n -> Byte] /\ n \in Nat
      /\ b.misalign \in Nat /\ b.off \in Nat /\ end <= n
  BY GoodFields
<1>2. Len(data) \in Nat /\ data \in [1 .. Len(data) -> Bytes] BY LenProperties
<1>3. e = [mem |-> m, misalign |-> mis, off |-> off]
  BY DEF Written, totallen
<1>4. m \in [1 .. n -> Byte]
  <2> SUFFICES ASSUME NEW i \in 1 .. n
               PROVE  (IF i - end \in 1 .. Len(data) THEN data[i - end]
                       ELSE b.mem[i]) \in Byte
    OBVIOUS
  <2>1. b.mem[i] \in Byte BY <1>1
  <2>2. i - end \in 1 .. Len(data) => data[i - end] \in Byte BY <1>2 DEF Byte
  <2> QED BY <2>1, <2>2
<1>5. /\ Content(b) \in Seq(Bytes) /\ Len(Content(b)) = b.off
      /\ \A i \in 1 .. b.off : Content(b)[i] = b.mem[b.misalign + i]
  BY ContentProperties
<1>6. /\ c \in Seq(Bytes) /\ Len(c) = off
      /\ \A i \in 1 .. off : c[i] = IF i <= b.off THEN Content(b)[i]
                                    ELSE data[i - b.off]
  <2>1. /\ c \in Seq(Bytes)
        /\ Len(c) = Len(Content(b)) + Len(data)
        /\ \A i \in 1 .. Len(Content(b)) + Len(data) :
             c[i] = IF i <= Len(Content(b)) THEN Content(b)[i]
                    ELSE data[i - Len(Content(b))]
    BY <1>5, ConcatProperties
  <2> HIDE DEF c
  <2> QED BY <1>5, <2>1
<1>7. c \in [1 .. off -> Bytes] BY <1>6, LenProperties
<1>8. \A i \in 1 .. off : m[mis + i] = c[i]
  <2> SUFFICES ASSUME NEW i \in 1 .. off, NEW j, j = mis + i PROVE m[j] = c[i]
    OBVIOUS
  <2>1. i \in Nat /\ j \in 1 .. n /\ j - end = i - b.off BY <1>1, <1>2
  <2>2. m[j] = IF j - end \in 1 .. Len(data) THEN data[j - end] ELSE b.mem[j]
    BY <2>1
  <2>3. CASE i <= b.off
    <3>1. j - end \notin 1 .. Len(data) /\ i \in 1 .. b.off BY <1>1, <2>1, <2>3
    <3>2. c[i] = b.mem[j] BY <1>5, <1>6, <2>3, <3>1
    <3> HIDE DEF m, c, mis, end
    <3> QED BY <2>2, <3>1, <3>2
  <2>4. CASE ~(i <= b.off)
    <3>1. j - end \in 1 .. Len(data) BY <1>1, <1>2, <2>1, <2>4
    <3>2. c[i] = data[j - end] BY <1>6, <2>1, <2>4
    <3> HIDE DEF m, c, mis, end
    <3> QED BY <2>2, <3>1, <3>2
  <2> QED BY <2>3, <2>4
<1>9. mis \in Nat /\ off \in Nat /\ mis + off <= n BY <1>1, <1>2
<1> HIDE DEF n, m, mis, off, c, e
<1>10. Struct(e, n, m, mis, off, c)
  BY <1>1, <1>3, <1>4, <1>7, <1>8, <1>9 DEF Struct
<1>11. Good(e) /\ Content(e) = c BY <1>10, MakeGood
<1> QED BY <1>11 DEF e, c

LEMMA DrainedProperties ==
  ASSUME NEW b, Good(b), NEW n \in Nat
  PROVE  /\ Good(Drained(b, n))
         /\ n >= b.off => Content(Drained(b, n)) = <<>>
         /\ n <= b.off => Content(Drained(b, n)) = SubSeq(Content(b), n + 1, b.off)
<1>1. /\ b.mem \in [1 .. Len(b.mem) -> Byte] /\ Len(b.mem) \in Nat
      /\ b.misalign \in Nat /\ b.off \in Nat /\ b.misalign + b.off <= Len(b.mem)
  BY GoodFields
<1>2. /\ Content(b) \in Seq(Bytes) /\ Len(Content(b)) = b.off
      /\ \A i \in 1 .. b.off : Content(b)[i] = b.mem[b.misalign + i]
  BY ContentProperties
<1> DEFINE len == Len(b.mem)
           m == b.mem
           c == SubSeq(Content(b), n + 1, b.off)
           e == Drained(b, n)
<1>3. CASE n >= b.off
  <2>1. e = [mem |-> m, misalign |-> 0, off |-> 0] BY <1>3 DEF Drained
  <2>2. <<>> \in [1 .. 0 -> Bytes] OBVIOUS
  <2>3. 0 + 0 <= len /\ 0 \in Nat BY <1>1
  <2>4. \A i \in 1 .. 0 : m[0 + i] = <<>>[i] OBVIOUS
  <2>5. n <= b.off => c = <<>>
    <3>1. n <= b.off => n + 1 > b.off BY <1>1, <1>3
    <3> QED BY <3>1, <1>1, <1>2, SubSeqProperties, EmptySeq
  <2>6. m \in [1 .. len -> Byte] /\ len \in Nat BY <1>1
  <2> HIDE DEF len, m, e, c
  <2>8. Struct(e, len, m, 0, 0, <<>>)
    BY <2>1, <2>2, <2>3, <2>4, <2>6 DEF Struct
  <2>7. Good(e) /\ Content(e) = <<>> BY <2>8, MakeGood
  <2> QED BY <2>5, <2>7 DEF e, c
<1>4. CASE ~(n >= b.off)
  <2> DEFINE mis == b.misalign + n
             off == b.off - n
  <2>1. e = [mem |-> m, misalign |-> mis, off |-> off] BY <1>4 DEF Drained
  <2>2. mis \in Nat /\ off \in Nat /\ mis + off <= len BY <1>1, <1>4
  <2>3. /\ c \in Seq(Bytes) /\ Len(c) = off
        /\ \A i \in 1 .. off : c[i] = Content(b)[n + i]
    <3>1. n + 1 \in 1 .. b.off BY <1>1, <1>4
    <3>2. c \in Seq(Bytes) /\ Len(c) = b.off - (n + 1) + 1
      BY <1>1, <1>2, <1>4, <3>1, SubSeqProperties
    <3>3. \A i \in 1 .. off : c[i] = Content(b)[(n + 1) + i - 1]
      BY <1>1, <1>2, <1>4, <3>1, SubSeqProperties
    <3>4. b.off - (n + 1) + 1 = off /\ \A i \in 1 .. off : (n + 1) + i - 1 = n + i
      BY <1>1, <1>2, SMTT(60)
    <3> HIDE DEF c, off
    <3> QED BY <3>2, <3>3, <3>4
  <2>4. \A i \in 1 .. off : m[mis + i] = c[i]
    <3> SUFFICES ASSUME NEW i \in 1 .. off PROVE m[mis + i] = c[i] OBVIOUS
    <3>1. n + i \in 1 .. b.off /\ mis + i = b.misalign + (n + i) BY <1>1, <1>4
    <3> QED BY <1>2, <2>3, <3>1
  <2>5. c \in [1 .. off -> Bytes] BY <2>3, LenProperties
  <2>6. m \in [1 .. len -> Byte] /\ len \in Nat BY <1>1
  <2> HIDE DEF len, m, e, c, mis, off
  <2>8. Struct(e, len, m, mis, off, c)
    BY <2>1, <2>2, <2>4, <2>5, <2>6 DEF Struct
  <2>7. Good(e) /\ Content(e) = c BY <2>8, MakeGood
  <2> QED BY <1>4, <2>7 DEF e, c
<1> QED BY <1>3, <1>4

-----------------------------------------------------------------------------
(* The layout of the buffers                                               *)

IInv ==
  /\ buf \in [Bufs -> Buffer]
  /\ line \in Seq(Bytes)
  /\ \A b \in Bufs : Good(buf[b])

Contents == [b \in Bufs |-> Content(buf[b])]

(* The step of buffer b, seen in memory and as a queue.                    *)
LEMMA ChangeOne ==
  ASSUME IInv, NEW b \in Bufs, NEW e, Good(e), buf' = [buf EXCEPT ![b] = e],
         line' \in Seq(Bytes)
  PROVE  IInv' /\ Contents' = [Contents EXCEPT ![b] = Content(e)]
<1>1. buf \in [Bufs -> Buffer] /\ \A a \in Bufs : Good(buf[a]) BY DEF IInv
<1>2. e \in Buffer BY DEF Good
<1>3. buf' \in [Bufs -> Buffer] BY <1>1, <1>2
<1>4. \A a \in Bufs : buf'[a] = IF a = b THEN e ELSE buf[a] BY <1>1
<1>5. \A a \in Bufs : Good(buf'[a]) BY <1>1, <1>4
<1>6. \A a \in Bufs : Content(buf'[a]) = IF a = b THEN Content(e) ELSE Content(buf[a])
  BY <1>4
<1>7. Contents' = [a \in Bufs |-> Content(buf'[a])] BY DEF Contents
<1>8. Contents' = [Contents EXCEPT ![b] = Content(e)]
  BY <1>6, <1>7 DEF Contents
<1> QED BY <1>3, <1>5, <1>8 DEF IInv

Two(f, a, x, b, y) == [f EXCEPT ![a] = x, ![b] = y]

(* Two buffers change in one step.                                         *)
LEMMA ChangeTwo ==
  ASSUME IInv, NEW a \in Bufs, NEW b \in Bufs, a # b, NEW e, Good(e), NEW f, Good(f),
         buf' = Two(buf, a, e, b, f), line' \in Seq(Bytes)
  PROVE  IInv' /\ Contents' = Two(Contents, a, Content(e), b, Content(f))
<1>1. buf \in [Bufs -> Buffer] /\ \A x \in Bufs : Good(buf[x]) BY DEF IInv
<1>2. e \in Buffer /\ f \in Buffer BY DEF Good
<1>3. buf' \in [Bufs -> Buffer] BY <1>1, <1>2 DEF Two
<1>4. \A x \in Bufs : buf'[x] = IF x = b THEN f ELSE IF x = a THEN e ELSE buf[x]
  BY <1>1 DEF Two
<1>5. \A x \in Bufs : Good(buf'[x]) BY <1>1, <1>4
<1>6. \A x \in Bufs : Content(buf'[x]) =
        IF x = b THEN Content(f) ELSE IF x = a THEN Content(e) ELSE Content(buf[x])
  <2> TAKE x \in Bufs
  <2>1. CASE x = b
    <3>1. buf'[x] = f BY <1>4, <2>1
    <3> QED BY <2>1, <3>1
  <2>2. CASE x # b /\ x = a
    <3>1. buf'[x] = e BY <1>4, <2>2
    <3> QED BY <2>2, <3>1
  <2>3. CASE x # b /\ x # a
    <3>1. buf'[x] = buf[x] BY <1>4, <2>3
    <3> QED BY <2>3, <3>1
  <2> QED BY <2>1, <2>2, <2>3
<1>7. Contents' = [x \in Bufs |-> Content(buf'[x])] BY DEF Contents
<1>8. Contents' = Two(Contents, a, Content(e), b, Content(f))
  BY <1>6, <1>7 DEF Contents, Two
<1> QED BY <1>3, <1>5, <1>8 DEF IInv

(* What the queue does in a step.                                          *)
LEMMA NoChange ==
  ASSUME IInv, NEW b \in Bufs, NEW e, Good(e), buf' = [buf EXCEPT ![b] = e],
         UNCHANGED line, Content(e) = Content(buf[b])
  PROVE  IInv' /\ Contents' = Contents
<1>1. line' \in Seq(Bytes) BY DEF IInv
<1>2. IInv' /\ Contents' = [Contents EXCEPT ![b] = Content(e)]
  BY <1>1, ChangeOne
<1>3. [Contents EXCEPT ![b] = Content(e)] = Contents BY DEF Contents
<1> QED BY <1>2, <1>3

LEMMA AddStep ==
  ASSUME IInv, NEW b \in Bufs, NEW data \in Pieces, NEW e,
         Room(buf[b], e, Len(data)),
         buf' = [buf EXCEPT ![b] = Written(e, data)], UNCHANGED line
  PROVE  IInv' /\ Queue!Add(b, data)
<1>1. data \in Seq(Bytes) BY BufferAssumption
<1>2. /\ Good(e) /\ Content(e) = Content(buf[b])
      /\ e.misalign + e.off + Len(data) <= Len(e.mem)
  BY DEF Room
<1>3. Good(Written(e, data)) /\ Content(Written(e, data)) = Content(e) \o data
  BY <1>1, <1>2, WrittenProperties
<1>4. line' \in Seq(Bytes) BY DEF IInv
<1>5. /\ IInv'
      /\ Contents' = [Contents EXCEPT ![b] = Content(Written(e, data))]
  BY <1>3, <1>4, ChangeOne
<1>6. Contents[b] = Content(buf[b]) BY DEF Contents
<1>7. Contents' = [Contents EXCEPT ![b] = Contents[b] \o data]
  BY <1>2, <1>3, <1>5, <1>6
<1> QED BY <1>5, <1>7 DEF Queue!Add, Contents

LEMMA EvbufferAddStep ==
  ASSUME IInv, NEW b \in Bufs, NEW data \in Pieces, EvbufferAdd(b, data)
  PROVE  IInv' /\ (Queue!Add(b, data) \/ UNCHANGED <<Contents, line>>)
<1>1. Good(buf[b]) BY DEF IInv
<1>2. Len(data) \in Nat BY BufferAssumption, LenProperties
<1>3. UNCHANGED line BY DEF EvbufferAdd
<1>4. CASE \E e \in Expanded(buf[b], Len(data)) :
             buf' = [buf EXCEPT ![b] = Written(e, data)]
  <2>1. PICK e \in Expanded(buf[b], Len(data)) :
          buf' = [buf EXCEPT ![b] = Written(e, data)]
    BY <1>4
  <2>2. Room(buf[b], e, Len(data)) BY <1>1, <1>2, ExpandedProperties
  <2> QED BY <1>3, <2>1, <2>2, AddStep
<1>5. CASE \E f \in Unexpanded(buf[b], Len(data)) : buf' = [buf EXCEPT ![b] = f]
  <2>1. PICK f \in Unexpanded(buf[b], Len(data)) : buf' = [buf EXCEPT ![b] = f]
    BY <1>5
  <2>2. Good(f) /\ Content(f) = Content(buf[b]) BY <1>1, UnexpandedProperties
  <2> QED BY <1>3, <2>1, <2>2, NoChange
<1> QED BY <1>4, <1>5 DEF EvbufferAdd

LEMMA EvbufferAddPrintfStep ==
  ASSUME IInv, NEW b \in Bufs, NEW data \in Pieces, EvbufferAddPrintf(b, data)
  PROVE  IInv' /\ (Queue!Add(b, data) \/ UNCHANGED <<Contents, line>>)
<1>1. Good(buf[b]) BY DEF IInv
<1>2. Len(data) \in Nat /\ Len(data) + 1 \in Nat /\ PrintfSpace \in Nat
  BY BufferAssumption, LenProperties
<1>3. UNCHANGED line BY DEF EvbufferAddPrintf
<1>4. PICK e \in Expanded(buf[b], PrintfSpace) \cup Unexpanded(buf[b], PrintfSpace) :
        \/ buf' = [buf EXCEPT ![b] = e]
        \/ IF Len(data) < totallen(e) - (e.misalign + e.off)
           THEN buf' = [buf EXCEPT ![b] = Written(e, data)]
           ELSE \/ \E g \in Expanded(e, Len(data) + 1) :
                     buf' = [buf EXCEPT ![b] = Written(g, data)]
                \/ \E g \in {e} \cup Unexpanded(e, Len(data) + 1) :
                     buf' = [buf EXCEPT ![b] = g]
  BY DEF EvbufferAddPrintf
<1>5. Good(e) /\ Content(e) = Content(buf[b]) /\ e.off = buf[b].off
  <2>1. CASE e \in Expanded(buf[b], PrintfSpace)
    BY <1>1, <1>2, <2>1, ExpandedProperties DEF Room
  <2>2. CASE e \in Unexpanded(buf[b], PrintfSpace)
    BY <1>1, <2>2, UnexpandedProperties
  <2> QED BY <2>1, <2>2
<1>6. /\ Good(e) /\ Content(e) = Content(buf[b]) /\ e.off = buf[b].off
      /\ e.misalign \in Nat /\ e.off \in Nat /\ Len(e.mem) \in Nat
  BY <1>5, GoodFields
<1>7. CASE /\ Len(data) < totallen(e) - (e.misalign + e.off)
           /\ buf' = [buf EXCEPT ![b] = Written(e, data)]
  <2>1. e.misalign + e.off + Len(data) <= Len(e.mem)
    BY <1>2, <1>6, <1>7 DEF totallen
  <2>2. Room(buf[b], e, Len(data)) BY <1>6, <2>1 DEF Room
  <2> QED BY <1>3, <1>7, <2>2, AddStep
<1>8. CASE \E g \in Expanded(e, Len(data) + 1) :
             buf' = [buf EXCEPT ![b] = Written(g, data)]
  <2>1. PICK g \in Expanded(e, Len(data) + 1) :
          buf' = [buf EXCEPT ![b] = Written(g, data)]
    BY <1>8
  <2>2. Room(e, g, Len(data) + 1) BY <1>2, <1>6, ExpandedProperties
  <2>3. /\ Good(g) /\ g.off = buf[b].off /\ Content(g) = Content(buf[b])
        /\ g.misalign + g.off + (Len(data) + 1) <= Len(g.mem)
    BY <1>6, <2>2 DEF Room
  <2>4. g.misalign \in Nat /\ g.off \in Nat /\ Len(g.mem) \in Nat
    BY <2>3, GoodFields
  <2>5. g.misalign + g.off + Len(data) <= Len(g.mem) BY <1>2, <2>3, <2>4
  <2>6. Room(buf[b], g, Len(data)) BY <2>3, <2>5 DEF Room
  <2> QED BY <1>3, <2>1, <2>6, AddStep
<1>9. CASE \E g \in {e} \cup Unexpanded(e, Len(data) + 1) :
             buf' = [buf EXCEPT ![b] = g]
  <2>1. PICK g \in {e} \cup Unexpanded(e, Len(data) + 1) :
          buf' = [buf EXCEPT ![b] = g]
    BY <1>9
  <2>2. Good(g) /\ Content(g) = Content(buf[b])
    BY <1>6, <2>1, UnexpandedProperties
  <2> QED BY <1>3, <2>1, <2>2, NoChange
<1>10. CASE buf' = [buf EXCEPT ![b] = e]
  BY <1>3, <1>6, <1>10, NoChange
<1> QED BY <1>4, <1>7, <1>8, <1>9, <1>10

LEMMA DrainStep ==
  ASSUME IInv, NEW b \in Bufs, NEW n \in Nat,
         buf' = [buf EXCEPT ![b] = Drained(buf[b], n)], line' \in Seq(Bytes)
  PROVE  /\ IInv'
         /\ \E k \in 0 .. Len(Contents[b]) :
              /\ k = IF n >= buf[b].off THEN buf[b].off ELSE n
              /\ Contents' = [Contents EXCEPT ![b] = Queue!DropFirst(Contents[b], k)]
<1>1. Good(buf[b]) BY DEF IInv
<1>2. /\ Good(Drained(buf[b], n))
      /\ n >= buf[b].off => Content(Drained(buf[b], n)) = <<>>
      /\ n <= buf[b].off => Content(Drained(buf[b], n))
                              = SubSeq(Content(buf[b]), n + 1, buf[b].off)
  BY <1>1, DrainedProperties
<1>3. IInv' /\ Contents' = [Contents EXCEPT ![b] = Content(Drained(buf[b], n))]
  BY <1>2, ChangeOne
<1>4. Contents[b] = Content(buf[b]) BY DEF Contents
<1>5. Len(Contents[b]) = buf[b].off /\ buf[b].off \in Nat
  BY <1>1, <1>4, ContentProperties, GoodFields
<1> DEFINE k == IF n >= buf[b].off THEN buf[b].off ELSE n
<1>6. k \in 0 .. Len(Contents[b]) BY <1>5
<1>7. Content(Drained(buf[b], n)) = Queue!DropFirst(Contents[b], k)
  <2>1. CASE n >= buf[b].off
    <3>1. buf[b].off + 1 \in Int /\ buf[b].off \in Int /\ buf[b].off < buf[b].off + 1
      BY <1>5
    <3>2. SubSeq(Contents[b], buf[b].off + 1, buf[b].off) = <<>>
      BY <3>1, SubSeqEmpty
    <3> QED BY <1>2, <1>5, <2>1, <3>2 DEF Queue!DropFirst
  <2>2. CASE ~(n >= buf[b].off)
    <3>1. n <= buf[b].off BY <1>5, <2>2
    <3> QED BY <1>2, <1>4, <1>5, <2>2, <3>1 DEF Queue!DropFirst
  <2> QED BY <2>1, <2>2
<1> HIDE DEF k
<1>8. Contents' = [Contents EXCEPT ![b] = Queue!DropFirst(Contents[b], k)]
  BY <1>3, <1>7
<1> QED BY <1>3, <1>6, <1>8 DEF k

LEMMA EvbufferDrainStep ==
  ASSUME IInv, NEW b \in Bufs, NEW n \in Nat, EvbufferDrain(b, n)
  PROVE  IInv' /\ \E k \in 0 .. Len(Contents[b]) : Queue!Drain(b, k)
<1>1. UNCHANGED line /\ line' \in Seq(Bytes) BY DEF EvbufferDrain, IInv
<1>2. buf' = [buf EXCEPT ![b] = Drained(buf[b], n)] BY DEF EvbufferDrain
<1>3. PICK k \in 0 .. Len(Contents[b]) :
        Contents' = [Contents EXCEPT ![b] = Queue!DropFirst(Contents[b], k)]
  BY <1>1, <1>2, DrainStep
<1>4. IInv' BY <1>1, <1>2, DrainStep
<1>5. Queue!Drain(b, k) BY <1>1, <1>3 DEF Queue!Drain, Contents
<1> QED BY <1>4, <1>5

LEMMA PrefixIsSeq ==
  ASSUME NEW s \in Seq(Bytes), NEW n \in 0 .. Len(s)
  PROVE  SubSeq(s, 1, n) \in Seq(Bytes) /\ \A i \in 1 .. n : SubSeq(s, 1, n)[i] = s[i]
<1>1. Len(s) \in Nat /\ s \in [1 .. Len(s) -> Bytes] BY LenProperties
<1>2. n \in Int /\ n \in Nat /\ 1 \in Int BY <1>1
<1>3. \A i \in 1 .. n : s[i] \in Bytes BY <1>1
<1>4. /\ SubSeq(s, 1, n) \in Seq(Bytes)
      /\ \A i \in 1 .. n - 1 + 1 : SubSeq(s, 1, n)[i] = s[1 + i - 1]
  BY <1>2, <1>3, SubSeqProperties
<1>5. n - 1 + 1 = n /\ \A i \in 1 .. n : 1 + i - 1 = i BY <1>2
<1> QED BY <1>4, <1>5

LEMMA EvbufferRemoveStep ==
  ASSUME IInv, NEW b \in Bufs, NEW n \in Nat, EvbufferRemove(b, n)
  PROVE  IInv' /\ \E k \in 0 .. Len(Contents[b]) : Queue!Remove(b, k)
<1> DEFINE nread == IF n >= buf[b].off THEN buf[b].off ELSE n
<1>1. /\ line' = SubSeq(Content(buf[b]), 1, nread)
      /\ buf' = [buf EXCEPT ![b] = Drained(buf[b], nread)]
  BY DEF EvbufferRemove
<1>2. Good(buf[b]) /\ Contents[b] = Content(buf[b]) BY DEF IInv, Contents
<1>3. /\ Content(buf[b]) \in Seq(Bytes) /\ Len(Content(buf[b])) = buf[b].off
      /\ buf[b].off \in Nat
  BY <1>2, ContentProperties, GoodFields
<1>4. nread \in 0 .. Len(Content(buf[b])) /\ nread \in Nat BY <1>3
<1>5. nread = IF nread >= buf[b].off THEN buf[b].off ELSE nread BY <1>3
<1> HIDE DEF nread
<1>6. line' \in Seq(Bytes) BY <1>1, <1>3, <1>4, PrefixIsSeq
<1>7. PICK k \in 0 .. Len(Contents[b]) :
        /\ k = IF nread >= buf[b].off THEN buf[b].off ELSE nread
        /\ Contents' = [Contents EXCEPT ![b] = Queue!DropFirst(Contents[b], k)]
  BY <1>1, <1>4, <1>6, DrainStep
<1>8. IInv' BY <1>1, <1>4, <1>6, DrainStep
<1>9. k = nread BY <1>5, <1>7
<1>10. line' = SubSeq(Contents[b], 1, k) BY <1>1, <1>2, <1>9
<1>11. Queue!Remove(b, k) BY <1>7, <1>10 DEF Queue!Remove, Contents
<1> QED BY <1>8, <1>11

(* Slices of a sequence that are no longer than a line terminator.         *)
LEMMA SliceIs ==
  ASSUME NEW s \in Seq(Bytes), NEW i \in 1 .. Len(s)
  PROVE  /\ SubSeq(s, i, i) = <<s[i]>>
         /\ i < Len(s) => SubSeq(s, i, i + 1) = <<s[i], s[i + 1]>>
<1>1. Len(s) \in Nat /\ s \in [1 .. Len(s) -> Bytes] BY LenProperties
<1>2. i \in Int /\ i + 1 \in Int /\ s[i] \in Bytes BY <1>1
<1>3. SubSeq(s, i, i) = <<s[i]>>
  <2>1. \A j \in i .. i : s[j] \in Bytes BY <1>1
  <2>2. /\ SubSeq(s, i, i) \in Seq(Bytes)
        /\ Len(SubSeq(s, i, i)) = IF i <= i THEN i - i + 1 ELSE 0
        /\ \A j \in 1 .. i - i + 1 : SubSeq(s, i, i)[j] = s[i + j - 1]
    BY <1>2, <2>1, SubSeqProperties
  <2>3. <<s[i]>> \in Seq(Bytes) /\ Len(<<s[i]>>) = 1 BY <1>2
  <2>4. Len(SubSeq(s, i, i)) = 1 /\ 1 \in 1 .. i - i + 1 /\ i + 1 - 1 = i
    BY <1>2, <2>2
  <2>5. SubSeq(s, i, i)[1] = s[i] BY <2>2, <2>4
  <2>6. \A j \in 1 .. Len(SubSeq(s, i, i)) : SubSeq(s, i, i)[j] = <<s[i]>>[j]
    BY <2>4, <2>5
  <2> QED BY <2>2, <2>3, <2>4, <2>6, SeqEqual
<1>4. ASSUME i < Len(s) PROVE SubSeq(s, i, i + 1) = <<s[i], s[i + 1]>>
  <2>1. i + 1 \in 1 .. Len(s) /\ s[i + 1] \in Bytes BY <1>1, <1>4
  <2>2. \A j \in i .. i + 1 : s[j] \in Bytes BY <1>1, <2>1
  <2>3. /\ SubSeq(s, i, i + 1) \in Seq(Bytes)
        /\ Len(SubSeq(s, i, i + 1)) = IF i <= i + 1 THEN i + 1 - i + 1 ELSE 0
        /\ \A j \in 1 .. i + 1 - i + 1 : SubSeq(s, i, i + 1)[j] = s[i + j - 1]
    <3> DEFINE k == i + 1
    <3>1. k \in Int /\ \A j \in i .. k : s[j] \in Bytes BY <1>2, <2>2
    <3> HIDE DEF k
    <3>2. /\ SubSeq(s, i, k) \in Seq(Bytes)
          /\ Len(SubSeq(s, i, k)) = IF i <= k THEN k - i + 1 ELSE 0
          /\ \A j \in 1 .. k - i + 1 : SubSeq(s, i, k)[j] = s[i + j - 1]
      BY <1>2, <3>1, SubSeqProperties
    <3> QED BY <3>2 DEF k
  <2>4. <<s[i], s[i + 1]>> \in Seq(Bytes) /\ Len(<<s[i], s[i + 1]>>) = 2
    BY <1>2, <2>1
  <2>5. /\ Len(SubSeq(s, i, i + 1)) = 2
        /\ 1 \in 1 .. i + 1 - i + 1 /\ 2 \in 1 .. i + 1 - i + 1
        /\ i + 1 - 1 = i /\ i + 2 - 1 = i + 1
    BY <1>2, <2>3
  <2>6. SubSeq(s, i, i + 1)[1] = s[i] /\ SubSeq(s, i, i + 1)[2] = s[i + 1]
    BY <2>3, <2>5
  <2>7. \A j \in 1 .. Len(SubSeq(s, i, i + 1)) :
          SubSeq(s, i, i + 1)[j] = <<s[i], s[i + 1]>>[j]
    <3>1. \A j \in 1 .. 2 : j = 1 \/ j = 2 OBVIOUS
    <3> QED BY <2>5, <2>6, <3>1
  <2> QED BY <2>3, <2>4, <2>5, <2>7, SeqEqual
<1> QED BY <1>3, <1>4

LEMMA EvbufferReadlineStep ==
  ASSUME IInv, NEW b \in Bufs, EvbufferReadline(b)
  PROVE  /\ IInv'
         /\ \/ Queue!ReadLine(b)
            \/ \E k \in 0 .. Len(Contents[b]) : Queue!Drain(b, k)
<1> DEFINE s == Content(buf[b])
           off == buf[b].off
<1>1. Good(buf[b]) /\ Contents[b] = s BY DEF IInv, Contents
<1>2. /\ s \in Seq(Bytes) /\ Len(s) = off /\ off \in Nat
      /\ \A j \in 1 .. off : s[j] \in Bytes
  BY <1>1, ContentProperties, GoodFields
<1>3. PICK i \in 1 .. off :
        /\ s[i] \in {CR, LF}
        /\ \A j \in 1 .. i - 1 : s[j] \notin {CR, LF}
        /\ \/ /\ line' = SubSeq(s, 1, i - 1)
              /\ LET n == IF SecondTerminator(buf[b], i) THEN i + 1 ELSE i
                 IN buf' = [buf EXCEPT ![b] = Drained(buf[b], n)]
           \/ /\ buf' = [buf EXCEPT ![b] = Drained(buf[b], i - 1)]
              /\ UNCHANGED line
  BY DEF EvbufferReadline
<1>4. i \in Nat /\ i >= 1 /\ i <= off /\ i - 1 \in 0 .. Len(s) /\ i - 1 \in Nat
  BY <1>2
<1>5. SecondTerminator(buf[b], i) <=> i < off /\ s[i + 1] \in {CR, LF} \ {s[i]}
  BY DEF SecondTerminator
<1> HIDE DEF s, off
<1>6. CASE /\ buf' = [buf EXCEPT ![b] = Drained(buf[b], i - 1)]
           /\ UNCHANGED line
  <2>1. line' \in Seq(Bytes) BY <1>6 DEF IInv
  <2>2. PICK k \in 0 .. Len(Contents[b]) :
          Contents' = [Contents EXCEPT ![b] = Queue!DropFirst(Contents[b], k)]
    BY <1>4, <1>6, <2>1, DrainStep
  <2>3. IInv' BY <1>4, <1>6, <2>1, DrainStep
  <2>4. Queue!Drain(b, k) BY <1>6, <2>2 DEF Queue!Drain, Contents
  <2> QED BY <2>3, <2>4
<1>7. CASE /\ line' = SubSeq(s, 1, i - 1)
           /\ LET n == IF SecondTerminator(buf[b], i) THEN i + 1 ELSE i
              IN buf' = [buf EXCEPT ![b] = Drained(buf[b], n)]
  <2> DEFINE m == IF SecondTerminator(buf[b], i) THEN 2 ELSE 1
             n == i - 1
             text == SubSeq(Contents[b], 1, n)
             end == SubSeq(Contents[b], n + 1, n + m)
             rest == Queue!DropFirst(Contents[b], n + m)
  <2>1. /\ m \in 1 .. 2 /\ n + m \in Nat /\ n + m <= off /\ n + m >= 1 /\ n + 1 = i
        /\ n + m = IF SecondTerminator(buf[b], i) THEN i + 1 ELSE i
    BY <1>2, <1>4, <1>5
  <2>2. buf' = [buf EXCEPT ![b] = Drained(buf[b], n + m)] BY <1>7, <2>1
  <2>3. line' = text /\ line' \in Seq(Bytes)
        /\ \A j \in 1 .. n : text[j] = s[j]
    BY <1>1, <1>2, <1>4, <1>7, PrefixIsSeq
  <2>4. IInv' /\ Contents' = [Contents EXCEPT ![b] = rest]
    <3>1. off = buf[b].off BY DEF off
    <3>2. n + m = IF n + m >= buf[b].off THEN buf[b].off ELSE n + m
      BY <1>2, <2>1, <3>1
    <3> DEFINE d == n + m
    <3>3. /\ d \in Nat /\ d = (IF d >= buf[b].off THEN buf[b].off ELSE d)
          /\ buf' = [buf EXCEPT ![b] = Drained(buf[b], d)]
      BY <2>1, <2>2, <3>2
    <3> HIDE DEF d
    <3>4. PICK k \in 0 .. Len(Contents[b]) :
            /\ k = IF d >= buf[b].off THEN buf[b].off ELSE d
            /\ Contents' = [Contents EXCEPT ![b] = Queue!DropFirst(Contents[b], k)]
      BY <2>3, <3>3, DrainStep
    <3>5. IInv' BY <2>3, <3>3, DrainStep
    <3>6. k = d BY <3>3, <3>4
    <3> QED BY <3>4, <3>5, <3>6 DEF d
  <2>5. \A j \in 1 .. n : text[j] \notin Queue!Terminators
    BY <1>3, <2>3 DEF Queue!Terminators
  <2>6. end = IF SecondTerminator(buf[b], i) THEN <<s[i], s[i + 1]>> ELSE <<s[i]>>
    <3>1. i \in 1 .. Len(s) BY <1>2
    <3>2. SecondTerminator(buf[b], i) => i < Len(s) BY <1>2, <1>5
    <3>3. CASE SecondTerminator(buf[b], i)
      <4>1. m = 2 /\ n + 1 = i /\ n + m = i + 1 BY <2>1, <3>3
      <4>2. end = SubSeq(s, i, i + 1) BY <1>1, <4>1
      <4>3. SubSeq(s, i, i + 1) = <<s[i], s[i + 1]>>
        BY <1>2, <3>1, <3>2, <3>3, SliceIs
      <4> HIDE DEF n, m, end
      <4> QED BY <3>3, <4>2, <4>3
    <3>4. CASE ~SecondTerminator(buf[b], i)
      <4>1. m = 1 /\ n + 1 = i /\ n + m = i BY <2>1, <3>4
      <4>2. end = SubSeq(s, i, i) BY <1>1, <4>1
      <4>3. SubSeq(s, i, i) = <<s[i]>> BY <1>2, <3>1, SliceIs
      <4> HIDE DEF n, m, end
      <4> QED BY <3>4, <4>2, <4>3
    <3> QED BY <3>3, <3>4
  <2>7. end \in {<<CR>>, <<LF>>, <<CR, LF>>, <<LF, CR>>}
    BY <1>3, <1>5, <2>6
  <2>8. m = 1 /\ rest # <<>> => rest[1] \notin Queue!Terminators \ {end[1]}
    <3> SUFFICES ASSUME m = 1, rest # <<>>
                 PROVE  rest[1] \notin Queue!Terminators \ {end[1]}
      OBVIOUS
    <3>1. ~SecondTerminator(buf[b], i) /\ n + m = i BY <2>1
    <3>2. end[1] = s[i]
      <4>1. end = <<s[i]>> BY <2>6, <3>1
      <4> HIDE DEF end
      <4> QED BY <4>1
    <3>3. rest = SubSeq(s, i + 1, off) BY <1>1, <1>2, <3>1 DEF Queue!DropFirst
    <3>4. i < off
      <4>1. i + 1 \in Int /\ off \in Int BY <1>2, <1>4
      <4>2. ~(off < i + 1) BY <3>3, <4>1, SubSeqEmpty
      <4> QED BY <1>2, <1>4, <4>2
    <3>5. rest[1] = s[i + 1]
      <4>1. i + 1 \in Int /\ off \in Int /\ \A j \in i + 1 .. off : s[j] \in Bytes
        BY <1>2, <1>4
      <4>2. \A j \in 1 .. off - (i + 1) + 1 :
              SubSeq(s, i + 1, off)[j] = s[i + 1 + j - 1]
        BY <4>1, SubSeqProperties
      <4>3. 1 \in 1 .. off - (i + 1) + 1 /\ i + 1 + 1 - 1 = i + 1
        BY <1>2, <1>4, <3>4
      <4> HIDE DEF rest
      <4> QED BY <3>3, <4>2, <4>3
    <3>6. s[i + 1] \notin {CR, LF} \ {s[i]} BY <1>5, <3>1, <3>4
    <3> HIDE DEF rest, end
    <3> QED BY <3>2, <3>5, <3>6 DEF Queue!Terminators
  <2>9. n \in 0 .. Len(Contents[b]) - 1 /\ n + m <= Len(Contents[b])
    BY <1>1, <1>2, <1>4, <2>1
  <2>10. Queue!ReadLine(b)
    <3> HIDE DEF n, m
    <3> QED BY <2>1, <2>3, <2>4, <2>5, <2>7, <2>8, <2>9
         DEF Queue!ReadLine, Contents
  <2> QED BY <2>4, <2>10
<1> QED BY <1>3, <1>6, <1>7

LEMMA EvbufferAddBufferStep ==
  ASSUME IInv, NEW a \in Bufs, NEW b \in Bufs, a # b, EvbufferAddBuffer(a, b)
  PROVE  IInv' /\ (Queue!MoveAll(a, b) \/ UNCHANGED <<Contents, line>>)
<1>1. Good(buf[a]) /\ Good(buf[b]) BY DEF IInv
<1>2. Contents[a] = Content(buf[a]) /\ Contents[b] = Content(buf[b]) BY DEF Contents
<1>3. /\ Content(buf[a]) \in Seq(Bytes) /\ Len(Content(buf[a])) = buf[a].off
      /\ Content(buf[b]) \in Seq(Bytes) /\ Len(Content(buf[b])) = buf[b].off
      /\ buf[b].off \in Nat
  BY <1>1, ContentProperties, GoodFields
<1>4. UNCHANGED line /\ line' \in Seq(Bytes) BY DEF EvbufferAddBuffer, IInv
<1>5. CASE /\ buf[a].off = 0
           /\ buf' = [buf EXCEPT ![a] = buf[b], ![b] = buf[a]]
  <2>5. buf' = Two(buf, a, buf[b], b, buf[a]) BY <1>5 DEF Two
  <2>1. IInv' /\ Contents' = Two(Contents, a, Content(buf[b]), b, Content(buf[a]))
    BY <1>1, <1>4, <2>5, ChangeTwo
  <2>2. Content(buf[a]) = <<>> BY <1>3, <1>5, EmptySeq
  <2>3. Content(buf[a]) \o Content(buf[b]) = Content(buf[b])
    BY <1>3, <2>2, ConcatEmptySeq
  <2>4. Contents' = [Contents EXCEPT ![a] = Contents[a] \o Contents[b], ![b] = <<>>]
    BY <1>2, <2>1, <2>2, <2>3 DEF Two
  <2> QED BY <1>4, <2>1, <2>4 DEF Queue!MoveAll, Contents
<1>6. CASE \E e \in Expanded(buf[a], buf[b].off) :
             buf' = [buf EXCEPT ![a] = Written(e, Content(buf[b])),
                                ![b] = Drained(buf[b], buf[b].off)]
  <2>1. PICK e \in Expanded(buf[a], buf[b].off) :
             buf' = [buf EXCEPT ![a] = Written(e, Content(buf[b])),
                                ![b] = Drained(buf[b], buf[b].off)]
    BY <1>6
  <2>2. Room(buf[a], e, buf[b].off) BY <1>1, <1>3, ExpandedProperties
  <2>3. /\ Good(e) /\ Content(e) = Content(buf[a])
        /\ e.misalign + e.off + Len(Content(buf[b])) <= Len(e.mem)
    BY <1>3, <2>2 DEF Room
  <2>4. /\ Good(Written(e, Content(buf[b])))
        /\ Content(Written(e, Content(buf[b]))) = Content(buf[a]) \o Content(buf[b])
    BY <1>3, <2>3, WrittenProperties
  <2>5. /\ Good(Drained(buf[b], buf[b].off))
        /\ Content(Drained(buf[b], buf[b].off)) = <<>>
    <3>1. buf[b].off >= buf[b].off BY <1>3
    <3> QED BY <1>1, <1>3, <3>1, DrainedProperties
  <2>8. buf' = Two(buf, a, Written(e, Content(buf[b])),
                        b, Drained(buf[b], buf[b].off))
    BY <2>1 DEF Two
  <2>6. /\ IInv'
        /\ Contents' = Two(Contents, a, Content(Written(e, Content(buf[b]))),
                                     b, Content(Drained(buf[b], buf[b].off)))
    BY <1>4, <2>4, <2>5, <2>8, ChangeTwo
  <2>7. Contents' = [Contents EXCEPT ![a] = Contents[a] \o Contents[b], ![b] = <<>>]
    BY <1>2, <2>4, <2>5, <2>6 DEF Two
  <2> QED BY <1>4, <2>6, <2>7 DEF Queue!MoveAll, Contents
<1>7. CASE \E f \in Unexpanded(buf[a], buf[b].off) : buf' = [buf EXCEPT ![a] = f]
  <2>1. PICK f \in Unexpanded(buf[a], buf[b].off) : buf' = [buf EXCEPT ![a] = f]
    BY <1>7
  <2>2. Good(f) /\ Content(f) = Content(buf[a]) BY <1>1, UnexpandedProperties
  <2> QED BY <1>4, <2>1, <2>2, NoChange
<1> QED BY <1>5, <1>6, <1>7 DEF EvbufferAddBuffer

-----------------------------------------------------------------------------
(* The theorems                                                            *)

LEMMA NewIsEmpty == Good(New) /\ Content(New) = <<>>
<1>1. Struct(New, 0, <<>>, 0, 0, <<>>)
  <2>1. <<>> \in [1 .. 0 -> Byte] /\ <<>> \in [1 .. 0 -> Bytes] OBVIOUS
  <2>2. \A i \in 1 .. 0 : <<>>[0 + i] = <<>>[i] OBVIOUS
  <2> QED BY <2>1, <2>2 DEF Struct, New
<1> QED BY <1>1, MakeGood

LEMMA EvbufferFreeStep ==
  ASSUME IInv, NEW b \in Bufs, EvbufferFree(b)
  PROVE  IInv' /\ \E k \in 0 .. Len(Contents[b]) : Queue!Drain(b, k)
<1>1. Good(buf[b]) /\ Contents[b] = Content(buf[b]) BY DEF IInv, Contents
<1>2. UNCHANGED line /\ line' \in Seq(Bytes) BY DEF EvbufferFree, IInv
<1>3. IInv' /\ Contents' = [Contents EXCEPT ![b] = <<>>]
  <2>1. buf' = [buf EXCEPT ![b] = New] BY DEF EvbufferFree
  <2>2. Good(New) /\ Content(New) = <<>> BY NewIsEmpty
  <2>3. IInv' /\ Contents' = [Contents EXCEPT ![b] = Content(New)]
    BY <1>2, <2>1, <2>2, ChangeOne
  <2> QED BY <2>2, <2>3
<1> DEFINE k == Len(Contents[b])
<1>4. k \in Nat BY <1>1, ContentProperties, GoodFields
<1>5. Queue!DropFirst(Contents[b], k) = <<>>
  <2>1. k + 1 \in Int /\ k \in Int /\ k < k + 1 BY <1>4
  <2>2. SubSeq(Contents[b], k + 1, k) = <<>> BY <2>1, SubSeqEmpty
  <2> QED BY <2>2 DEF Queue!DropFirst
<1>6. Contents' = [Contents EXCEPT ![b] = Queue!DropFirst(Contents[b], k)]
  BY <1>3, <1>5
<1>7. Queue!Drain(b, k) BY <1>2, <1>6 DEF Queue!Drain, Contents
<1>8. k \in 0 .. Len(Contents[b]) BY <1>4
<1> QED BY <1>3, <1>7, <1>8

LEMMA InitIsEmpty == Init => IInv /\ Queue!Init
<1> SUFFICES ASSUME Init PROVE IInv /\ Queue!Init
  OBVIOUS
<1>1. buf = [b \in Bufs |-> New] /\ line = <<>> BY DEF Init
<1>2. Good(New) /\ Content(New) = <<>> BY NewIsEmpty
<1>3. New \in Buffer BY <1>2 DEF Good
<1>4. IInv BY <1>1, <1>2, <1>3, EmptySeq DEF IInv
<1>5. Contents = [b \in Bufs |-> <<>>] BY <1>1, <1>2 DEF Contents
<1> QED BY <1>1, <1>4, <1>5 DEF Queue!Init, Contents

(* Every step keeps the layout and is a step of the queues, or none.       *)
LEMMA StepIsQueueStep ==
  ASSUME IInv, [Next]_vars
  PROVE  IInv' /\ (Queue!Next \/ UNCHANGED <<Contents, line>>)
<1>1. CASE UNCHANGED vars
  <2>1. buf' = buf /\ line' = line BY <1>1 DEF vars
  <2> QED BY <2>1 DEF IInv, Contents
<1>2. ASSUME NEW b \in Bufs, NEW data \in Pieces, EvbufferAdd(b, data)
      PROVE  IInv' /\ (Queue!Next \/ UNCHANGED <<Contents, line>>)
  <2>1. IInv' /\ (Queue!Add(b, data) \/ UNCHANGED <<Contents, line>>)
    BY <1>2, EvbufferAddStep
  <2> QED BY <2>1 DEF Queue!Next
<1>3. ASSUME NEW b \in Bufs, NEW data \in Pieces, EvbufferAddPrintf(b, data)
      PROVE  IInv' /\ (Queue!Next \/ UNCHANGED <<Contents, line>>)
  <2>1. IInv' /\ (Queue!Add(b, data) \/ UNCHANGED <<Contents, line>>)
    BY <1>3, EvbufferAddPrintfStep
  <2> QED BY <2>1 DEF Queue!Next
<1>4. ASSUME NEW b \in Bufs, NEW n \in 0 .. buf[b].off + 1, EvbufferDrain(b, n)
      PROVE  IInv' /\ Queue!Next
  <2>1. n \in Nat BY DEF IInv, Buffer
  <2>2. IInv' /\ \E k \in 0 .. Len(Contents[b]) : Queue!Drain(b, k)
    BY <1>4, <2>1, EvbufferDrainStep
  <2> QED BY <2>2 DEF Queue!Next, Contents
<1>5. ASSUME NEW b \in Bufs, NEW n \in 0 .. buf[b].off + 1, EvbufferRemove(b, n)
      PROVE  IInv' /\ Queue!Next
  <2>1. n \in Nat BY DEF IInv, Buffer
  <2>2. IInv' /\ \E k \in 0 .. Len(Contents[b]) : Queue!Remove(b, k)
    BY <1>5, <2>1, EvbufferRemoveStep
  <2> QED BY <2>2 DEF Queue!Next, Contents
<1>6. ASSUME NEW b \in Bufs, EvbufferReadline(b)
      PROVE  IInv' /\ Queue!Next
  <2>1. IInv' /\ (Queue!ReadLine(b)
                  \/ \E k \in 0 .. Len(Contents[b]) : Queue!Drain(b, k))
    BY <1>6, EvbufferReadlineStep
  <2> QED BY <2>1 DEF Queue!Next, Contents
<1>7. ASSUME NEW b \in Bufs, NEW a \in Bufs \ {b}, EvbufferAddBuffer(a, b)
      PROVE  IInv' /\ (Queue!Next \/ UNCHANGED <<Contents, line>>)
  <2>1. a \in Bufs /\ a # b OBVIOUS
  <2>2. IInv' /\ (Queue!MoveAll(a, b) \/ UNCHANGED <<Contents, line>>)
    BY <1>7, <2>1, EvbufferAddBufferStep
  <2> QED BY <2>2 DEF Queue!Next
<1>8. ASSUME NEW b \in Bufs, EvbufferFree(b)
      PROVE  IInv' /\ Queue!Next
  <2>1. IInv' /\ \E k \in 0 .. Len(Contents[b]) : Queue!Drain(b, k)
    BY <1>8, EvbufferFreeStep
  <2> QED BY <2>1 DEF Queue!Next, Contents
<1> QED BY <1>1, <1>2, <1>3, <1>4, <1>5, <1>6, <1>7, <1>8 DEF Next

LEMMA Inductive == Spec => []IInv
<1>1. Init => IInv BY InitIsEmpty
<1>2. IInv /\ [Next]_vars => IInv' BY StepIsQueueStep
<1> QED BY <1>1, <1>2, PTL DEF Spec

OverrunType == overrun \in BOOLEAN

LEMMA OverrunIsBoolean == Spec => []OverrunType
<1>1. Init => OverrunType BY DEF Init, OverrunType
<1>2. OverrunType /\ [Next]_vars => OverrunType'
  BY DEF OverrunType, Next, vars, EvbufferAdd, EvbufferAddPrintf, EvbufferDrain, EvbufferRemove,
         EvbufferReadline, EvbufferAddBuffer, EvbufferFree
<1> QED BY <1>1, <1>2, PTL DEF Spec

(* buffer.cpp keeps the fields of every struct evbuffer and the lines it   *)
(* gives out of their types.                                               *)
THEOREM TypeCorrect == Spec => []TypeOK
<1>1. IInv /\ OverrunType => TypeOK BY DEF IInv, OverrunType, TypeOK
<1> QED BY <1>1, Inductive, OverrunIsBoolean, PTL

(* No function of buffer.cpp leaves bytes in use outside of the block, or  *)
(* counts memory that was never written as in use, up to and with the call *)
(* that formats into a full block, should there be one.                    *)
THEOREM LayoutHolds == Spec => []Layout
<1>1. IInv => Layout
  <2> SUFFICES ASSUME IInv, NEW b \in Bufs
               PROVE  /\ buf[b].misalign + buf[b].off <= totallen(buf[b])
                      /\ Content(buf[b]) \in Seq(Bytes)
    BY DEF Layout
  <2>1. Good(buf[b]) BY DEF IInv
  <2> QED BY <2>1, GoodFields, ContentProperties DEF totallen
<1> QED BY <1>1, Inductive, PTL

(* The buffers of buffer.cpp implement queues of bytes, up to such a call. *)
THEOREM ImplementsByteQueue == Spec => IsByteQueue
<1>1. Init => Queue!Init BY InitIsEmpty
<1>2. IInv /\ [Next]_vars => [Queue!Next]_<<Contents, line>>
  BY StepIsQueueStep
<1>3. IInv /\ [Next]_vars =>
        [Queue!Next]_<<[b \in Bufs |-> Content(buf[b])], line>>
  BY <1>2 DEF Contents
<1> QED BY <1>1, <1>3, Inductive, PTL DEF Spec, IsByteQueue, Queue!Spec
=============================================================================
