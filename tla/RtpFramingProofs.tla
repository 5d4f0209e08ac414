-------------------------- MODULE RtpFramingProofs --------------------------
(***************************************************************************)
(* Proofs about RtpFraming, for any size of block, any frames and any      *)
(* behaviour of the network.                                               *)
(***************************************************************************)
EXTENDS RtpFraming, TLAPS

Seqs == INSTANCE SequenceTheorems

-----------------------------------------------------------------------------
(* The inductive invariant                                                 *)

(* How many packets of frame k send_rtp has sent.                          *)
SentOf(k) ==
  IF k < frame \/ block = -1 THEN BlockNum(frames[k]) ELSE block

(* p is the packet j of its frame.                                         *)
IsPacket(p, j) ==
  /\ p.from = BlockSize * j
  /\ p.size = PayloadSize(frames[p.frame], j)
  /\ p.mark <=> j = BlockNum(frames[p.frame]) - 1

Before(p, q) == p.frame < q.frame \/ (p.frame = q.frame /\ p.from < q.from)

(* The network holds packets that were sent, in the order of sending.      *)
NetInv ==
  /\ \A i \in DOMAIN net :
       /\ net[i].frame \in 1 .. frame
       /\ \E j \in 0 .. SentOf(net[i].frame) - 1 : IsPacket(net[i], j)
  /\ \A i, j \in DOMAIN net : i < j => Before(net[i], net[j])

LoopInv ==
  block # -1 => frame >= 1 /\ block \in 0 .. BlockNum(length) - 1

InNet(k, j) == \E i \in DOMAIN net : net[i].frame = k /\ net[i].from = BlockSize * j
MarkerInNet(k) == \E i \in DOMAIN net : net[i].frame = k /\ net[i].mark
NoneBefore(k) == \A i \in DOMAIN net : net[i].frame >= k

(* The receiver awaits the marker before frame k, and has had none of k.   *)
Waiting(k) ==
  /\ MarkerInNet(k - 1)
  /\ k <= frame => \A j \in 0 .. SentOf(k) - 1 : InNet(k, j)

(* The receiver has the first packets of frame k, or none, and nothing     *)
(* else; the others that were sent are under way and come next.            *)
Reading(k) ==
  /\ NoneBefore(k)
  /\ k > frame => outbuf = <<>>
  /\ k <= frame =>
       LET r == Len(outbuf)
       IN /\ r <= BlockNum(frames[k]) - 1 /\ r <= SentOf(k)
          /\ \A i \in 1 .. r : /\ outbuf[i].frame = k
                               /\ outbuf[i].from = BlockSize * (i - 1)
                               /\ outbuf[i].size = BlockSize
          /\ \A j \in r .. SentOf(k) - 1 : InNet(k, j)
          /\ \A i \in DOMAIN net : net[i].frame = k => net[i].from >= BlockSize * r

(* The frames given to send_rtp, and the next one when it is idle.         *)
Heads == {k \in 1 .. frame + 1 : k <= frame \/ block = -1}

Received(k) == k <= frame /\ Delivered(k)

LocalInv ==
  \A k \in Heads : Undisturbed(k) => Waiting(k) \/ Reading(k) \/ Received(k)

(* The timestamps: those of a frame are the current one while it is sent,  *)
(* and the next frame will have a later one.                               *)
Packets == Range(net) \cup disturbed \cup Range(outbuf)
           \cup UNION {Range(b) : b \in Range(delivered)}

TimeInv ==
  /\ \A p \in Packets : p.frame <= frame /\ p.ts <= ts
  /\ \A p, q \in Packets : p.frame = q.frame <=> p.ts = q.ts
  /\ block = 0 => rtpTsLen > 0 /\ \A p \in Packets : p.frame < frame
  /\ block # 0 => rtpTsLen = 0 /\ \A p \in Packets : p.frame = frame <=> p.ts = ts

(* As long as nothing was disturbed the frames come out in turn.           *)
TurnInv ==
  disturbed = {} =>
    /\ Len(delivered) <= frame
    /\ block # -1 => Len(delivered) < frame
    /\ \A i \in DOMAIN delivered : IsFrame(delivered[i], i)
    /\ \A i \in DOMAIN net : net[i].frame > Len(delivered)

IInv == TypeOK /\ NetInv /\ LoopInv /\ LocalInv /\ TimeInv /\ TurnInv

-----------------------------------------------------------------------------
(* Arithmetic of the cut                                                   *)

LEMMA Blocks ==
  ASSUME NEW i \in Nat, NEW j \in Nat
  PROVE  /\ BlockSize * i \in Nat
         /\ BlockSize * (i + 1) = BlockSize * i + BlockSize
         /\ i < j => BlockSize * i + BlockSize <= BlockSize * j
         /\ BlockSize * i = BlockSize * j => i = j
         /\ BlockSize * i < BlockSize * j => i < j
<1>1. BlockSize * i \in Nat /\ BlockSize * j \in Nat
  BY FramingAssumption
<1>2. ASSUME NEW m \in Nat PROVE BlockSize * (m + 1) = BlockSize * m + BlockSize
  BY FramingAssumption
<1>3. ASSUME NEW m \in Nat, NEW n \in Nat, m < n
      PROVE  BlockSize * m + BlockSize <= BlockSize * n
  <2> DEFINE d == n - m - 1
  <2>1. d \in Nat /\ n = m + 1 + d
    BY <1>3
  <2> HIDE DEF d
  <2>2. BlockSize * (m + 1 + d) = BlockSize * m + BlockSize + BlockSize * d
    BY <2>1, FramingAssumption
  <2>3. BlockSize * d \in Nat /\ BlockSize * m \in Nat
    BY <2>1, FramingAssumption
  <2> QED
    BY <2>1, <2>2, <2>3, FramingAssumption
<1>4. i < j => BlockSize * i + BlockSize <= BlockSize * j
  BY <1>3
<1>5. j < i => BlockSize * j + BlockSize <= BlockSize * i
  BY <1>3
<1>6. BlockSize \in Nat /\ BlockSize > 0
  BY FramingAssumption
<1> QED
  BY <1>1, <1>2, <1>4, <1>5, <1>6

LEMMA Cut ==
  ASSUME NEW len \in Nat \ {0}
  PROVE  /\ BlockNum(len) \in Nat \ {0}
         /\ BlockSize * (BlockNum(len) - 1) < len
         /\ len <= BlockSize * BlockNum(len)
<1>1. CASE len <= BlockSize
  BY <1>1, FramingAssumption DEF BlockNum
<1>2. CASE len > BlockSize
  <2> DEFINE q == len \div BlockSize
             m == len % BlockSize
  <2>1. q \in Int /\ m \in 0 .. BlockSize - 1 /\ len = BlockSize * q + m
    BY FramingAssumption
  <2>2. BlockNum(len) = q + (IF m # 0 THEN 1 ELSE 0)
    BY <1>2, FramingAssumption DEF BlockNum
  <2> HIDE DEF q, m
  <2>3. q > 0
    BY <1>2, <2>1, FramingAssumption
  <2>4. /\ BlockSize * (q - 1) = BlockSize * q - BlockSize
        /\ BlockSize * (q + 1) = BlockSize * q + BlockSize
        /\ BlockSize * q \in Nat
    BY <2>1, <2>3, FramingAssumption
  <2> QED
    BY <2>1, <2>2, <2>3, <2>4, FramingAssumption
<1> QED
  BY <1>1, <1>2, FramingAssumption

LEMMA Payloads ==
  ASSUME NEW len \in Nat \ {0}, NEW i \in 0 .. BlockNum(len) - 1
  PROVE  /\ PayloadSize(len, i) \in 1 .. BlockSize
         /\ i # BlockNum(len) - 1 => PayloadSize(len, i) = BlockSize
         /\ i = BlockNum(len) - 1 => BlockSize * i + PayloadSize(len, i) = len
<1> DEFINE N == BlockNum(len)
<1>1. N \in Nat \ {0} /\ BlockSize * (N - 1) < len /\ len <= BlockSize * N
  BY Cut
<1> HIDE DEF N
<1>2. i \in Nat /\ i <= N - 1 /\ N - 1 \in Nat
  BY <1>1 DEF N
<1>3. /\ BlockSize * i \in Nat
      /\ BlockSize * (N - 1) \in Nat
      /\ i < N - 1 => BlockSize * i + BlockSize <= BlockSize * (N - 1)
      /\ BlockSize * N = BlockSize * (N - 1) + BlockSize
  <2>1. N = (N - 1) + 1
    BY <1>1
  <2> QED
    BY <1>2, <2>1, Blocks
<1>4. CASE i = N - 1
  BY <1>1, <1>3, <1>4, FramingAssumption DEF PayloadSize, N
<1>5. CASE i # N - 1
  BY <1>1, <1>2, <1>3, <1>5, FramingAssumption DEF PayloadSize, N
<1> QED
  BY <1>4, <1>5

-----------------------------------------------------------------------------
(* Sequences                                                               *)

LEMMA AppendSeq ==
  ASSUME NEW S, NEW s \in Seq(S), NEW e \in S
  PROVE  /\ Append(s, e) \in Seq(S)
         /\ Len(Append(s, e)) = Len(s) + 1
         /\ DOMAIN Append(s, e) = 1 .. Len(s) + 1
         /\ \A i \in DOMAIN s : Append(s, e)[i] = s[i]
         /\ Append(s, e)[Len(s) + 1] = e
         /\ Range(Append(s, e)) = Range(s) \cup {e}
  BY DEF Range

LEMMA RemoveSeq ==
  ASSUME NEW S, NEW s \in Seq(S), NEW i \in 1 .. Len(s)
  PROVE  /\ RemoveAt(s, i) \in Seq(S)
         /\ Len(RemoveAt(s, i)) = Len(s) - 1
         /\ DOMAIN RemoveAt(s, i) = 1 .. Len(s) - 1
         /\ \A j \in 1 .. Len(s) - 1 :
              RemoveAt(s, i)[j] = IF j < i THEN s[j] ELSE s[j + 1]
<1> DEFINE a == SubSeq(s, 1, i - 1)
           b == SubSeq(s, i + 1, Len(s))
<1>1. /\ a \in Seq(S) /\ Len(a) = i - 1
      /\ \A j \in 1 .. i - 1 : a[j] = s[j]
  OBVIOUS
<1>2. /\ b \in Seq(S) /\ Len(b) = Len(s) - i
      /\ \A j \in 1 .. Len(s) - i : b[j] = s[j + i]
  OBVIOUS
<1>3. RemoveAt(s, i) = a \o b
  BY DEF RemoveAt
<1> HIDE DEF a, b
<1>0. Len(s) \in Nat /\ i \in Nat /\ DOMAIN s = 1 .. Len(s)
  OBVIOUS
<1>4. /\ a \o b \in Seq(S) /\ Len(a \o b) = Len(s) - 1
      /\ \A j \in 1 .. Len(s) - 1 :
           (a \o b)[j] = IF j <= Len(a) THEN a[j] ELSE b[j - Len(a)]
  <2>1. a \o b \in Seq(S) /\ Len(a \o b) = Len(a) + Len(b)
    BY <1>1, <1>2, Seqs!ConcatProperties
  <2>2. \A j \in 1 .. Len(a) + Len(b) :
          (a \o b)[j] = IF j <= Len(a) THEN a[j] ELSE b[j - Len(a)]
    BY <1>1, <1>2, Seqs!ConcatProperties
  <2> QED
    BY <1>0, <1>1, <1>2, <2>1, <2>2
<1>5. ASSUME NEW j \in 1 .. Len(s) - 1
      PROVE  (a \o b)[j] = IF j < i THEN s[j] ELSE s[j + 1]
  <2>1. CASE j < i
    BY <1>1, <1>4, <2>1
  <2>2. CASE j >= i
    <3>1. (a \o b)[j] = b[j - (i - 1)]
      BY <1>1, <1>4, <2>2
    <3>2. j - (i - 1) \in 1 .. Len(s) - i /\ j - (i - 1) + i = j + 1
      BY <2>2
    <3> QED
      BY <1>2, <2>2, <3>1, <3>2
  <2>3. j < i \/ j >= i
    BY <1>0
  <2>4. j >= i => ~(j < i)
    BY <1>0
  <2> QED
    BY <2>1, <2>2, <2>3, <2>4
<1>6. DOMAIN (a \o b) = 1 .. Len(s) - 1
  BY <1>4
<1> QED
  BY <1>3, <1>4, <1>5, <1>6

LEMMA RemoveRest ==
  ASSUME NEW S, NEW s \in Seq(S), NEW i \in 1 .. Len(s)
  PROVE  LET t == RemoveAt(s, i)
         IN /\ \A j \in DOMAIN t : \E m \in DOMAIN s : m # i /\ t[j] = s[m]
            /\ \A m \in DOMAIN s : m # i => \E j \in DOMAIN t : t[j] = s[m]
            /\ \A j, l \in DOMAIN t : j < l =>
                 \E m, n \in DOMAIN s : m < n /\ t[j] = s[m] /\ t[l] = s[n]
            /\ Range(t) \subseteq Range(s)
<1> DEFINE t == RemoveAt(s, i)
           At(j) == IF j < i THEN j ELSE j + 1
<1>0. Len(s) \in Nat /\ i \in Nat /\ DOMAIN s = 1 .. Len(s)
  OBVIOUS
<1>1. /\ DOMAIN t = 1 .. Len(s) - 1
      /\ \A j \in 1 .. Len(s) - 1 :
           At(j) \in DOMAIN s /\ At(j) # i /\ t[j] = s[At(j)]
  <2>1. /\ DOMAIN t = 1 .. Len(s) - 1
        /\ \A j \in 1 .. Len(s) - 1 : t[j] = IF j < i THEN s[j] ELSE s[j + 1]
    BY RemoveSeq
  <2> HIDE DEF t
  <2>2. ASSUME NEW j \in 1 .. Len(s) - 1
        PROVE  At(j) \in DOMAIN s /\ At(j) # i /\ t[j] = s[At(j)]
    <3>1. At(j) \in 1 .. Len(s) /\ At(j) # i
      BY <1>0
    <3>2. t[j] = s[At(j)]
      BY <2>1
    <3> QED
      BY <1>0, <3>1, <3>2
  <2> QED
    BY <2>1, <2>2
<1>2. \A j, l \in 1 .. Len(s) - 1 : j < l => At(j) < At(l)
  OBVIOUS
<1>3. ASSUME NEW m \in DOMAIN s, m # i PROVE \E j \in DOMAIN t : t[j] = s[m]
  <2>1. CASE m < i
    <3>1. m \in 1 .. Len(s) - 1 /\ At(m) = m
      BY <2>1
    <3> QED
      BY <1>1, <3>1
  <2>2. CASE m > i
    <3>1. m - 1 \in 1 .. Len(s) - 1 /\ At(m - 1) = m
      BY <2>2
    <3> QED
      BY <1>1, <3>1
  <2> QED
    BY <1>3, <2>1, <2>2
<1> HIDE DEF t, At
<1>4. Range(t) \subseteq Range(s)
  BY <1>1 DEF Range
<1>5. \A j, l \in DOMAIN t : j < l =>
         \E m, n \in DOMAIN s : m < n /\ t[j] = s[m] /\ t[l] = s[n]
  BY <1>1, <1>2
<1>6. \A j \in DOMAIN t : \E m \in DOMAIN s : m # i /\ t[j] = s[m]
  BY <1>1
<1> QED
  BY <1>3, <1>4, <1>5, <1>6 DEF t

-----------------------------------------------------------------------------
(* The frames and the packets of a state                                   *)

LEMMA FrameFacts ==
  ASSUME TypeOK
  PROVE  /\ frame \in Nat /\ DOMAIN frames = 1 .. frame
         /\ \A k \in 1 .. frame : frames[k] \in Nat \ {0}
         /\ \A k \in 1 .. frame : BlockNum(frames[k]) \in Nat \ {0}
<1>1. frame \in Nat /\ DOMAIN frames = 1 .. frame
  BY DEF TypeOK, frame
<1>2. \A k \in 1 .. frame : frames[k] \in Lengths
  <2>1. frames \in Seq(Lengths)
    BY DEF TypeOK
  <2> QED
    BY <2>1, Seqs!ElementOfSeq DEF frame
<1>3. \A k \in 1 .. frame : frames[k] \in Nat \ {0}
  BY <1>2, FramingAssumption
<1> QED
  BY <1>1, <1>3, Cut

LEMMA NetFacts ==
  ASSUME TypeOK
  PROVE  /\ Len(net) \in Nat /\ DOMAIN net = 1 .. Len(net)
         /\ \A i \in DOMAIN net :
              /\ net[i] \in Packet
              /\ net[i].frame \in Nat /\ net[i].from \in Nat
              /\ net[i].mark \in BOOLEAN /\ net[i].ts \in Nat
<1>1. net \in Seq(Packet)
  BY DEF TypeOK
<1>2. Len(net) \in Nat /\ DOMAIN net = 1 .. Len(net)
  BY <1>1
<1>3. \A i \in DOMAIN net : net[i] \in Packet
  BY <1>1, <1>2, Seqs!ElementOfSeq
<1>4. ASSUME NEW p \in Packet
      PROVE  p.frame \in Nat /\ p.from \in Nat /\ p.mark \in BOOLEAN /\ p.ts \in Nat
  BY FramingAssumption DEF Packet
<1> QED
  BY <1>2, <1>3, <1>4

LEMMA NewFrame ==
  ASSUME TypeOK, SendRtp
  PROVE  /\ frame' = frame + 1 /\ block = -1 /\ block' = 0
         /\ DOMAIN frames' = 1 .. frame + 1
         /\ \A k \in 1 .. frame : frames'[k] = frames[k]
         /\ frames' \in Seq(Lengths) /\ frame < MaxFrames
<1>1. PICK len \in Lengths : frames' = Append(frames, len)
  BY DEF SendRtp
<1> QED
  BY <1>1, AppendSeq DEF SendRtp, TypeOK, frame

LEMMA NewPacket ==
  ASSUME TypeOK, LoopInv, SendPacket,
         NEW p, p = [frame |-> frame, from |-> BlockSize * block,
                     size |-> PayloadSize(length, block),
                     mark |-> block = BlockNum(length) - 1, ts |-> ts']
  PROVE  /\ p \in Packet
         /\ net' = Append(net, p)
         /\ ts' = ts + rtpTsLen
         /\ frame >= 1 /\ block \in 0 .. BlockNum(length) - 1
         /\ block' = IF block = BlockNum(length) - 1 THEN -1 ELSE block + 1
         /\ frames' = frames /\ frame' = frame
<1>1. frame >= 1 /\ block \in 0 .. BlockNum(length) - 1
  BY FrameFacts DEF SendPacket, LoopInv, TypeOK
<1>2. length \in Nat \ {0} /\ frame \in 1 .. MaxFrames
  BY <1>1, FrameFacts DEF length, TypeOK, frame
<1>3. PayloadSize(length, block) \in 0 .. BlockSize /\ BlockSize * block \in Nat
  <2>1. PayloadSize(length, block) \in 1 .. BlockSize
    BY <1>1, <1>2, Payloads
  <2> QED
    BY <1>1, <2>1, FramingAssumption DEF TypeOK
<1>4. ts' = ts + rtpTsLen /\ ts' \in Nat
  BY DEF SendPacket, TypeOK
<1>5. p \in Packet
  BY <1>2, <1>3, <1>4 DEF Packet
<1> QED
  BY <1>1, <1>4, <1>5 DEF SendPacket, frame

LEMMA LostPacket ==
  ASSUME TypeOK, NEW i \in 1 .. Len(net), Lose(i)
  PROVE  /\ net' = RemoveAt(net, i)
         /\ disturbed' = disturbed \cup {net[i]} /\ net[i] \in Range(net)
         /\ frames' = frames /\ frame' = frame /\ block' = block
         /\ UNCHANGED <<rtpTsLen, totalLen, ts, outbuf, delivered>>
  BY NetFacts DEF Lose, frame, Range

LEMMA ReceivedPacket ==
  ASSUME TypeOK, NEW i \in 1 .. Len(net), OnRxRtp(i)
  PROVE  /\ net' = RemoveAt(net, i) /\ net[i] \in Packet /\ net[i] \in Range(net)
         /\ net[i].mark =>
              /\ outbuf' = <<>>
              /\ delivered' = Append(delivered, Append(outbuf, net[i]))
         /\ ~net[i].mark =>
              outbuf' = Append(outbuf, net[i]) /\ delivered' = delivered
         /\ frames' = frames /\ frame' = frame /\ block' = block
         /\ UNCHANGED <<rtpTsLen, totalLen, ts>>
         /\ disturbed \subseteq disturbed'
         /\ disturbed' \subseteq disturbed \cup Range(net)
         /\ i = 1 => disturbed' = disturbed
         /\ i # 1 => \A m \in 1 .. i : net[m] \in disturbed'
<1>1. net[i] \in Packet /\ net[i] \in Range(net)
  BY NetFacts DEF Range
<1>2. /\ Len(SubSeq(net, 1, i)) = i
      /\ DOMAIN SubSeq(net, 1, i) = 1 .. i
      /\ \A m \in 1 .. i : SubSeq(net, 1, i)[m] = net[m]
  <2>1. net \in Seq(Packet)
    BY DEF TypeOK
  <2> QED
    BY <2>1
<1>3. Range(SubSeq(net, 1, i)) = {net[m] : m \in 1 .. i}
  BY <1>2 DEF Range
<1>4. {net[m] : m \in 1 .. i} \subseteq Range(net)
  BY NetFacts DEF Range
<1>5. disturbed' = disturbed \cup IF i = 1 THEN {} ELSE {net[m] : m \in 1 .. i}
  BY <1>3 DEF OnRxRtp
<1>6. /\ disturbed \subseteq disturbed'
      /\ disturbed' \subseteq disturbed \cup Range(net)
      /\ i = 1 => disturbed' = disturbed
      /\ i # 1 => \A m \in 1 .. i : net[m] \in disturbed'
  BY <1>4, <1>5
<1> QED
  BY <1>1, <1>6 DEF OnRxRtp, Reassemble, frame

-----------------------------------------------------------------------------
(* The types                                                               *)

LEMMA InitInv == Init => IInv
<1> SUFFICES ASSUME Init PROVE IInv
  OBVIOUS
<1>1. /\ frames = <<>> /\ block = -1 /\ rtpTsLen = 0 /\ totalLen = 0 /\ ts = 0
      /\ net = <<>> /\ disturbed = {} /\ outbuf = <<>> /\ delivered = <<>>
  BY DEF Init
<1>2. frame = 0 /\ DOMAIN net = {} /\ DOMAIN frames = {} /\ DOMAIN delivered = {}
      /\ DOMAIN outbuf = {}
  BY <1>1 DEF frame
<1>3. TypeOK
  BY <1>1, FramingAssumption DEF TypeOK
<1>4. NetInv /\ LoopInv /\ TurnInv
  BY <1>1, <1>2 DEF NetInv, LoopInv, TurnInv
<1>5. Reading(1) /\ \A k \in Heads : k = 1
  BY <1>1, <1>2 DEF Reading, Heads, NoneBefore
<1>6. LocalInv
  BY <1>5 DEF LocalInv
<1>7. Packets = {}
  BY <1>1, <1>2 DEF Packets, Range
<1>8. TimeInv
  BY <1>1, <1>7 DEF TimeInv
<1> QED
  BY <1>3, <1>4, <1>6, <1>8 DEF IInv

LEMMA TypeStep ==
  ASSUME TypeOK, LoopInv, [Next]_vars
  PROVE  TypeOK'
<1>1. CASE SendRtp
  <2>1. totalLen' \in Nat /\ rtpTsLen' \in Nat
    BY <1>1, FramingAssumption DEF SendRtp, TypeOK
  <2>2. Len(frames') <= MaxFrames
    BY <1>1, NewFrame, FrameFacts, FramingAssumption DEF frame
  <2> QED
    BY <1>1, <2>1, <2>2, NewFrame DEF SendRtp, TypeOK
<1>2. CASE SendPacket
  <2> DEFINE p == [frame |-> frame, from |-> BlockSize * block,
                   size |-> PayloadSize(length, block),
                   mark |-> block = BlockNum(length) - 1, ts |-> ts']
  <2>1. /\ p \in Packet /\ net' = Append(net, p) /\ ts' = ts + rtpTsLen
        /\ block \in 0 .. BlockNum(length) - 1
        /\ block' = IF block = BlockNum(length) - 1 THEN -1 ELSE block + 1
    BY <1>2, NewPacket
  <2> HIDE DEF p
  <2>2. net' \in Seq(Packet)
    BY <2>1, AppendSeq DEF TypeOK
  <2>3. block' \in Int /\ block' >= -1
    BY <2>1 DEF TypeOK
  <2>4. rtpTsLen' \in Nat /\ ts' \in Nat
    BY <1>2, <2>1 DEF SendPacket, TsLenAfterPacket, TypeOK
  <2> QED
    BY <1>2, <2>2, <2>3, <2>4 DEF SendPacket, TypeOK
<1>3. ASSUME NEW i \in 1 .. Len(net), OnRxRtp(i)
      PROVE  TypeOK'
  <2> DEFINE p == net[i]
  <2>1. p \in Packet /\ net' = RemoveAt(net, i)
    BY <1>3, ReceivedPacket
  <2>2. net' \in Seq(Packet)
    BY <2>1, RemoveSeq DEF TypeOK
  <2>3. Range(net) \subseteq Packet
    BY NetFacts DEF Range
  <2>4. disturbed' \subseteq Packet
    <3>1. disturbed' \subseteq disturbed \cup Range(net)
      BY <1>3, ReceivedPacket
    <3> QED
      BY <2>3, <3>1 DEF TypeOK
  <2>5. Append(outbuf, p) \in Seq(Packet)
    BY <2>1, AppendSeq DEF TypeOK
  <2>6. outbuf' \in Seq(Packet) /\ delivered' \in Seq(Seq(Packet))
    <3>1. Append(delivered, Append(outbuf, p)) \in Seq(Seq(Packet))
      BY <2>5, AppendSeq DEF TypeOK
    <3>2. <<>> \in Seq(Packet)
      OBVIOUS
    <3>3. CASE net[i].mark
      BY <1>3, <3>1, <3>2, <3>3, ReceivedPacket
    <3>4. CASE ~net[i].mark
      BY <1>3, <2>5, <3>4, ReceivedPacket DEF TypeOK
    <3> QED
      BY <3>3, <3>4
  <2> QED
    BY <1>3, <2>2, <2>4, <2>6 DEF OnRxRtp, TypeOK
<1>4. ASSUME NEW i \in 1 .. Len(net), Lose(i)
      PROVE  TypeOK'
  <2>1. net' \in Seq(Packet)
    BY <1>4, LostPacket, RemoveSeq DEF TypeOK
  <2>2. disturbed' \subseteq Packet
    BY <1>4, LostPacket, NetFacts DEF TypeOK
  <2> QED
    BY <1>4, <2>1, <2>2, LostPacket DEF Lose, TypeOK
<1>5. CASE UNCHANGED vars
  BY <1>5 DEF vars, TypeOK
<1> QED
  BY <1>1, <1>2, <1>3, <1>4, <1>5 DEF Next, Receive

-----------------------------------------------------------------------------
(* The network and the loop                                                *)

LEMMA SentLater ==
  ASSUME TypeOK, LoopInv, SendRtp \/ SendPacket
  PROVE  /\ frame \in Nat /\ frame' \in Nat /\ frame <= frame'
         /\ \A k \in 1 .. frame :
              /\ frames'[k] = frames[k]
              /\ SentOf(k) \in 0 .. BlockNum(frames[k])
              /\ SentOf(k)' \in 0 .. BlockNum(frames[k])
              /\ SendRtp => SentOf(k)' = SentOf(k)
              /\ SendPacket => SentOf(k)' = IF k = frame THEN SentOf(k) + 1 ELSE SentOf(k)
<1>1. CASE SendRtp
  <2>1. /\ frame \in Nat /\ frame' = frame + 1 /\ block = -1 /\ block' = 0
        /\ \A k \in 1 .. frame : frames'[k] = frames[k]
        /\ \A k \in 1 .. frame : BlockNum(frames[k]) \in Nat \ {0}
    BY <1>1, NewFrame, FrameFacts
  <2>2. ~SendPacket
    BY <2>1 DEF SendPacket
  <2>3. \A k \in 1 .. frame : /\ SentOf(k) = BlockNum(frames[k])
                             /\ SentOf(k)' = BlockNum(frames[k])
    BY <2>1 DEF SentOf
  <2> QED
    BY <2>1, <2>2, <2>3
<1>2. CASE SendPacket
  <2>1. /\ frame >= 1 /\ block \in 0 .. BlockNum(length) - 1
        /\ block' = IF block = BlockNum(length) - 1 THEN -1 ELSE block + 1
        /\ frames' = frames /\ frame' = frame
    BY <1>2, NewPacket
  <2>2. ~SendRtp
    BY <2>1 DEF SendRtp
  <2> QED
    BY <2>1, <2>2, FrameFacts DEF SentOf, length
<1> QED
  BY <1>1, <1>2

LEMMA LoopStep ==
  ASSUME TypeOK, LoopInv, [Next]_vars
  PROVE  LoopInv'
<1>1. CASE SendRtp
  <2>1. TypeOK'
    BY TypeStep
  <2>2. frame' \in Nat \ {0} /\ block' = 0
    BY <1>1, NewFrame, FrameFacts
  <2>3. BlockNum(frames'[frame']) \in Nat \ {0}
    <3>1. frame' \in 1 .. frame' /\ frames' \in Seq(Lengths)
      BY <2>1, <2>2 DEF TypeOK
    <3>2. frames'[frame'] \in Lengths
      BY <3>1, Seqs!ElementOfSeq DEF frame
    <3> QED
      BY <3>2, Cut, FramingAssumption
  <2> QED
    BY <2>2, <2>3 DEF LoopInv, length
<1>2. CASE SendPacket
  <2>1. /\ frame >= 1 /\ block \in 0 .. BlockNum(length) - 1
        /\ block' = IF block = BlockNum(length) - 1 THEN -1 ELSE block + 1
        /\ frames' = frames /\ frame' = frame
    BY <1>2, NewPacket
  <2>2. BlockNum(length) \in Nat
    BY <2>1, FrameFacts DEF length
  <2>3. length' = length
    BY <2>1 DEF length, frame
  <2> QED
    BY <2>1, <2>2, <2>3 DEF LoopInv
<1>3. ASSUME frames' = frames, block' = block PROVE LoopInv'
  BY <1>3 DEF LoopInv, length, frame
<1> QED
  BY <1>1, <1>2, <1>3 DEF Next, Receive, Lose, OnRxRtp, vars

LEMMA NetStep ==
  ASSUME TypeOK, LoopInv, NetInv, [Next]_vars
  PROVE  NetInv'
<1>1. CASE SendRtp
  <2>1. net' = net
    BY <1>1 DEF SendRtp
  <2>2. ASSUME NEW i \in DOMAIN net
        PROVE  /\ net[i].frame \in 1 .. frame'
               /\ \E j \in 0 .. SentOf(net[i].frame)' - 1 : IsPacket(net[i], j)'
    <3>1. PICK j \in 0 .. SentOf(net[i].frame) - 1 : IsPacket(net[i], j)
      BY <2>2 DEF NetInv
    <3>2. net[i].frame \in 1 .. frame
      BY <2>2 DEF NetInv
    <3>3. /\ frame \in Nat /\ frame' \in Nat /\ frame <= frame'
          /\ frames'[net[i].frame] = frames[net[i].frame]
          /\ SentOf(net[i].frame)' = SentOf(net[i].frame)
      <4> DEFINE k == net[i].frame
      <4>1. k \in 1 .. frame
        BY <3>2
      <4>2. frame \in Nat /\ frame' \in Nat /\ frame <= frame'
        BY <1>1, SentLater
      <4>3. frames'[k] = frames[k]
        BY <1>1, <4>1, NewFrame
      <4>4. SentOf(k)' = SentOf(k)
        BY <1>1, <2>1, <4>1, <4>3, NewFrame, FrameFacts DEF SentOf
      <4> QED
        BY <4>2, <4>3, <4>4
    <3>4. IsPacket(net[i], j)'
      BY <2>1, <3>1, <3>3 DEF IsPacket
    <3> QED
      BY <2>1, <3>1, <3>2, <3>3, <3>4
  <2> QED
    BY <2>1, <2>2 DEF NetInv, Before
<1>2. CASE SendPacket
  <2> DEFINE p == [frame |-> frame, from |-> BlockSize * block,
                   size |-> PayloadSize(length, block),
                   mark |-> block = BlockNum(length) - 1, ts |-> ts']
  <2>1. /\ p \in Packet /\ net' = Append(net, p)
        /\ frame >= 1 /\ block \in 0 .. BlockNum(length) - 1
        /\ frames' = frames /\ frame' = frame
    BY <1>2, NewPacket
  <2>2. /\ frame \in Nat /\ Len(net) \in Nat /\ DOMAIN net = 1 .. Len(net)
        /\ DOMAIN net' = 1 .. Len(net) + 1
        /\ \A i \in DOMAIN net : net'[i] = net[i]
        /\ net'[Len(net) + 1] = p
    BY <2>1, FrameFacts, NetFacts, AppendSeq DEF TypeOK
  <2>3. /\ SentOf(frame) = block
        /\ \A k \in 1 .. frame :
             SentOf(k)' = IF k = frame THEN SentOf(k) + 1 ELSE SentOf(k)
    BY <1>2, <2>1, <2>2, SentLater DEF SentOf
  <2>4. p.frame = frame /\ p.from = BlockSize * block /\ IsPacket(p, block)
    BY DEF IsPacket, length
  <2> HIDE DEF p
  <2>5. ASSUME NEW i \in DOMAIN net'
        PROVE  /\ net'[i].frame \in 1 .. frame
               /\ \E j \in 0 .. SentOf(net[i].frame)' - 1 : IsPacket(net[i], j)'
    <3>1. CASE i \in DOMAIN net
      <4>1. PICK j \in 0 .. SentOf(net[i].frame) - 1 : IsPacket(net[i], j)
        BY <3>1 DEF NetInv
      <4>2. net[i].frame \in 1 .. frame
        BY <3>1 DEF NetInv
      <4>3. SentOf(net[i].frame) \in Nat
        BY <1>2, <4>2, SentLater
      <4>4. IsPacket(net[i], j)'
        BY <2>1, <2>2, <3>1, <4>1 DEF IsPacket
      <4>5. j \in 0 .. SentOf(net[i].frame)' - 1
        <5>1. PICK k \in 1 .. frame : k = net[i].frame
          BY <4>2
        <5>2. SentOf(k)' \in {SentOf(k), SentOf(k) + 1}
          BY <2>3
        <5>3. SentOf(net[i].frame)' = SentOf(k)' /\ SentOf(net[i].frame) = SentOf(k)
          BY <2>1, <2>2, <3>1, <5>1 DEF SentOf
        <5> QED
          BY <4>1, <4>3, <5>2, <5>3
      <4> QED
        BY <2>2, <3>1, <4>2, <4>4, <4>5
    <3>2. CASE i = Len(net) + 1
      <4>1. net'[i] = p
        BY <2>2, <3>2
      <4>2. PICK j \in 0 .. BlockNum(length) - 1, k \in 1 .. frame :
              j = block /\ k = frame
        BY <2>1, <2>2
      <4>3. IsPacket(net[i], j)'
        BY <2>1, <2>4, <4>1, <4>2 DEF IsPacket
      <4>4. SentOf(net[i].frame)' = SentOf(k)'
        BY <2>1, <2>4, <4>1, <4>2 DEF SentOf
      <4>5. SentOf(k) = j
        BY <2>3, <4>2 DEF SentOf
      <4>6. SentOf(k)' = j + 1
        BY <2>3, <4>2, <4>5
      <4>7. j \in 0 .. SentOf(net[i].frame)' - 1
        BY <2>1, <4>2, <4>4, <4>6
      <4> QED
        BY <2>1, <2>2, <2>4, <4>1, <4>3, <4>7
    <3> QED
      BY <2>2, <2>5, <3>1, <3>2
  <2>6. ASSUME NEW i \in DOMAIN net', NEW m \in DOMAIN net', i < m
        PROVE  Before(net'[i], net'[m])
    <3>1. CASE m \in DOMAIN net
      BY <2>2, <2>6, <3>1 DEF NetInv
    <3>2. CASE m = Len(net) + 1
      <4>1. i \in DOMAIN net /\ net'[i] = net[i] /\ net'[m] = p
        BY <2>2, <2>6, <3>2
      <4>2. PICK j \in 0 .. SentOf(net[i].frame) - 1 : IsPacket(net[i], j)
        BY <4>1 DEF NetInv
      <4>3. net[i].frame \in 1 .. frame
        BY <4>1 DEF NetInv
      <4>4. CASE net[i].frame = frame
        <5>1. j \in Nat /\ block \in Nat /\ j < block
          BY <2>1, <2>3, <4>2, <4>4
        <5>2. BlockSize * j < BlockSize * block
          <6>1. /\ BlockSize * j + BlockSize <= BlockSize * block
                /\ BlockSize * j \in Nat /\ BlockSize * block \in Nat
            BY <5>1, Blocks
          <6> QED
            BY <6>1, FramingAssumption
        <5> QED
          BY <2>4, <4>1, <4>2, <4>4, <5>2 DEF Before, IsPacket
      <4>5. CASE net[i].frame < frame
        BY <2>4, <4>1, <4>5 DEF Before
      <4> QED
        BY <2>2, <4>3, <4>4, <4>5
    <3> QED
      BY <2>2, <3>1, <3>2
  <2> QED
    BY <2>1, <2>5, <2>6 DEF NetInv, Before
<1>3. ASSUME NEW i \in 1 .. Len(net), net' = RemoveAt(net, i),
             frames' = frames, frame' = frame, block' = block
      PROVE  NetInv'
  <2>1. /\ \A j \in DOMAIN net' : \E m \in DOMAIN net : m # i /\ net'[j] = net[m]
        /\ \A j, l \in DOMAIN net' : j < l =>
             \E m, n \in DOMAIN net : m < n /\ net'[j] = net[m] /\ net'[l] = net[n]
    BY <1>3, RemoveRest DEF TypeOK
  <2>2. \A k : SentOf(k)' = SentOf(k)
    BY <1>3 DEF SentOf
  <2>3. ASSUME NEW j \in DOMAIN net'
        PROVE  /\ net'[j].frame \in 1 .. frame
               /\ \E l \in 0 .. SentOf(net[j].frame)' - 1 : IsPacket(net[j], l)'
    <3>1. PICK m \in DOMAIN net : net'[j] = net[m]
      BY <2>1
    <3>2. PICK l \in 0 .. SentOf(net[m].frame) - 1 : IsPacket(net[m], l)
      BY DEF NetInv
    <3>3. IsPacket(net[j], l)'
      BY <1>3, <3>1, <3>2 DEF IsPacket
    <3>4. SentOf(net[j].frame)' = SentOf(net[m].frame)
      BY <1>3, <3>1 DEF SentOf
    <3> QED
      BY <3>1, <3>2, <3>3, <3>4 DEF NetInv
  <2>4. \A j, l \in DOMAIN net' : j < l => Before(net'[j], net'[l])
    BY <2>1 DEF NetInv
  <2> QED
    BY <1>3, <2>3, <2>4 DEF NetInv, Before
<1>4. CASE UNCHANGED vars
  BY <1>4 DEF vars, NetInv, IsPacket, SentOf, frame, Before
<1>5. ASSUME NEW i \in 1 .. Len(net), OnRxRtp(i) \/ Lose(i)
      PROVE  NetInv'
  BY <1>3, <1>5, LostPacket, ReceivedPacket
<1> QED
  BY <1>1, <1>2, <1>4, <1>5 DEF Next, Receive

-----------------------------------------------------------------------------
(* The timestamps                                                          *)

(* A step that sends nothing adds no packet.                               *)
LEMMA NoNewPacket ==
  ASSUME TypeOK, NEW i \in 1 .. Len(net), Lose(i) \/ OnRxRtp(i)
  PROVE  Packets' \subseteq Packets
<1>1. net' = RemoveAt(net, i) /\ net[i] \in Range(net)
  BY LostPacket, ReceivedPacket
<1>2. Range(net') \subseteq Range(net)
  BY <1>1, RemoveRest DEF TypeOK
<1>3. disturbed' \subseteq disturbed \cup Range(net)
  BY LostPacket, ReceivedPacket
<1>4. outbuf \in Seq(Packet) /\ net[i] \in Packet /\ delivered \in Seq(Seq(Packet))
  BY NetFacts DEF TypeOK
<1>5. /\ Append(outbuf, net[i]) \in Seq(Packet)
      /\ Range(Append(outbuf, net[i])) = Range(outbuf) \cup {net[i]}
  BY <1>4, AppendSeq
<1>6. Range(<<>>) = {}
  BY DEF Range
<1>7. Range(outbuf') \subseteq Range(outbuf) \cup {net[i]}
  <2>1. CASE Lose(i)
    BY <2>1, LostPacket
  <2>2. CASE OnRxRtp(i)
    BY <2>2, <1>5, <1>6, ReceivedPacket
  <2> QED
    BY <2>1, <2>2
<1>8. ASSUME NEW b \in Range(delivered')
      PROVE  b \in Range(delivered) \/ b = Append(outbuf, net[i])
  <2>1. Range(Append(delivered, Append(outbuf, net[i])))
          = Range(delivered) \cup {Append(outbuf, net[i])}
    <3> DEFINE S == Seq(Packet)
               e == Append(outbuf, net[i])
    <3>1. delivered \in Seq(S) /\ e \in S
      BY <1>4, <1>5
    <3> HIDE DEF S, e
    <3>2. Range(Append(delivered, e)) = Range(delivered) \cup {e}
      BY <3>1, AppendSeq
    <3> QED
      BY <3>2 DEF e
  <2>2. delivered' = delivered \/ delivered' = Append(delivered, Append(outbuf, net[i]))
    BY LostPacket, ReceivedPacket
  <2> QED
    BY <1>8, <2>1, <2>2
<1>9. ASSUME NEW b \in Range(delivered'), NEW p \in Range(b)
      PROVE  p \in Packets
  <2>1. CASE b \in Range(delivered)
    BY <2>1 DEF Packets
  <2>2. CASE b = Append(outbuf, net[i])
    BY <1>1, <1>5, <1>9, <2>2 DEF Packets
  <2> QED
    BY <1>8, <2>1, <2>2
<1>10. Range(net') \cup disturbed' \cup Range(outbuf') \subseteq Packets
  BY <1>1, <1>2, <1>3, <1>7 DEF Packets
<1>11. Packets' = Range(net') \cup disturbed' \cup Range(outbuf')
                  \cup UNION {Range(b) : b \in Range(delivered')}
  BY DEF Packets
<1> QED
  BY <1>9, <1>10, <1>11

LEMMA PacketTypes ==
  ASSUME TypeOK
  PROVE  Packets \subseteq Packet
<1>1. ASSUME NEW s \in Seq(Packet) PROVE Range(s) \subseteq Packet
  <2>1. \A i \in 1 .. Len(s) : s[i] \in Packet
    BY Seqs!ElementOfSeq
  <2>2. DOMAIN s = 1 .. Len(s)
    OBVIOUS
  <2> QED
    BY <2>1, <2>2 DEF Range
<1>2. Range(delivered) \subseteq Seq(Packet)
  <2>1. delivered \in Seq(Seq(Packet))
    BY DEF TypeOK
  <2>2. \A i \in 1 .. Len(delivered) : delivered[i] \in Seq(Packet)
    BY <2>1, Seqs!ElementOfSeq
  <2>3. DOMAIN delivered = 1 .. Len(delivered)
    BY <2>1
  <2> QED
    BY <2>2, <2>3 DEF Range
<1>3. UNION {Range(b) : b \in Range(delivered)} \subseteq Packet
  BY <1>1, <1>2
<1> QED
  BY <1>1, <1>3 DEF TypeOK, Packets

LEMMA TimeStep ==
  ASSUME TypeOK, LoopInv, TimeInv, [Next]_vars
  PROVE  TimeInv'
<1>0. /\ \A p \in Packets : p.frame \in Nat /\ p.ts \in Nat
      /\ frame \in Nat /\ ts \in Nat /\ block \in Int
      /\ rtpTsLen \in Nat /\ totalLen \in Nat
  BY PacketTypes, FrameFacts DEF Packet, TypeOK
<1>1. CASE SendRtp
  <2>1. Packets' = Packets /\ ts' = ts
    BY <1>1 DEF SendRtp, Packets
  <2>2. block = -1 /\ block' = 0 /\ frame' = frame + 1
    BY <1>1, NewFrame
  <2>3. rtpTsLen' > 0
    BY <1>0, <1>1, FramingAssumption DEF SendRtp
  <2>4. \A p \in Packets : p.frame <= frame /\ p.ts <= ts
    BY DEF TimeInv
  <2>5. \A p \in Packets : p.frame <= frame' /\ p.frame < frame'
    BY <1>0, <2>2, <2>4
  <2> QED
    BY <2>1, <2>2, <2>3, <2>4, <2>5 DEF TimeInv
<1>2. CASE SendPacket
  <2> DEFINE q == [frame |-> frame, from |-> BlockSize * block,
                   size |-> PayloadSize(length, block),
                   mark |-> block = BlockNum(length) - 1, ts |-> ts']
  <2>1. /\ q \in Packet /\ net' = Append(net, q) /\ ts' = ts + rtpTsLen
        /\ frame >= 1 /\ block \in 0 .. BlockNum(length) - 1
        /\ block' = IF block = BlockNum(length) - 1 THEN -1 ELSE block + 1
        /\ frame' = frame
    BY <1>2, NewPacket
  <2>2. q.frame = frame /\ q.ts = ts'
    OBVIOUS
  <2> HIDE DEF q
  <2>3. Range(net') = Range(net) \cup {q}
    BY <2>1, AppendSeq DEF TypeOK
  <2>4. Packets' = Packets \cup {q}
    BY <1>2, <2>3 DEF SendPacket, Packets
  <2>5. block' # 0 /\ rtpTsLen' = 0
    BY <1>2, <2>1 DEF SendPacket, TsLenAfterPacket
  <2>6. CASE block = 0
    <3>1. rtpTsLen > 0 /\ \A p \in Packets : p.frame < frame
      BY <2>6 DEF TimeInv
    <3>2. \A p \in Packets : p.ts <= ts
      BY DEF TimeInv
    <3>3. \A p \in Packets : p.ts < ts' /\ p.frame < frame
      BY <1>0, <2>1, <3>1, <3>2
    <3>4. ts' \in Nat
      BY <1>0, <2>1
    <3>5. \A p, r \in Packets : p.frame = r.frame <=> p.ts = r.ts
      BY DEF TimeInv
    <3>6. \A p, r \in Packets' : p.frame = r.frame <=> p.ts = r.ts
      BY <1>0, <2>2, <2>4, <3>3, <3>4, <3>5
    <3>7. \A p \in Packets' : /\ p.frame <= frame /\ p.ts <= ts'
                              /\ p.frame = frame <=> p.ts = ts'
      BY <1>0, <2>2, <2>4, <3>3, <3>4
    <3> QED
      BY <2>1, <2>5, <3>6, <3>7 DEF TimeInv
  <2>7. CASE block # 0
    <3>1. rtpTsLen = 0 /\ \A p \in Packets : p.frame = frame <=> p.ts = ts
      BY <2>7 DEF TimeInv
    <3>2. ts' = ts
      BY <1>0, <2>1, <3>1
    <3>3. \A p \in Packets : p.frame <= frame /\ p.ts <= ts
      BY DEF TimeInv
    <3>4. \A p, r \in Packets : p.frame = r.frame <=> p.ts = r.ts
      BY DEF TimeInv
    <3>5. \A p, r \in Packets' : p.frame = r.frame <=> p.ts = r.ts
      BY <2>2, <2>4, <3>1, <3>2, <3>4
    <3>6. \A p \in Packets' : /\ p.frame <= frame /\ p.ts <= ts'
                              /\ p.frame = frame <=> p.ts = ts'
      BY <1>0, <2>2, <2>4, <3>1, <3>2, <3>3
    <3> QED
      BY <2>1, <2>5, <3>5, <3>6 DEF TimeInv
  <2> QED
    BY <2>6, <2>7
<1>3. ASSUME NEW i \in 1 .. Len(net), Lose(i) \/ OnRxRtp(i)
      PROVE  TimeInv'
  <2>1. Packets' \subseteq Packets
    BY <1>3, NoNewPacket
  <2>2. frame' = frame /\ block' = block /\ rtpTsLen' = rtpTsLen /\ ts' = ts
    BY <1>3, LostPacket, ReceivedPacket
  <2> QED
    BY <2>1, <2>2 DEF TimeInv
<1>4. CASE UNCHANGED vars
  BY <1>4 DEF vars, TimeInv, Packets, frame
<1> QED
  BY <1>1, <1>2, <1>3, <1>4 DEF Next, Receive

-----------------------------------------------------------------------------
(* The receiver                                                            *)

LEMMA SentRange ==
  ASSUME TypeOK, LoopInv, NEW k \in 1 .. frame
  PROVE  /\ SentOf(k) \in 0 .. BlockNum(frames[k])
         /\ k < frame => SentOf(k) = BlockNum(frames[k])
         /\ BlockNum(frames[k]) \in Nat \ {0} /\ frames[k] \in Nat \ {0}
  BY FrameFacts DEF SentOf, LoopInv, length, TypeOK

LEMMA PacketOf ==
  ASSUME TypeOK, LoopInv, NetInv, NEW m \in DOMAIN net
  PROVE  /\ net[m].frame \in 1 .. frame
         /\ \E j \in Nat :
              /\ j < SentOf(net[m].frame) /\ j <= BlockNum(frames[net[m].frame]) - 1
              /\ net[m].from = BlockSize * j
              /\ net[m].size = PayloadSize(frames[net[m].frame], j)
              /\ net[m].mark <=> j = BlockNum(frames[net[m].frame]) - 1
<1>1. net[m].frame \in 1 .. frame
  BY DEF NetInv
<1>2. /\ SentOf(net[m].frame) \in 0 .. BlockNum(frames[net[m].frame])
      /\ BlockNum(frames[net[m].frame]) \in Nat \ {0}
  BY <1>1, SentRange
<1>3. PICK j \in 0 .. SentOf(net[m].frame) - 1 : IsPacket(net[m], j)
  BY DEF NetInv
<1> QED
  BY <1>1, <1>2, <1>3 DEF IsPacket

(* Nothing older than the oldest packet is under way.                      *)
LEMMA FirstIsOldest ==
  ASSUME TypeOK, NetInv, NEW m \in DOMAIN net
  PROVE  /\ 1 \in DOMAIN net /\ Len(net) >= 1
         /\ net[1].frame <= net[m].frame
         /\ m # 1 /\ net[m].frame = net[1].frame => net[1].from < net[m].from
<1>1. Len(net) \in Nat /\ DOMAIN net = 1 .. Len(net)
  BY NetFacts
<1>2. 1 \in DOMAIN net /\ Len(net) >= 1
  BY <1>1
<1>3. /\ net[m].frame \in Nat /\ net[m].from \in Nat
      /\ net[1].frame \in Nat /\ net[1].from \in Nat
  BY <1>2, NetFacts
<1>4. m # 1 => Before(net[1], net[m])
  BY <1>1, <1>2 DEF NetInv
<1> QED
  BY <1>2, <1>3, <1>4 DEF Before

(* When the receiver is reading frame k the oldest packet under way is the *)
(* next one of k.                                                          *)
LEMMA OldestIsNext ==
  ASSUME TypeOK, LoopInv, NetInv, net # <<>>,
         NEW k \in Nat \ {0}, Reading(k), NEW r, r = Len(outbuf)
  PROVE  /\ k \in 1 .. frame /\ 1 \in DOMAIN net /\ net[1].frame = k
         /\ r \in 0 .. BlockNum(frames[k]) - 1 /\ r < SentOf(k)
         /\ net[1].from = BlockSize * r
         /\ net[1].size = PayloadSize(frames[k], r)
         /\ net[1].mark <=> r = BlockNum(frames[k]) - 1
<1>1. 1 \in DOMAIN net
  <2>1. net \in Seq(Packet)
    BY DEF TypeOK
  <2> QED
    BY <2>1
<1>2. frame \in Nat /\ net[1].frame \in 1 .. frame /\ net[1].frame >= k
  BY <1>1, PacketOf, FrameFacts DEF Reading, NoneBefore
<1>3. k \in 1 .. frame
  BY <1>2
<1>4. r \in Nat
  BY DEF TypeOK
<1>5. /\ SentOf(k) \in 0 .. BlockNum(frames[k])
      /\ k < frame => SentOf(k) = BlockNum(frames[k])
      /\ BlockNum(frames[k]) \in Nat \ {0}
  BY <1>3, SentRange
<1>6. /\ r <= BlockNum(frames[k]) - 1 /\ r <= SentOf(k)
      /\ \A j \in r .. SentOf(k) - 1 : InNet(k, j)
      /\ \A i \in DOMAIN net : net[i].frame = k => net[i].from >= BlockSize * r
  BY <1>2, <1>3 DEF Reading
<1>7. net[1].frame = k
  <2>1. SUFFICES ASSUME net[1].frame > k PROVE FALSE
    BY <1>2
  <2>2. r \in r .. SentOf(k) - 1
    BY <1>2, <1>3, <1>4, <1>5, <1>6, <2>1
  <2>3. PICK m \in DOMAIN net : net[m].frame = k
    BY <1>6, <2>2 DEF InNet
  <2>4. net[1].frame <= k
    BY <2>3, FirstIsOldest
  <2> QED
    BY <1>2, <2>1, <2>4
<1>8. PICK j \in Nat : /\ j < SentOf(k)
                       /\ net[1].from = BlockSize * j
                       /\ net[1].size = PayloadSize(frames[k], j)
                       /\ net[1].mark <=> j = BlockNum(frames[k]) - 1
  BY <1>1, <1>7, PacketOf
<1>9. j = r
  <2>1. BlockSize * j >= BlockSize * r
    BY <1>1, <1>6, <1>7, <1>8
  <2>2. ~(j < r)
    <3>1. /\ j < r => BlockSize * j + BlockSize <= BlockSize * r
          /\ BlockSize * j \in Nat /\ BlockSize * r \in Nat
      BY <1>4, Blocks
    <3> QED
      BY <2>1, <3>1, FramingAssumption
  <2>3. r \in r .. SentOf(k) - 1
    BY <1>4, <1>5, <1>8, <2>2
  <2>4. PICK m \in DOMAIN net : net[m].frame = k /\ net[m].from = BlockSize * r
    BY <1>6, <2>3 DEF InNet
  <2>5. BlockSize * j <= BlockSize * r
    BY <1>7, <1>8, <2>4, FirstIsOldest, NetFacts
  <2>6. BlockSize * j \in Nat /\ BlockSize * r \in Nat
    BY <1>4, Blocks
  <2>7. BlockSize * j = BlockSize * r
    BY <2>1, <2>5, <2>6
  <2> QED
    BY <1>4, <2>7, Blocks
<1> QED
  BY <1>1, <1>3, <1>4, <1>5, <1>6, <1>7, <1>8, <1>9

(* With the last packet of frame k outbuf is that frame.                   *)
LEMMA WholeFrame ==
  ASSUME TypeOK, LoopInv, NetInv, net # <<>>, net[1].mark,
         NEW k \in Nat \ {0}, Reading(k)
  PROVE  IsFrame(Append(outbuf, net[1]), k)
<1> DEFINE r == Len(outbuf)
           buf == Append(outbuf, net[1])
<1>1. /\ k \in 1 .. frame /\ 1 \in DOMAIN net /\ net[1].frame = k
      /\ r \in 0 .. BlockNum(frames[k]) - 1
      /\ net[1].from = BlockSize * r
      /\ net[1].size = PayloadSize(frames[k], r)
      /\ r = BlockNum(frames[k]) - 1
  BY OldestIsNext
<1>2. outbuf \in Seq(Packet) /\ net[1] \in Packet
  BY <1>1, NetFacts DEF TypeOK
<1>3. /\ buf \in Seq(Packet) /\ Len(buf) = r + 1 /\ DOMAIN buf = 1 .. r + 1
      /\ DOMAIN outbuf = 1 .. r
      /\ \A i \in 1 .. r : buf[i] = outbuf[i]
      /\ buf[r + 1] = net[1]
  BY <1>2, AppendSeq
<1>4. frame \in Nat /\ frames[k] \in Nat \ {0}
  BY <1>1, FrameFacts
<1>5. \A i \in 1 .. r : /\ outbuf[i].frame = k
                        /\ outbuf[i].from = BlockSize * (i - 1)
                        /\ outbuf[i].size = BlockSize
  BY <1>1, <1>4 DEF Reading
<1>6. BlockSize * r + PayloadSize(frames[k], r) = frames[k]
  BY <1>1, <1>4, Payloads
<1> HIDE DEF r, buf
<1>7. \A i \in 1 .. r + 1 : buf[i].frame = k /\ buf[i].from = BlockSize * (i - 1)
  <2>1. ASSUME NEW i \in 1 .. r + 1
        PROVE  buf[i].frame = k /\ buf[i].from = BlockSize * (i - 1)
    <3>1. CASE i \in 1 .. r
      BY <1>3, <1>5, <3>1
    <3>2. CASE i = r + 1
      <4>1. i - 1 = r
        BY <1>1, <3>2
      <4> QED
        BY <1>1, <1>3, <3>2, <4>1
    <3> QED
      BY <1>1, <2>1, <3>1, <3>2
  <2> QED
    BY <2>1
<1>8. buf # <<>> /\ Last(buf) = net[1]
  BY <1>1, <1>3 DEF Last
<1>9. buf[1].from = 0
  BY <1>1, <1>7, FramingAssumption
<1>10. ASSUME NEW i \in 2 .. Len(buf)
       PROVE  buf[i].from = buf[i-1].from + buf[i-1].size
  <2>1. i - 1 \in 1 .. r /\ i - 2 \in Nat /\ i \in 1 .. r + 1
    BY <1>1, <1>3
  <2>2. buf[i-1].size = BlockSize /\ buf[i-1].from = BlockSize * (i - 2)
    <3>1. (i - 1) - 1 = i - 2
      BY <2>1
    <3> QED
      BY <1>3, <1>5, <2>1, <3>1
  <2>3. buf[i].from = BlockSize * (i - 1)
    BY <1>7, <2>1
  <2>4. BlockSize * ((i - 2) + 1) = BlockSize * (i - 2) + BlockSize
    BY <2>1, Blocks
  <2>5. (i - 2) + 1 = i - 1
    BY <2>1
  <2> QED
    BY <2>2, <2>3, <2>4, <2>5
<1>11. Last(buf).from + Last(buf).size = frames[k]
  BY <1>1, <1>6, <1>8 DEF r
<1>12. IsFrame(buf, k)
  BY <1>3, <1>7, <1>8, <1>9, <1>10, <1>11 DEF IsFrame
<1> QED
  BY <1>12 DEF buf

LEMMA DeliveredStays ==
  ASSUME TypeOK, LoopInv, [Next]_vars, NEW k \in 1 .. frame, Delivered(k)
  PROVE  /\ frame' \in Nat /\ frame <= frame' /\ Delivered(k)'
         /\ frames'[k] = frames[k]
<1>1. /\ frame' \in Nat /\ frame <= frame' /\ frames'[k] = frames[k]
  <2>1. CASE SendRtp \/ SendPacket
    BY <2>1, SentLater
  <2>2. CASE frames' = frames
    BY <2>2, FrameFacts DEF frame
  <2> QED
    BY <2>1, <2>2 DEF Next, Receive, OnRxRtp, Lose, vars
<1>2. PICK i \in DOMAIN delivered : IsFrame(delivered[i], k)
  BY DEF Delivered
<1>3. i \in DOMAIN delivered' /\ delivered'[i] = delivered[i]
  <2>1. CASE delivered' = delivered
    BY <2>1
  <2>2. ASSUME NEW m \in 1 .. Len(net), OnRxRtp(m)
        PROVE  i \in DOMAIN delivered' /\ delivered'[i] = delivered[i]
    <3> DEFINE S == Seq(Packet)
               e == Append(outbuf, net[m])
    <3>1. delivered \in Seq(S) /\ e \in S
      BY <2>2, NetFacts, AppendSeq DEF TypeOK
    <3>2. delivered' \in {delivered, Append(delivered, e)}
      BY <2>2, ReceivedPacket
    <3> HIDE DEF S, e
    <3>3. /\ DOMAIN Append(delivered, e) = 1 .. Len(delivered) + 1
          /\ DOMAIN delivered = 1 .. Len(delivered)
          /\ \A j \in DOMAIN delivered : Append(delivered, e)[j] = delivered[j]
          /\ Len(delivered) \in Nat
      BY <3>1, AppendSeq
    <3> QED
      BY <3>2, <3>3
  <2> QED
    BY <2>1, <2>2 DEF Next, Receive, SendRtp, SendPacket, Lose, vars
<1>4. IsFrame(delivered[i], k)'
  BY <1>1, <1>2, <1>3 DEF IsFrame
<1> QED
  BY <1>1, <1>3, <1>4 DEF Delivered

LEMMA UndisturbedBefore ==
  ASSUME TypeOK, [Next]_vars, NEW k, Undisturbed(k)'
  PROVE  Undisturbed(k)
<1>1. disturbed \subseteq disturbed'
  <2>1. ASSUME NEW i \in 1 .. Len(net), OnRxRtp(i)
        PROVE  disturbed \subseteq disturbed'
    BY <2>1, ReceivedPacket
  <2> QED
    BY <2>1 DEF Next, Receive, SendRtp, SendPacket, Lose, vars
<1> QED
  BY <1>1 DEF Undisturbed

(* send_rtp takes a frame.                                                 *)
LEMMA LocalNewFrame ==
  ASSUME TypeOK, LoopInv, LocalInv, SendRtp
  PROVE  LocalInv'
<1>1. /\ frame \in Nat /\ frame' = frame + 1 /\ block = -1 /\ block' = 0
      /\ \A k \in 1 .. frame : frames'[k] = frames[k]
  BY NewFrame, FrameFacts
<1>2. UNCHANGED <<net, outbuf, delivered, disturbed>>
  BY DEF SendRtp
<1>3. ASSUME NEW k \in Heads', Undisturbed(k)'
      PROVE  Waiting(k)' \/ Reading(k)' \/ Received(k)'
  <2>1. k \in 1 .. frame + 1 /\ k \in Heads
    BY <1>1 DEF Heads
  <2>2. Undisturbed(k)
    BY <1>2, <1>3 DEF Undisturbed
  <2>3. CASE k <= frame
    <3>1. k \in 1 .. frame
      BY <1>1, <2>1, <2>3
    <3>2. SentOf(k)' = SentOf(k) /\ frames'[k] = frames[k] /\ k <= frame'
      BY <1>1, <3>1, SentLater
    <3>3. CASE Waiting(k)
      BY <1>2, <2>3, <3>2, <3>3 DEF Waiting, MarkerInNet, InNet
    <3>4. CASE Reading(k)
      <4>1. ~(k > frame')
        BY <1>1, <3>1
      <4> QED
        BY <1>2, <2>3, <3>2, <3>4, <4>1 DEF Reading, NoneBefore, InNet
    <3>5. CASE Received(k)
      BY <3>1, <3>2, <3>5, DeliveredStays DEF Received, Next
    <3> QED
      BY <2>1, <2>2, <3>3, <3>4, <3>5 DEF LocalInv
  <2>4. CASE k = frame + 1
    <3>1. SentOf(k)' = 0 /\ k <= frame'
      BY <1>1, <2>4 DEF SentOf
    <3>2. CASE Waiting(k)
      BY <1>2, <3>1, <3>2 DEF Waiting, MarkerInNet
    <3>3. CASE Reading(k)
      <4>1. outbuf = <<>> /\ Len(outbuf) = 0
        BY <1>1, <2>4, <3>3 DEF Reading
      <4>2. k \in 1 .. Len(frames') /\ frames' \in Seq(Lengths)
        BY <1>1, <2>4, NewFrame DEF frame
      <4>3. frames'[k] \in Lengths
        BY <4>2, Seqs!ElementOfSeq
      <4>4. BlockNum(frames'[k]) \in Nat \ {0}
        BY <4>3, Cut, FramingAssumption
      <4>5. \A i \in DOMAIN net : net[i].frame = k => net[i].from >= BlockSize * 0
        BY NetFacts, FramingAssumption
      <4>6. ~(k > frame')
        BY <1>1, <2>4
      <4> QED
        BY <1>2, <3>1, <3>3, <4>1, <4>4, <4>5, <4>6 DEF Reading, NoneBefore
    <3>4. CASE Received(k)
      BY <1>1, <2>4, <3>4 DEF Received
    <3> QED
      BY <2>1, <2>2, <3>2, <3>3, <3>4 DEF LocalInv
  <2> QED
    BY <1>1, <2>1, <2>3, <2>4
<1> QED
  BY <1>3 DEF LocalInv

(* send_rtp sends a packet.                                                *)
LEMMA LocalNewPacket ==
  ASSUME TypeOK, LoopInv, LocalInv, SendPacket
  PROVE  LocalInv'
<1> DEFINE p == [frame |-> frame, from |-> BlockSize * block,
                 size |-> PayloadSize(length, block),
                 mark |-> block = BlockNum(length) - 1, ts |-> ts']
<1>1. /\ p \in Packet /\ net' = Append(net, p)
      /\ frame >= 1 /\ block \in 0 .. BlockNum(length) - 1
      /\ block' = IF block = BlockNum(length) - 1 THEN -1 ELSE block + 1
      /\ frames' = frames /\ frame' = frame /\ frame \in Nat
  BY NewPacket, FrameFacts
<1>2. /\ Len(net) \in Nat /\ DOMAIN net = 1 .. Len(net)
      /\ DOMAIN net' = 1 .. Len(net) + 1
      /\ \A i \in DOMAIN net : net'[i] = net[i]
      /\ net'[Len(net) + 1] = p
  BY <1>1, NetFacts, AppendSeq DEF TypeOK
<1>3. /\ p.frame = frame /\ p.from = BlockSize * block
      /\ p.mark <=> block = BlockNum(length) - 1
  OBVIOUS
<1> HIDE DEF p
<1>4. UNCHANGED <<outbuf, delivered, disturbed>>
  BY DEF SendPacket
<1>5. /\ \A k : MarkerInNet(k) => MarkerInNet(k)'
      /\ \A k, j : InNet(k, j) => InNet(k, j)'
  <2>1. DOMAIN net \subseteq DOMAIN net'
    BY <1>2
  <2> QED
    BY <1>2, <2>1 DEF MarkerInNet, InNet
<1>6. \A k \in 1 .. frame : NoneBefore(k) => NoneBefore(k)'
  <2>1. ASSUME NEW k \in 1 .. frame, NoneBefore(k), NEW i \in DOMAIN net'
        PROVE  net'[i].frame >= k
    <3>1. CASE i \in DOMAIN net
      BY <1>2, <2>1, <3>1 DEF NoneBefore
    <3>2. CASE i = Len(net) + 1
      BY <1>1, <1>2, <1>3, <3>2
    <3> QED
      BY <1>2, <3>1, <3>2
  <2> QED
    BY <2>1 DEF NoneBefore
<1>7. ASSUME NEW k \in 1 .. frame, Undisturbed(k)'
      PROVE  Waiting(k)' \/ Reading(k)' \/ Received(k)'
  <2>1. k \in Heads /\ Undisturbed(k)
    BY <1>1, <1>4, <1>7 DEF Heads, Undisturbed
  <2>2. /\ SentOf(k) \in 0 .. BlockNum(frames[k])
        /\ SentOf(k)' = IF k = frame THEN SentOf(k) + 1 ELSE SentOf(k)
        /\ k = frame => SentOf(k) = block
    <3>1. SentOf(k)' = IF k = frame THEN SentOf(k) + 1 ELSE SentOf(k)
      BY SentLater DEF SendPacket, SendRtp
    <3>2. k = frame => SentOf(k) = block
      BY <1>1 DEF SentOf
    <3> QED
      BY <3>1, <3>2, SentRange
  <2>3. ASSUME NEW j \in Nat, j < SentOf(k)', InNet(k, j) \/ j >= SentOf(k)
        PROVE  InNet(k, j)'
    <3>1. CASE InNet(k, j)
      BY <1>5, <3>1
    <3>2. CASE j >= SentOf(k)
      <4>1. k = frame /\ j = block
        BY <2>2, <2>3, <3>2
      <4>2. net'[Len(net) + 1].frame = k /\ net'[Len(net) + 1].from = BlockSize * j
        BY <1>2, <1>3, <4>1
      <4>3. Len(net) + 1 \in DOMAIN net'
        BY <1>2
      <4> QED
        BY <4>2, <4>3 DEF InNet
    <3> QED
      BY <2>3, <3>1, <3>2
  <2>4. CASE Waiting(k)
    <3>1. MarkerInNet(k - 1)'
      BY <1>5, <2>4 DEF Waiting
    <3>2. ASSUME NEW j \in 0 .. SentOf(k)' - 1 PROVE InNet(k, j)'
      <4>1. j < SentOf(k) => j \in 0 .. SentOf(k) - 1
        BY <2>2
      <4>2. InNet(k, j) \/ j >= SentOf(k)
        BY <1>1, <2>2, <2>4, <4>1 DEF Waiting
      <4>3. j \in Nat /\ j < SentOf(k)'
        BY <2>2
      <4> QED
        BY <2>3, <4>2, <4>3
    <3> QED
      BY <3>1, <3>2 DEF Waiting
  <2>5. CASE Reading(k)
    <3> DEFINE r == Len(outbuf)
    <3>1. /\ r \in Nat /\ r <= BlockNum(frames[k]) - 1 /\ r <= SentOf(k)
          /\ \A i \in 1 .. r : /\ outbuf[i].frame = k
                               /\ outbuf[i].from = BlockSize * (i - 1)
                               /\ outbuf[i].size = BlockSize
          /\ \A j \in r .. SentOf(k) - 1 : InNet(k, j)
          /\ \A i \in DOMAIN net : net[i].frame = k => net[i].from >= BlockSize * r
      <4>1. r \in Nat
        BY DEF TypeOK
      <4>2. k <= frame
        BY <1>1
      <4> QED
        BY <2>5, <4>1, <4>2 DEF Reading
    <3>2. ASSUME NEW j \in r .. SentOf(k)' - 1 PROVE InNet(k, j)'
      <4>1. j < SentOf(k) => j \in r .. SentOf(k) - 1
        BY <2>2, <3>1
      <4>2. InNet(k, j) \/ j >= SentOf(k)
        BY <2>2, <3>1, <4>1
      <4>3. j \in Nat /\ j < SentOf(k)'
        BY <2>2, <3>1
      <4> QED
        BY <2>3, <4>2, <4>3
    <3>3. ASSUME NEW i \in DOMAIN net', net'[i].frame = k
          PROVE  net'[i].from >= BlockSize * r
      <4>1. CASE i \in DOMAIN net
        BY <1>2, <3>1, <3>3, <4>1
      <4>2. CASE i = Len(net) + 1
        <5>1. k = frame /\ net'[i].from = BlockSize * block
          BY <1>2, <1>3, <3>3, <4>2
        <5>2. r <= block /\ block \in Nat
          BY <1>1, <2>2, <3>1, <5>1
        <5>3. /\ BlockSize * r \in Nat /\ BlockSize * block \in Nat
              /\ r < block => BlockSize * r + BlockSize <= BlockSize * block
          BY <3>1, <5>2, Blocks
        <5>4. CASE r = block
          BY <5>1, <5>3, <5>4
        <5>5. CASE r < block
          BY <5>1, <5>3, <5>5, FramingAssumption
        <5> QED
          BY <3>1, <5>2, <5>4, <5>5
      <4> QED
        BY <1>2, <4>1, <4>2
    <3>4. r <= SentOf(k)'
      BY <2>2, <3>1
    <3>5. NoneBefore(k)'
      BY <1>6, <2>5 DEF Reading
    <3>6. ~(k > frame')
      BY <1>1
    <3> QED
      BY <1>1, <1>4, <3>1, <3>2, <3>3, <3>4, <3>5, <3>6 DEF Reading
  <2>6. CASE Received(k)
    <3>1. Delivered(k)'
      BY <2>6, DeliveredStays DEF Received, Next
    <3> QED
      BY <1>1, <3>1 DEF Received
  <2> QED
    BY <2>1, <2>4, <2>5, <2>6 DEF LocalInv
<1>8. ASSUME NEW k, k = frame + 1, block' = -1
      PROVE  Waiting(k)'
  <2>1. net'[Len(net) + 1].frame = k - 1 /\ net'[Len(net) + 1].mark
    BY <1>1, <1>2, <1>3, <1>8
  <2>2. Len(net) + 1 \in DOMAIN net' /\ ~(k <= frame')
    BY <1>1, <1>2, <1>8
  <2> QED
    BY <2>1, <2>2 DEF Waiting, MarkerInNet
<1>9. ASSUME NEW k \in Heads' PROVE k \in 1 .. frame \/ (k = frame + 1 /\ block' = -1)
  BY <1>1 DEF Heads
<1> QED
  BY <1>7, <1>8, <1>9 DEF LocalInv

(* A packet is lost.                                                       *)
LEMMA LocalLoss ==
  ASSUME TypeOK, LoopInv, LocalInv, NEW i \in 1 .. Len(net), Lose(i)
  PROVE  LocalInv'
<1>1. /\ frames' = frames /\ frame' = frame /\ block' = block
      /\ UNCHANGED <<outbuf, delivered>>
      /\ net' = RemoveAt(net, i) /\ disturbed' = disturbed \cup {net[i]}
  BY LostPacket
<1>2. /\ \A j \in DOMAIN net' : \E m \in DOMAIN net : net'[j] = net[m]
      /\ \A m \in DOMAIN net : m # i => \E j \in DOMAIN net' : net'[j] = net[m]
  BY <1>1, RemoveRest DEF TypeOK
<1>3. ASSUME NEW k \in Heads', Undisturbed(k)'
      PROVE  Waiting(k)' \/ Reading(k)' \/ Received(k)'
  <2>1. /\ k \in Heads /\ Undisturbed(k)
        /\ net[i].frame # k /\ ~(net[i].frame = k - 1 /\ net[i].mark)
    BY <1>1, <1>3 DEF Heads, Undisturbed
  <2>2. SentOf(k)' = SentOf(k)
    BY <1>1 DEF SentOf
  <2>3. /\ \A j : InNet(k, j) => InNet(k, j)'
        /\ MarkerInNet(k - 1) => MarkerInNet(k - 1)'
        /\ NoneBefore(k) => NoneBefore(k)'
    BY <1>2, <2>1 DEF InNet, MarkerInNet, NoneBefore
  <2>4. CASE Waiting(k)
    BY <1>1, <2>2, <2>3, <2>4 DEF Waiting
  <2>5. CASE Reading(k)
    BY <1>1, <1>2, <2>2, <2>3, <2>5 DEF Reading
  <2>6. CASE Received(k)
    BY <1>1, <2>6 DEF Received, Delivered, IsFrame
  <2> QED
    BY <2>1, <2>4, <2>5, <2>6 DEF LocalInv
<1> QED
  BY <1>3 DEF LocalInv

(* The receiver is reading frame k and gets the oldest packet.             *)
LEMMA ReadNext ==
  ASSUME TypeOK, LoopInv, NetInv, NEW k \in Nat \ {0}, Reading(k),
         1 \in 1 .. Len(net), OnRxRtp(1)
  PROVE  k \in 1 .. frame /\ (Reading(k)' \/ Received(k)')
<1> DEFINE p == net[1]
           r == Len(outbuf)
<1>1. net # <<>>
  OBVIOUS
<1>2. /\ k \in 1 .. frame /\ 1 \in DOMAIN net /\ p.frame = k
      /\ r \in 0 .. BlockNum(frames[k]) - 1 /\ r < SentOf(k)
      /\ p.from = BlockSize * r
      /\ p.size = PayloadSize(frames[k], r)
      /\ p.mark <=> r = BlockNum(frames[k]) - 1
  BY <1>1, OldestIsNext
<1>3. /\ frames' = frames /\ frame' = frame /\ block' = block
      /\ net' = RemoveAt(net, 1) /\ p \in Packet
  BY ReceivedPacket
<1>4. CASE p.mark
  <2>1. IsFrame(Append(outbuf, p), k)
    BY <1>1, <1>4, WholeFrame
  <2>2. delivered' = Append(delivered, Append(outbuf, p))
    BY <1>4, ReceivedPacket
  <2>3. Len(delivered) + 1 \in DOMAIN delivered'
        /\ delivered'[Len(delivered) + 1] = Append(outbuf, p)
    <3> DEFINE S == Seq(Packet)
               e == Append(outbuf, p)
    <3>1. delivered \in Seq(S) /\ e \in S
      BY <1>3, AppendSeq DEF TypeOK
    <3> HIDE DEF S, e
    <3>2. /\ DOMAIN Append(delivered, e) = 1 .. Len(delivered) + 1
          /\ Append(delivered, e)[Len(delivered) + 1] = e
          /\ Len(delivered) \in Nat
      BY <3>1, AppendSeq
    <3>3. delivered' = Append(delivered, e)
      BY <2>2 DEF e
    <3> QED
      BY <3>2, <3>3 DEF e
  <2>4. PICK n \in DOMAIN delivered' : delivered'[n] = Append(outbuf, p)
    BY <2>3
  <2>5. IsFrame(delivered[n], k)'
    BY <1>3, <2>1, <2>4 DEF IsFrame
  <2> QED
    <3>1. Delivered(k)'
      BY <2>4, <2>5 DEF Delivered
    <3>2. k <= frame'
      BY <1>2, <1>3, FrameFacts
    <3> QED
      BY <1>2, <3>1, <3>2 DEF Received
<1>5. CASE ~p.mark
  <2>1. outbuf' = Append(outbuf, p)
    BY <1>5, ReceivedPacket
  <2>2. /\ DOMAIN net' = 1 .. Len(net) - 1
        /\ \A j \in DOMAIN net' : \E m \in DOMAIN net : m # 1 /\ net'[j] = net[m]
        /\ \A m \in DOMAIN net : m # 1 => \E j \in DOMAIN net' : net'[j] = net[m]
    BY <1>3, RemoveSeq, RemoveRest DEF TypeOK
  <2>3. BlockNum(frames[k]) \in Nat /\ frames[k] \in Nat \ {0} /\ r \in Nat
        /\ SentOf(k) \in Nat /\ frame \in Nat
    BY <1>2, SentRange, FrameFacts
  <2>4. p.size = BlockSize
    BY <1>2, <1>5, <2>3, Payloads
  <2>5. outbuf \in Seq(Packet)
    BY DEF TypeOK
  <2>6. /\ Len(outbuf') = r + 1
        /\ \A i \in 1 .. r : outbuf'[i] = outbuf[i]
        /\ outbuf'[r + 1] = p
    BY <1>3, <2>1, <2>5, AppendSeq
  <2>7. /\ \A i \in 1 .. r : /\ outbuf[i].frame = k
                             /\ outbuf[i].from = BlockSize * (i - 1)
                             /\ outbuf[i].size = BlockSize
        /\ \A j \in r .. SentOf(k) - 1 : InNet(k, j)
        /\ NoneBefore(k)
    <3>1. k <= frame
      BY <1>2, <2>3
    <3> QED
      BY <3>1 DEF Reading
  <2> HIDE DEF p, r
  <2>8. ASSUME NEW i \in 1 .. r + 1
        PROVE  /\ outbuf'[i].frame = k
               /\ outbuf'[i].from = BlockSize * (i - 1)
               /\ outbuf'[i].size = BlockSize
    <3>1. CASE i \in 1 .. r
      BY <2>6, <2>7, <3>1
    <3>2. CASE i = r + 1
      <4>1. i - 1 = r
        BY <2>3, <3>2
      <4> QED
        BY <1>2, <2>4, <2>6, <3>2, <4>1
    <3> QED
      BY <2>3, <3>1, <3>2
  <2>9. SentOf(k)' = SentOf(k)
    BY <1>3 DEF SentOf
  <2>10. ASSUME NEW j \in r + 1 .. SentOf(k) - 1
         PROVE  InNet(k, j)'
    <3>1. j \in r .. SentOf(k) - 1 /\ j \in Nat /\ j # r
      BY <2>3
    <3>2. PICK m \in DOMAIN net : net[m].frame = k /\ net[m].from = BlockSize * j
      BY <2>7, <3>1 DEF InNet
    <3>3. m # 1
      BY <1>2, <2>3, <3>1, <3>2, Blocks DEF p
    <3> QED
      BY <2>2, <3>2, <3>3 DEF InNet
  <2>11. ASSUME NEW j \in DOMAIN net', net'[j].frame = k
         PROVE  net'[j].from >= BlockSize * (r + 1)
    <3>1. PICK m \in DOMAIN net : m # 1 /\ net'[j] = net[m]
      BY <2>2
    <3>2. p.from < net[m].from
      BY <1>2, <2>11, <3>1, FirstIsOldest DEF p
    <3>3. PICK n \in Nat : net[m].from = BlockSize * n
      BY <3>1, PacketOf
    <3>4. r < n
      BY <1>2, <2>3, <3>2, <3>3, Blocks
    <3>5. BlockSize * r + BlockSize <= BlockSize * n
      BY <2>3, <3>4, Blocks
    <3>6. BlockSize * (r + 1) = BlockSize * r + BlockSize
      BY <2>3, Blocks
    <3> QED
      BY <3>1, <3>3, <3>5, <3>6
  <2>12. NoneBefore(k)'
    BY <2>2, <2>7 DEF NoneBefore
  <2>13. r + 1 <= BlockNum(frames[k]) - 1 /\ r + 1 <= SentOf(k)
    BY <1>2, <1>5, <2>3
  <2>14. ~(k > frame')
    BY <1>2, <1>3, <2>3
  <2> QED
    BY <1>2, <1>3, <2>6, <2>8, <2>9, <2>10, <2>11, <2>12, <2>13, <2>14 DEF Reading
<1> QED
  BY <1>2, <1>4, <1>5

(* The receiver gets the marker that it awaits before frame k.             *)
LEMMA ReadBoundary ==
  ASSUME TypeOK, LoopInv, NetInv, NEW k \in Nat \ {0}, k <= frame + 1, Waiting(k),
         1 \in 1 .. Len(net), OnRxRtp(1), net[1].frame = k - 1, net[1].mark
  PROVE  Reading(k)'
<1>1. /\ frames' = frames /\ frame' = frame /\ block' = block
      /\ net' = RemoveAt(net, 1) /\ outbuf' = <<>>
  BY ReceivedPacket
<1>2. /\ \A j \in DOMAIN net' : \E m \in DOMAIN net : m # 1 /\ net'[j] = net[m]
      /\ \A m \in DOMAIN net : m # 1 => \E j \in DOMAIN net' : net'[j] = net[m]
  <2>1. net \in Seq(Packet) /\ net' = RemoveAt(net, 1)
    BY <1>1 DEF TypeOK
  <2> DEFINE t == RemoveAt(net, 1)
  <2>2. /\ \A j \in DOMAIN t : \E m \in DOMAIN net : m # 1 /\ t[j] = net[m]
        /\ \A m \in DOMAIN net : m # 1 => \E j \in DOMAIN t : t[j] = net[m]
    BY <2>1, RemoveRest
  <2> QED
    BY <2>1, <2>2
<1>3. 1 \in DOMAIN net /\ frame \in Nat
  BY NetFacts, FrameFacts
<1>4. NoneBefore(k)'
  <2>1. ASSUME NEW j \in DOMAIN net' PROVE net'[j].frame >= k
    <3>1. PICK m \in DOMAIN net : m # 1 /\ net'[j] = net[m]
      BY <1>2
    <3>2. SUFFICES ASSUME net[m].frame = k - 1 PROVE FALSE
      BY <3>1, FirstIsOldest, NetFacts
    <3>3. PICK n \in Nat : /\ n <= BlockNum(frames[k - 1]) - 1
                           /\ net[m].from = BlockSize * n
      BY <3>2, PacketOf
    <3>4. PICK l \in Nat : /\ l = BlockNum(frames[k - 1]) - 1
                           /\ net[1].from = BlockSize * l
      BY <1>3, PacketOf
    <3>5. BlockSize * l < BlockSize * n
      BY <3>1, <3>2, <3>3, <3>4, FirstIsOldest
    <3>6. l < n
      BY <3>5, Blocks
    <3> QED
      BY <3>3, <3>4, <3>6
  <2> QED
    BY <2>1 DEF NoneBefore
<1>5. CASE k <= frame
  <2>1. k \in 1 .. frame
    BY <1>3, <1>5
  <2>2. SentOf(k) \in Nat /\ BlockNum(frames[k]) \in Nat \ {0}
    BY <2>1, SentRange
  <2>3. SentOf(k)' = SentOf(k)
    BY <1>1 DEF SentOf
  <2>4. ASSUME NEW j \in 0 .. SentOf(k) - 1 PROVE InNet(k, j)'
    <3>1. PICK m \in DOMAIN net : net[m].frame = k /\ net[m].from = BlockSize * j
      BY <1>5 DEF Waiting, InNet
    <3>2. m # 1
      BY <3>1
    <3> QED
      BY <1>2, <3>1, <3>2 DEF InNet
  <2>5. \A j \in DOMAIN net' : net'[j].from >= BlockSize * 0
    BY <1>2, NetFacts, FramingAssumption
  <2>6. Len(outbuf') = 0 /\ ~(k > frame')
    BY <1>1, <1>3, <1>5
  <2> QED
    BY <1>1, <1>4, <2>2, <2>3, <2>4, <2>5, <2>6 DEF Reading
<1>6. CASE k > frame
  <2>1. ~(k <= frame')
    BY <1>1, <1>3, <1>6
  <2> QED
    BY <1>1, <1>4, <2>1 DEF Reading
<1> QED
  BY <1>3, <1>5, <1>6

(* A packet arrives.                                                       *)
LEMMA LocalArrival ==
  ASSUME TypeOK, LoopInv, NetInv, LocalInv, NEW i \in 1 .. Len(net), OnRxRtp(i)
  PROVE  LocalInv'
<1>1. /\ frames' = frames /\ frame' = frame /\ block' = block
      /\ net' = RemoveAt(net, i)
      /\ i # 1 => \A m \in 1 .. i : net[m] \in disturbed'
  BY ReceivedPacket
<1>2. \A m \in DOMAIN net : m # i => \E j \in DOMAIN net' : net'[j] = net[m]
  <2>1. net \in Seq(Packet) /\ net' = RemoveAt(net, i)
    BY <1>1 DEF TypeOK
  <2> QED
    BY <2>1, RemoveRest
<1>3. Len(net) \in Nat /\ DOMAIN net = 1 .. Len(net) /\ frame \in Nat
  BY NetFacts, FrameFacts
<1>4. ASSUME NEW k \in Heads', Undisturbed(k)'
      PROVE  Waiting(k)' \/ Reading(k)' \/ Received(k)'
  <2>1. k \in Heads /\ k \in Nat \ {0} /\ k <= frame + 1 /\ Undisturbed(k)
    BY <1>1, <1>3, <1>4, UndisturbedBefore DEF Heads, Next, Receive
  <2>2. SentOf(k)' = SentOf(k)
    BY <1>1 DEF SentOf
  <2>3. CASE Waiting(k)
    <3>1. PICK m \in DOMAIN net : net[m].frame = k - 1 /\ net[m].mark
      BY <2>3 DEF Waiting, MarkerInNet
    <3>2. CASE m = 1 /\ i = 1
      BY <2>1, <2>3, <3>1, <3>2, ReadBoundary
    <3>3. CASE ~(m = 1 /\ i = 1)
      <4>1. m # i
        BY <1>1, <1>4, <3>1, <3>3 DEF Undisturbed
      <4>2. MarkerInNet(k - 1)'
        BY <1>2, <3>1, <4>1 DEF MarkerInNet
      <4>3. ASSUME NEW j, InNet(k, j) PROVE InNet(k, j)'
        <5>1. PICK n \in DOMAIN net : net[n].frame = k /\ net[n].from = BlockSize * j
          BY <4>3 DEF InNet
        <5>2. n # i
          <6>1. CASE i = 1
            <7>1. net[1].frame <= k - 1
              BY <3>1, FirstIsOldest
            <7> QED
              BY <2>1, <5>1, <6>1, <7>1
          <6>2. CASE i # 1
            BY <1>1, <1>4, <5>1, <6>2 DEF Undisturbed
          <6> QED
            BY <6>1, <6>2
        <5> QED
          BY <1>2, <5>1, <5>2 DEF InNet
      <4> QED
        BY <1>1, <2>2, <2>3, <4>2, <4>3 DEF Waiting
    <3> QED
      BY <3>2, <3>3
  <2>4. CASE Reading(k)
    <3>1. CASE i = 1
      BY <2>1, <2>4, <3>1, ReadNext
    <3>2. CASE i # 1
      <4>1. net # <<>>
        BY <1>3
      <4>2. net[1].frame = k
        BY <2>1, <2>4, <4>1, OldestIsNext
      <4>3. net[1] \in disturbed'
        BY <1>1, <3>2
      <4> QED
        BY <1>4, <4>2, <4>3 DEF Undisturbed
    <3> QED
      BY <3>1, <3>2
  <2>5. CASE Received(k)
    <3>1. k \in 1 .. frame /\ Delivered(k)
      BY <2>1, <2>5 DEF Received
    <3>2. Delivered(k)'
      BY <3>1, DeliveredStays DEF Next, Receive
    <3> QED
      BY <1>1, <3>1, <3>2, <1>3 DEF Received
  <2> QED
    BY <2>1, <2>3, <2>4, <2>5 DEF LocalInv
<1> QED
  BY <1>4 DEF LocalInv

LEMMA LocalStep ==
  ASSUME TypeOK, LoopInv, NetInv, LocalInv, [Next]_vars
  PROVE  LocalInv'
<1>1. CASE UNCHANGED vars
  <2>1. /\ UNCHANGED <<frames, block, net, disturbed, outbuf, delivered>>
        /\ frame' = frame
    BY <1>1 DEF vars, frame
  <2>2. Heads' = Heads /\ \A k : Undisturbed(k)' = Undisturbed(k)
    BY <2>1 DEF Heads, Undisturbed
  <2>3. \A k : /\ SentOf(k)' = SentOf(k) /\ MarkerInNet(k)' = MarkerInNet(k)
               /\ NoneBefore(k)' = NoneBefore(k) /\ Delivered(k)' = Delivered(k)
               /\ \A j : InNet(k, j)' = InNet(k, j)
    BY <2>1 DEF SentOf, MarkerInNet, NoneBefore, InNet, Delivered, IsFrame
  <2>4. \A k : Received(k) => Received(k)'
    BY <2>1, <2>3 DEF Received
  <2>5. \A k : Waiting(k) => Waiting(k)'
    BY <2>1, <2>3 DEF Waiting
  <2>6. \A k : Reading(k) => Reading(k)'
    BY <2>1, <2>3 DEF Reading
  <2> QED
    BY <2>2, <2>4, <2>5, <2>6 DEF LocalInv
<1> QED
  BY <1>1, LocalNewFrame, LocalNewPacket, LocalLoss, LocalArrival DEF Next, Receive

-----------------------------------------------------------------------------
(* Without disturbance                                                     *)

(* The delivered sequence after a marker arrived.                          *)
LEMMA DeliveredNext ==
  ASSUME TypeOK, NEW i \in 1 .. Len(net), OnRxRtp(i), net[i].mark
  PROVE  /\ Len(delivered) \in Nat /\ DOMAIN delivered = 1 .. Len(delivered)
         /\ Len(delivered') = Len(delivered) + 1
         /\ DOMAIN delivered' = 1 .. Len(delivered) + 1
         /\ \A j \in 1 .. Len(delivered) : delivered'[j] = delivered[j]
         /\ delivered'[Len(delivered) + 1] = Append(outbuf, net[i])
<1> DEFINE S == Seq(Packet)
           e == Append(outbuf, net[i])
<1>1. delivered \in Seq(S) /\ e \in S
  BY ReceivedPacket, AppendSeq DEF TypeOK
<1>2. delivered' = Append(delivered, e)
  BY ReceivedPacket
<1> HIDE DEF S, e
<1>3. Len(delivered) \in Nat /\ DOMAIN delivered = 1 .. Len(delivered)
  BY <1>1
<1>4. /\ Len(delivered') = Len(delivered) + 1
      /\ DOMAIN delivered' = 1 .. Len(delivered) + 1
      /\ \A j \in 1 .. Len(delivered) : delivered'[j] = delivered[j]
      /\ delivered'[Len(delivered) + 1] = e
  BY <1>1, <1>2, <1>3, AppendSeq
<1> QED
  BY <1>3, <1>4 DEF e

(* While nothing is disturbed the receiver is reading the frame after the  *)
(* last delivered one whenever a packet is under way.                      *)
LEMMA InTurn ==
  ASSUME TypeOK, LoopInv, NetInv, LocalInv, TurnInv, disturbed = {},
         net # <<>>, NEW k, k = Len(delivered) + 1
  PROVE  k \in Nat \ {0} /\ k <= frame /\ Reading(k)
<1>1. /\ Len(delivered) \in Nat /\ DOMAIN delivered = 1 .. Len(delivered)
      /\ frame \in Nat /\ 1 \in DOMAIN net
  <2>1. 1 \in DOMAIN net
    <3>1. net \in Seq(Packet)
      BY DEF TypeOK
    <3> QED
      BY <3>1
  <2>2. Len(delivered) \in Nat /\ DOMAIN delivered = 1 .. Len(delivered)
    BY DEF TypeOK
  <2> QED
    BY <2>1, <2>2, FrameFacts
<1>2. \A i \in DOMAIN net : net[i].frame > Len(delivered) /\ net[i].frame \in 1 .. frame
  BY PacketOf DEF TurnInv
<1>3. k \in Nat \ {0} /\ k <= frame
  BY <1>1, <1>2
<1>4. k \in Heads /\ Undisturbed(k)
  BY <1>1, <1>3 DEF Heads, Undisturbed
<1>5. ~Waiting(k)
  <2>1. \A i \in DOMAIN net : net[i].frame # k - 1
    BY <1>1, <1>2
  <2> QED
    BY <2>1 DEF Waiting, MarkerInNet
<1>6. ~Received(k)
  <2>1. SUFFICES ASSUME NEW i \in DOMAIN delivered, IsFrame(delivered[i], k)
                 PROVE  FALSE
    BY DEF Received, Delivered
  <2>2. IsFrame(delivered[i], i)
    BY DEF TurnInv
  <2>3. delivered[i] \in Seq(Packet) /\ delivered[i] # <<>>
    <3>1. delivered \in Seq(Seq(Packet))
      BY DEF TypeOK
    <3>2. delivered[i] \in Seq(Packet)
      BY <1>1, <3>1, Seqs!ElementOfSeq
    <3> QED
      BY <2>1, <3>2 DEF IsFrame
  <2>4. 1 \in DOMAIN delivered[i]
    BY <2>3
  <2>5. i = k
    BY <2>1, <2>2, <2>4 DEF IsFrame
  <2> QED
    BY <1>1, <2>5
<1> QED
  BY <1>3, <1>4, <1>5, <1>6 DEF LocalInv

(* What an arrival does while nothing is disturbed.                        *)
LEMMA Turn ==
  ASSUME TypeOK, LoopInv, NetInv, LocalInv, TurnInv,
         NEW i \in 1 .. Len(net), OnRxRtp(i), disturbed' = {},
         NEW k, k = Len(delivered) + 1
  PROVE  /\ disturbed = {} /\ i = 1 /\ k \in 1 .. frame /\ net[i].frame = k
         /\ net[i].mark => IsFrame(Append(outbuf, net[i]), k)
         /\ block # -1 /\ net[i].mark => k < frame
<1>1. disturbed = {} /\ i = 1
  <2>1. disturbed \subseteq disturbed'
    BY ReceivedPacket
  <2>2. i # 1 => net[i] \in disturbed'
    BY ReceivedPacket
  <2> QED
    BY <2>1, <2>2
<1>2. net # <<>>
  OBVIOUS
<1>3. k \in Nat \ {0} /\ k <= frame /\ Reading(k)
  BY <1>1, <1>2, InTurn
<1> DEFINE r == Len(outbuf)
<1>4. /\ k \in 1 .. frame /\ net[1].frame = k /\ r < SentOf(k)
      /\ r \in 0 .. BlockNum(frames[k]) - 1
      /\ net[1].mark <=> r = BlockNum(frames[k]) - 1
  BY <1>2, <1>3, OldestIsNext
<1>5. net[1].mark => IsFrame(Append(outbuf, net[1]), k)
  BY <1>2, <1>3, WholeFrame
<1> HIDE DEF r
<1>6. ASSUME block # -1, net[1].mark, k = frame PROVE FALSE
  <2>1. SentOf(k) = block /\ block \in 0 .. BlockNum(frames[k]) - 1
    BY <1>6, FrameFacts DEF SentOf, LoopInv, length
  <2>2. r = BlockNum(frames[k]) - 1 /\ BlockNum(frames[k]) \in Nat
    BY <1>4, <1>6, FrameFacts
  <2> QED
    BY <1>4, <2>1, <2>2
<1> QED
  BY <1>1, <1>3, <1>4, <1>5, <1>6, FrameFacts

LEMMA TurnStep ==
  ASSUME TypeOK, LoopInv, NetInv, LocalInv, TurnInv, [Next]_vars
  PROVE  TurnInv'
<1>0. /\ Len(delivered) \in Nat /\ DOMAIN delivered = 1 .. Len(delivered)
      /\ frame \in Nat
  <2>1. Len(delivered) \in Nat /\ DOMAIN delivered = 1 .. Len(delivered)
    BY DEF TypeOK
  <2> QED
    BY <2>1, FrameFacts
<1>1. CASE SendRtp
  <2>1. /\ frame' = frame + 1 /\ block = -1 /\ block' = 0
        /\ \A k \in 1 .. frame : frames'[k] = frames[k]
        /\ UNCHANGED <<delivered, net, disturbed>>
    BY <1>1, NewFrame DEF SendRtp
  <2>2. ASSUME disturbed = {}, NEW i \in DOMAIN delivered
        PROVE  IsFrame(delivered[i], i)'
    <3>1. IsFrame(delivered[i], i) /\ i \in 1 .. frame
      BY <1>0, <2>2 DEF TurnInv
    <3> QED
      BY <2>1, <3>1 DEF IsFrame
  <2> QED
    BY <1>0, <2>1, <2>2 DEF TurnInv
<1>2. CASE SendPacket
  <2> DEFINE p == [frame |-> frame, from |-> BlockSize * block,
                   size |-> PayloadSize(length, block),
                   mark |-> block = BlockNum(length) - 1, ts |-> ts']
  <2>1. /\ p \in Packet /\ net' = Append(net, p)
        /\ block \in 0 .. BlockNum(length) - 1
        /\ frames' = frames /\ frame' = frame
    BY <1>2, NewPacket
  <2>2. p.frame = frame
    OBVIOUS
  <2> HIDE DEF p
  <2>3. /\ Len(net) \in Nat /\ DOMAIN net = 1 .. Len(net)
        /\ DOMAIN net' = 1 .. Len(net) + 1
        /\ \A i \in DOMAIN net : net'[i] = net[i]
        /\ net'[Len(net) + 1] = p
    BY <2>1, NetFacts, AppendSeq DEF TypeOK
  <2>4. UNCHANGED <<delivered, disturbed>> /\ block >= 0
    BY <1>2 DEF SendPacket
  <2>5. ASSUME disturbed = {}
        PROVE  /\ Len(delivered) < frame
               /\ \A i \in DOMAIN delivered : IsFrame(delivered[i], i)
               /\ \A i \in DOMAIN net : net[i].frame > Len(delivered)
    BY <2>1, <2>5 DEF TurnInv
  <2>6. disturbed = {} => \A i \in DOMAIN net' : net'[i].frame > Len(delivered)
    BY <1>0, <2>2, <2>3, <2>5
  <2>7. disturbed = {} => \A i \in DOMAIN delivered : IsFrame(delivered[i], i)'
    BY <2>1, <2>4, <2>5 DEF IsFrame
  <2> QED
    BY <1>0, <2>1, <2>4, <2>5, <2>6, <2>7 DEF TurnInv
<1>3. ASSUME NEW i \in 1 .. Len(net), OnRxRtp(i)
      PROVE  TurnInv'
  <2> SUFFICES ASSUME disturbed' = {}
      PROVE  /\ Len(delivered') <= frame'
             /\ block' # -1 => Len(delivered') < frame'
             /\ \A j \in DOMAIN delivered' : IsFrame(delivered[j], j)'
             /\ \A j \in DOMAIN net' : net'[j].frame > Len(delivered')
    BY DEF TurnInv
  <2>1. PICK k : k = Len(delivered) + 1
    OBVIOUS
  <2>2. /\ disturbed = {} /\ i = 1 /\ k \in 1 .. frame /\ net[1].frame = k
        /\ net[1].mark => IsFrame(Append(outbuf, net[1]), k)
        /\ block # -1 /\ net[1].mark => k < frame
    BY <1>3, <2>1, Turn
  <2>3. /\ frames' = frames /\ frame' = frame /\ block' = block
        /\ net' = RemoveAt(net, 1)
    BY <1>3, <2>2, ReceivedPacket
  <2>4. /\ 1 \in DOMAIN net
        /\ \A j \in DOMAIN net' : \E m \in DOMAIN net : m # 1 /\ net'[j] = net[m]
    <3>1. net \in Seq(Packet) /\ 1 \in 1 .. Len(net)
      BY <2>2 DEF TypeOK
    <3> DEFINE t == RemoveAt(net, 1)
    <3>2. \A j \in DOMAIN t : \E m \in DOMAIN net : m # 1 /\ t[j] = net[m]
      BY <3>1, RemoveRest
    <3> QED
      BY <2>3, <3>1, <3>2
  <2>5. /\ Len(delivered) <= frame
        /\ block # -1 => Len(delivered) < frame
        /\ \A j \in DOMAIN delivered : IsFrame(delivered[j], j)
        /\ \A j \in DOMAIN net : net[j].frame > Len(delivered)
    BY <2>2 DEF TurnInv
  <2>6. CASE ~net[1].mark
    <3>1. delivered' = delivered
      BY <1>3, <2>2, <2>6, ReceivedPacket
    <3>2. \A j \in DOMAIN delivered' : IsFrame(delivered[j], j)'
      BY <2>3, <2>5, <3>1 DEF IsFrame
    <3>3. \A j \in DOMAIN net' : net'[j].frame > Len(delivered')
      BY <2>4, <2>5, <3>1
    <3> QED
      BY <2>3, <2>5, <3>1, <3>2, <3>3
  <2>7. CASE net[1].mark
    <3>1. /\ Len(delivered') = Len(delivered) + 1
          /\ DOMAIN delivered' = 1 .. Len(delivered) + 1
          /\ \A j \in 1 .. Len(delivered) : delivered'[j] = delivered[j]
          /\ delivered'[k] = Append(outbuf, net[1])
      BY <1>3, <2>1, <2>2, <2>7, DeliveredNext
    <3>2. ASSUME NEW j \in DOMAIN delivered' PROVE IsFrame(delivered[j], j)'
      <4>1. CASE j \in DOMAIN delivered
        BY <1>0, <2>3, <2>5, <3>1, <4>1 DEF IsFrame
      <4>2. CASE j = k
        <5>1. PICK buf : buf = Append(outbuf, net[1])
          OBVIOUS
        <5>2. IsFrame(buf, k) /\ delivered'[j] = buf
          BY <2>2, <2>7, <3>1, <4>2, <5>1
        <5> QED
          BY <2>3, <4>2, <5>2 DEF IsFrame
      <4> QED
        BY <1>0, <2>1, <3>1, <4>1, <4>2
    <3>3. ASSUME NEW j \in DOMAIN net' PROVE net'[j].frame > Len(delivered')
      <4>1. PICK m \in DOMAIN net : m # 1 /\ net'[j] = net[m]
        BY <2>4
      <4>2. net[m].frame >= k /\ net[m].frame \in Nat
        BY <2>2, FirstIsOldest, NetFacts
      <4>3. SUFFICES ASSUME net[m].frame = k PROVE FALSE
        BY <1>0, <2>1, <2>2, <3>1, <4>1, <4>2
      <4>4. PICK n \in Nat : n <= BlockNum(frames[k]) - 1 /\ net[m].from = BlockSize * n
        BY <4>3, PacketOf
      <4>5. PICK l \in Nat : l = BlockNum(frames[k]) - 1 /\ net[1].from = BlockSize * l
        BY <2>2, <2>4, <2>7, PacketOf
      <4>6. l < n
        <5>1. BlockSize * l < BlockSize * n
          BY <2>2, <4>1, <4>3, <4>4, <4>5, FirstIsOldest
        <5> QED
          BY <5>1, Blocks
      <4> QED
        BY <4>4, <4>5, <4>6
    <3>4. Len(delivered') = k /\ k <= frame /\ (block # -1 => k < frame)
      BY <1>0, <2>1, <2>2, <2>7, <3>1
    <3> QED
      BY <2>3, <3>2, <3>3, <3>4
  <2> QED
    BY <2>6, <2>7
<1>4. ASSUME NEW i \in 1 .. Len(net), Lose(i)
      PROVE  TurnInv'
  BY <1>4, LostPacket DEF TurnInv
<1>5. CASE UNCHANGED vars
  BY <1>5 DEF vars, TurnInv, frame, IsFrame
<1> QED
  BY <1>1, <1>2, <1>3, <1>4, <1>5 DEF Next, Receive

-----------------------------------------------------------------------------
(* The theorems                                                            *)

LEMMA StepInv ==
  ASSUME IInv, [Next]_vars
  PROVE  IInv'
  BY TypeStep, NetStep, LoopStep, LocalStep, TimeStep, TurnStep DEF IInv

LEMMA Invariant == Spec => []IInv
<1>1. Init => IInv
  BY InitInv
<1>2. IInv /\ [Next]_vars => IInv'
  BY StepInv
<1> QED
  BY <1>1, <1>2, PTL DEF Spec

(* No packet is longer than BLOCK_SIZE or of negative length, and the      *)
(* other variables keep their types.                                       *)
THEOREM TypeCorrect == Spec => []TypeOK
<1>1. IInv => TypeOK
  BY DEF IInv
<1> QED
  BY <1>1, Invariant, PTL

(* The timestamp tells the frames apart.                                   *)
THEOREM TimestampIsOfFrame == Spec => []OneTimestampPerFrame
<1>1. IInv => OneTimestampPerFrame
  BY DEF IInv, TimeInv, Packets, OneTimestampPerFrame
<1> QED
  BY <1>1, Invariant, PTL

(* What all packets of an undisturbed frame have come to.                  *)
LEMMA LocalDamage ==
  ASSUME IInv
  PROVE  DamageIsLocal
<1> USE DEF IInv
<1>1. SUFFICES ASSUME NEW k \in DOMAIN frames, k < frame \/ block = -1,
                      \A p \in Range(net) : p.frame # k, Undisturbed(k)
               PROVE  Delivered(k)
  BY DEF DamageIsLocal
<1>2. k \in 1 .. frame /\ frame \in Nat
  BY FrameFacts
<1>3. SentOf(k) = BlockNum(frames[k]) /\ BlockNum(frames[k]) \in Nat \ {0}
  BY <1>1, <1>2, FrameFacts DEF SentOf
<1>4. \A j : ~InNet(k, j)
  BY <1>1 DEF InNet, Range
<1>5. ~Waiting(k)
  <2>1. 0 \in 0 .. SentOf(k) - 1
    BY <1>3
  <2> QED
    BY <1>2, <1>4, <2>1 DEF Waiting
<1>6. ~Reading(k)
  <2>1. SUFFICES ASSUME Reading(k) PROVE FALSE
    OBVIOUS
  <2> DEFINE r == Len(outbuf)
  <2>2. r \in Nat
    BY DEF TypeOK
  <2>3. k <= frame
    BY <1>2
  <2>4. r <= BlockNum(frames[k]) - 1 /\ \A j \in r .. SentOf(k) - 1 : InNet(k, j)
    BY <2>1, <2>3 DEF Reading
  <2>5. r \in r .. SentOf(k) - 1
    BY <1>3, <2>2, <2>4
  <2> QED
    BY <1>4, <2>4, <2>5
<1>7. k \in Heads
  BY <1>2 DEF Heads
<1> QED
  BY <1>1, <1>5, <1>6, <1>7 DEF LocalInv, Received

(* A frame was delivered whole when neither it nor the marker before it    *)
(* was disturbed.                                                          *)
THEOREM DamageStaysLocal == Spec => []DamageIsLocal
BY LocalDamage, Invariant, PTL

(* The lengths of the delivered frames, while nothing is disturbed.        *)
LEMMA LengthsInTurn ==
  ASSUME TypeOK, TurnInv, disturbed = {}, NEW i \in DOMAIN delivered
  PROVE  i \in 1 .. frame /\ FrameLength(delivered[i]) = frames[i]
<1>1. /\ DOMAIN delivered = 1 .. Len(delivered) /\ frame \in Nat
      /\ DOMAIN frames = 1 .. frame /\ Len(delivered) \in Nat
      /\ delivered \in Seq(Seq(Packet))
  BY FrameFacts DEF TypeOK
<1>2. i \in 1 .. frame /\ IsFrame(delivered[i], i)
  BY <1>1 DEF TurnInv
<1>3. delivered[i] \in Seq(Packet) /\ delivered[i] # <<>>
  BY <1>1, <1>2, Seqs!ElementOfSeq DEF IsFrame
<1>4. 1 \in DOMAIN delivered[i]
  BY <1>3
<1>5. delivered[i][1].frame = i
  BY <1>2, <1>4 DEF IsFrame
<1> QED
  BY <1>1, <1>2, <1>5 DEF FrameLength

Got == [i \in DOMAIN delivered |-> FrameLength(delivered[i])]

(* The first n of the frames that were sent.                               *)
FirstFrames(n) == [i \in 1 .. n |-> frames[i]]

LEMMA GotNow ==
  TypeOK /\ TurnInv /\ disturbed = {} =>
    Len(delivered) \in 0 .. frame /\ Got = FirstFrames(Len(delivered))
<1> SUFFICES ASSUME TypeOK, TurnInv, disturbed = {}
             PROVE  /\ Len(delivered) \in 0 .. frame
                    /\ Got = FirstFrames(Len(delivered))
  OBVIOUS
<1>1. /\ DOMAIN delivered = 1 .. Len(delivered) /\ Len(delivered) \in Nat
      /\ Len(delivered) <= frame /\ frame \in Nat
  BY FrameFacts DEF TypeOK, TurnInv
<1>2. \A i \in DOMAIN delivered : FrameLength(delivered[i]) = frames[i]
  BY LengthsInTurn
<1> QED
  BY <1>1, <1>2 DEF Got, FirstFrames

LEMMA GotNext ==
  (TypeOK /\ TurnInv /\ disturbed = {})' =>
    (Len(delivered) \in 0 .. frame /\ Got = FirstFrames(Len(delivered)))'
  BY GotNow, PTL

LEMMA ChannelStep ==
  ASSUME IInv, [Next]_vars, disturbed' = {}
  PROVE  [Frames!Next]_Frames!vars
<1> USE DEF IInv
<1>1. disturbed = {}
  <2>1. ASSUME NEW i \in 1 .. Len(net), OnRxRtp(i)
        PROVE  disturbed \subseteq disturbed'
    BY <2>1, ReceivedPacket
  <2> QED
    BY <2>1 DEF Next, Receive, SendRtp, SendPacket, Lose, vars
<1>2. /\ Len(delivered) \in 0 .. frame /\ Got = FirstFrames(Len(delivered))
      /\ Len(delivered) \in Nat /\ frame \in Nat
      /\ frames \in Seq(Lengths)
  BY <1>1, GotNow, FrameFacts DEF TypeOK
<1>3. Got' = FirstFrames(Len(delivered))'
  BY StepInv, GotNext
<1>4. Frames!vars = <<frames, Got>> /\ Frames!vars' = <<frames', Got'>>
  BY DEF Frames!vars, Got
<1>5. CASE delivered' = delivered /\ frames' = frames
  <2>1. Got' = Got
    BY <1>2, <1>3, <1>5 DEF FirstFrames
  <2> QED
    BY <1>4, <1>5, <2>1
<1>6. CASE SendRtp
  <2>1. delivered' = delivered /\ \A k \in 1 .. frame : frames'[k] = frames[k]
    BY <1>6, NewFrame DEF SendRtp
  <2>2. Got' = Got
    BY <1>2, <1>3, <2>1 DEF FirstFrames
  <2>3. \E len \in Lengths : frames' = Append(frames, len)
    BY <1>6 DEF SendRtp
  <2>4. Frames!SendFrame
    BY <2>2, <2>3 DEF Frames!SendFrame, Got
  <2> QED
    BY <2>4 DEF Frames!Next
<1>7. ASSUME NEW i \in 1 .. Len(net), OnRxRtp(i), net[i].mark
      PROVE  Frames!DeliverFrame
  <2>1. PICK k : k = Len(delivered) + 1
    OBVIOUS
  <2>2. k \in 1 .. frame
    BY <1>7, <2>1, Turn
  <2>3. Len(delivered') = k /\ frames' = frames
    BY <1>7, <2>1, DeliveredNext, ReceivedPacket
  <2>4. Got' = [m \in 1 .. k |-> frames[m]]
    BY <1>3, <2>3 DEF FirstFrames
  <2>5. Got = [m \in 1 .. k - 1 |-> frames[m]]
    BY <1>2, <2>1 DEF FirstFrames
  <2>6. \A m \in 1 .. frame : frames[m] \in Lengths
    BY <1>2, Seqs!ElementOfSeq DEF frame
  <2>7. Got \in Seq(Lengths) /\ Len(Got) = k - 1 /\ frames[k] \in Lengths
    BY <1>2, <2>1, <2>2, <2>5, <2>6
  <2>8. Got' = Append(Got, frames[k])
    <3>1. /\ DOMAIN Append(Got, frames[k]) = 1 .. k
          /\ \A m \in 1 .. k - 1 : Append(Got, frames[k])[m] = Got[m]
          /\ Append(Got, frames[k])[k] = frames[k]
      BY <1>2, <2>1, <2>2, <2>7, AppendSeq
    <3>2. \A m \in 1 .. k : Append(Got, frames[k])[m] = frames[m]
      BY <2>2, <2>5, <3>1
    <3>3. Append(Got, frames[k]) \in Seq(Lengths)
          /\ Got' \in Seq(Lengths) /\ Len(Got') = k
          /\ Len(Append(Got, frames[k])) = k
      <4>1. /\ Append(Got, frames[k]) \in Seq(Lengths)
            /\ Len(Append(Got, frames[k])) = k
        BY <2>2, <2>7, AppendSeq
      <4>2. \A m \in 1 .. k : frames[m] \in Lengths
        BY <1>2, <2>2, <2>6
      <4>3. k \in Nat
        BY <2>2
      <4> QED
        BY <2>4, <4>1, <4>2, <4>3
    <3> QED
      BY <2>4, <3>1, <3>2, <3>3, Seqs!SeqEqual
  <2>9. Len(Got) < Len(frames) /\ k = Len(Got) + 1
    BY <1>2, <2>2, <2>7 DEF frame
  <2> QED
    BY <2>3, <2>8, <2>9 DEF Frames!DeliverFrame, Got
<1> QED
  <2>1. CASE SendPacket
    BY <1>5, <2>1 DEF SendPacket
  <2>2. ASSUME NEW i \in 1 .. Len(net), OnRxRtp(i)
        PROVE  [Frames!Next]_Frames!vars
    <3>1. CASE net[i].mark
      BY <1>7, <2>2, <3>1 DEF Frames!Next
    <3>2. CASE ~net[i].mark
      BY <1>5, <2>2, <3>2, ReceivedPacket
    <3> QED
      BY <3>1, <3>2
  <2>3. ASSUME NEW i \in 1 .. Len(net), Lose(i)
        PROVE  [Frames!Next]_Frames!vars
    BY <1>5, <2>3, LostPacket
  <2>4. CASE UNCHANGED vars
    BY <1>5, <2>4 DEF vars
  <2>5. CASE SendRtp
    BY <1>6, <2>5
  <2> QED
    BY <2>1, <2>2, <2>3, <2>4, <2>5 DEF Next, Receive

(* While the network disturbs nothing send_rtp and on_rx_rtp are a channel *)
(* of whole frames.                                                        *)
THEOREM FramesInOrder == Spec => DeliversFrames
<1>1. Init => Frames!Init
  <2> SUFFICES ASSUME Init PROVE Frames!Init
    OBVIOUS
  <2>1. frames = <<>> /\ delivered = <<>>
    BY DEF Init
  <2>2. Got = <<>>
    BY <2>1 DEF Got
  <2> QED
    BY <2>1, <2>2 DEF Frames!Init, Got
<1>2. IInv /\ [Next]_vars => (disturbed' = {} => [Frames!Next]_Frames!vars)
  BY ChannelStep
<1> QED
  BY <1>1, <1>2, Invariant, PTL DEF Spec, DeliversFrames

(* For every size of block and any frames: as long as nothing was lost or  *)
(* reordered, what the data callback was given are the frames that were    *)
(* sent, whole and in order; none is missing when all has been received.   *)
THEOREM FramesAreComplete == Spec => []AllInOrder
<1>1. IInv => AllInOrder
  <2> SUFFICES ASSUME IInv, disturbed = {}
               PROVE  /\ Len(delivered) <= Len(frames)
                      /\ \A k \in DOMAIN delivered : IsFrame(delivered[k], k)
                      /\ block = -1 /\ net = <<>> => Len(delivered) = Len(frames)
    BY DEF AllInOrder
  <2> DEFINE n == Len(delivered)
  <2>1. /\ DOMAIN delivered = 1 .. n /\ n \in Nat /\ frame \in Nat
        /\ frame = Len(frames) /\ DOMAIN frames = 1 .. frame
        /\ delivered \in Seq(Seq(Packet))
    BY FrameFacts DEF IInv, TypeOK, frame
  <2>2. n <= frame /\ \A k \in 1 .. n : IsFrame(delivered[k], k)
    BY <2>1 DEF IInv, TurnInv
  <2>3. ASSUME block = -1, net = <<>>, n < frame PROVE FALSE
    <3>1. frame \in DOMAIN frames /\ Undisturbed(frame)
      BY <2>1, <2>3 DEF Undisturbed
    <3>2. Delivered(frame)
      BY <2>1, <2>3, <3>1, LocalDamage DEF DamageIsLocal, Range
    <3>3. PICK i \in 1 .. n : IsFrame(delivered[i], frame)
      BY <2>1, <3>2 DEF Delivered
    <3>4. IsFrame(delivered[i], i) /\ delivered[i] \in Seq(Packet)
      BY <2>1, <2>2, <3>3, Seqs!ElementOfSeq
    <3>5. 1 \in DOMAIN delivered[i]  BY <3>4 DEF IsFrame
    <3>6. delivered[i][1].frame = i /\ delivered[i][1].frame = frame
      BY <3>3, <3>4, <3>5 DEF IsFrame
    <3> QED BY <2>1, <2>3, <3>3, <3>6
  <2>4. block = -1 /\ net = <<>> => n = frame
    <3> SUFFICES ASSUME block = -1, net = <<>> PROVE n = frame
      OBVIOUS
    <3>1. ~(n < frame)  BY <2>3
    <3> HIDE DEF n
    <3> QED BY <2>1, <2>2, <3>1
  <2>5. \A k \in DOMAIN delivered : IsFrame(delivered[k], k)
    BY <2>1, <2>2
  <2> QED BY <2>1, <2>2, <2>4, <2>5
<1> QED BY <1>1, Invariant, PTL
=============================================================================
