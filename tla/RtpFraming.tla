----------------------------- MODULE RtpFraming -----------------------------
(***************************************************************************)
(* Video frames over RTP (pjsua_app.cpp): send_rtp cuts a frame into       *)
(* packets of at most BLOCK_SIZE bytes, the last one with the marker bit;  *)
(* on_rx_rtp appends the payloads to outbuf and gives the whole to the     *)
(* data callback at a marker.  The receiver looks at no sequence number    *)
(* and no timestamp, and the network is UDP.                               *)
(*                                                                         *)
(* A payload is the interval of its frame's bytes, not the bytes.          *)
(* The life of the transports is left out: they exist and are attached.    *)
(***************************************************************************)
EXTENDS Integers, Sequences, SequencesExt, FiniteSetsExt

CONSTANTS
  BlockSize,   (* BLOCK_SIZE, 1400 in the source                           *)
  Lengths,     (* the lengths of the frames that the camera gives          *)
  FrameTs,     (* frame_ts_len, 90000/15 in the source                     *)
  MaxFrames,   (* bound: frames that are sent                              *)
  MaxDisturbed (* bound: packets that the network loses or reorders        *)

ASSUME FramingAssumption ==
  /\ BlockSize \in Nat \ {0}
  /\ Lengths \subseteq Nat \ {0}
  /\ FrameTs \in Nat \ {0}
  /\ MaxFrames \in Nat
  /\ MaxDisturbed \in Nat

VARIABLES
  frames,      (* history: the lengths of the frames given to send_rtp     *)
  block,       (* the loop variable i of send_rtp, -1 outside of it        *)
  rtpTsLen,    (* rtp_ts_len                                               *)
  totalLen,    (* total_len                                                *)
  ts,          (* the timestamp of the outgoing RTP session                *)
  net,         (* the packets under way, oldest first                      *)
  disturbed,   (* history: the packets that were lost, were overtaken, or  *)
               (* overtook others                                          *)
  outbuf,      (* the payloads in outbuf; empty when it is NULL            *)
  delivered    (* history: what the data callback was given                *)

vars == <<frames, block, rtpTsLen, totalLen, ts, net, disturbed, outbuf,
          delivered>>

Packet == [frame : 1 .. MaxFrames, from : Nat, size : 0 .. BlockSize,
           mark : BOOLEAN, ts : Nat]

TypeOK ==
  /\ frames \in Seq(Lengths) /\ Len(frames) <= MaxFrames
  /\ block \in Int /\ block >= -1
  /\ rtpTsLen \in Nat /\ totalLen \in Nat /\ ts \in Nat
  /\ net \in Seq(Packet) /\ disturbed \subseteq Packet
  /\ outbuf \in Seq(Packet) /\ delivered \in Seq(Seq(Packet))

Init ==
  /\ frames = <<>> /\ block = -1
  /\ rtpTsLen = 0 /\ totalLen = 0 /\ ts = 0
  /\ net = <<>> /\ disturbed = {}
  /\ outbuf = <<>> /\ delivered = <<>>

-----------------------------------------------------------------------------
(* send_rtp                                                                *)

frame == Len(frames)
length == frames[frame]

(* nBlockNum: one packet for a short frame.                                *)
BlockNum(len) ==
  IF len <= BlockSize THEN 1
  ELSE len \div BlockSize + (IF len % BlockSize # 0 THEN 1 ELSE 0)

(* Mutation: a packet takes all that is left of the frame.                 *)
PayloadSizeRest(len, i) == len - BlockSize * i

PayloadSize(len, i) ==
  IF len - BlockSize * i < BlockSize THEN len - BlockSize * i ELSE BlockSize

(* Mutation: each packet of a frame advances the timestamp.                *)
TsLenAfterPacketKept == rtpTsLen

TsLenAfterPacket == 0

SendRtp ==
  /\ block = -1 /\ frame < MaxFrames
  /\ \E len \in Lengths : frames' = Append(frames, len)
  /\ block' = 0
  /\ totalLen' = totalLen + FrameTs
  /\ rtpTsLen' = totalLen'
  /\ UNCHANGED <<ts, net, disturbed, outbuf, delivered>>

(* pjmedia_rtp_encode_rtp and pjmedia_transport_send_rtp of one block.     *)
SendPacket ==
  /\ block >= 0
  /\ ts' = ts + rtpTsLen
  /\ net' = Append(net, [frame |-> frame, from |-> BlockSize * block,
                         size |-> PayloadSize(length, block),
                         mark |-> block = BlockNum(length) - 1,
                         ts |-> ts'])
  /\ rtpTsLen' = TsLenAfterPacket
  /\ block' = IF block = BlockNum(length) - 1 THEN -1 ELSE block + 1
  /\ UNCHANGED <<frames, totalLen, disturbed, outbuf, delivered>>

-----------------------------------------------------------------------------
(* The network (external)                                                  *)

Lose(i) ==
  /\ net' = RemoveAt(net, i)
  /\ disturbed' = disturbed \cup {net[i]}
  /\ Cardinality(disturbed') <= MaxDisturbed
  /\ UNCHANGED <<frames, block, rtpTsLen, totalLen, ts, outbuf, delivered>>

-----------------------------------------------------------------------------
(* on_rx_rtp                                                               *)

(* Mutation: the buffer is not freed after the callback.                   *)
ReassembleKept(p) ==
  LET buf == Append(outbuf, p)
  IN IF p.mark THEN outbuf' = buf /\ delivered' = Append(delivered, buf)
               ELSE outbuf' = buf /\ UNCHANGED delivered

(* Mutation: a frame of one packet is also given to the callback at once.  *)
ReassembleAtOnceToo(p) ==
  LET buf == Append(outbuf, p)
  IN IF p.mark
     THEN /\ outbuf' = <<>>
          /\ delivered' = delivered \o (IF Len(buf) = 1 THEN <<buf, buf>> ELSE <<buf>>)
     ELSE outbuf' = buf /\ UNCHANGED delivered

(* evbuffer_add, the data callback at a marker, evbuffer_free.             *)
Reassemble(p) ==
  LET buf == Append(outbuf, p)
  IN IF p.mark THEN outbuf' = <<>> /\ delivered' = Append(delivered, buf)
               ELSE outbuf' = buf /\ UNCHANGED delivered

(* Mutation: the receiver waits for the first packet of a frame.           *)
OnRxRtpInOrder(i) ==
  /\ i = 1 /\ (outbuf = <<>> => net[i].from = 0)
  /\ Reassemble(net[i])
  /\ net' = RemoveAt(net, i)
  /\ UNCHANGED <<frames, block, rtpTsLen, totalLen, ts, disturbed>>

OnRxRtp(i) ==
  /\ Reassemble(net[i])
  /\ net' = RemoveAt(net, i)
  /\ disturbed' = disturbed \cup IF i = 1 THEN {} ELSE Range(SubSeq(net, 1, i))
  /\ i = 1 \/ Cardinality(disturbed') <= MaxDisturbed
  /\ UNCHANGED <<frames, block, rtpTsLen, totalLen, ts>>

Receive == \E i \in 1 .. Len(net) : OnRxRtp(i)

Next ==
  \/ SendRtp \/ SendPacket \/ Receive
  \/ \E i \in 1 .. Len(net) : Lose(i)

(* The loop of send_rtp goes on, and the network brings what it does not   *)
(* lose to the thread that receives; the camera need not give a frame.     *)
Fairness == WF_vars(SendPacket) /\ WF_vars(Receive)

Spec     == Init /\ [][Next]_vars
FairSpec == Spec /\ Fairness

-----------------------------------------------------------------------------
(* Properties                                                              *)

(* The payloads of buf are the frame k, whole and in order.                *)
IsFrame(buf, k) ==
  /\ \A i \in DOMAIN buf : buf[i].frame = k
  /\ buf # <<>> /\ buf[1].from = 0
  /\ \A i \in 2 .. Len(buf) : buf[i].from = buf[i-1].from + buf[i-1].size
  /\ Last(buf).from + Last(buf).size = frames[k]

(* The length of what was delivered, if it is some frame.                  *)
FrameLength(buf) ==
  IF \E k \in DOMAIN frames : IsFrame(buf, k) THEN frames[buf[1].frame] ELSE -1

(* As long as the network has lost and reordered nothing the receiver gets *)
(* the frames that were sent: whole, once each and in order.               *)
Frames == INSTANCE FrameChannel WITH
            sent <- frames,
            got  <- [i \in DOMAIN delivered |-> FrameLength(delivered[i])]

DeliversFrames ==
  Frames!Init /\ [][disturbed' = {} => [Frames!Next]_Frames!vars]_vars

Delivered(k) == \E i \in DOMAIN delivered : IsFrame(delivered[i], k)

(* None of the packets of frame k, nor the marker of the frame before it,  *)
(* was lost, was overtaken or overtook another.                            *)
Undisturbed(k) ==
  \A p \in disturbed : p.frame # k /\ ~(p.frame = k - 1 /\ p.mark)

(* The damage that the network does is local: a frame was delivered whole  *)
(* when it is undisturbed, however many other packets were disturbed.      *)
(* The receiver finds the frame boundaries again by the marker alone.      *)
DamageIsLocal ==
  \A k \in DOMAIN frames :
    /\ k < frame \/ block = -1
    /\ \A p \in Range(net) : p.frame # k
    /\ Undisturbed(k)
    => Delivered(k)

(* The packets of a frame have one timestamp and those of two frames have  *)
(* different ones, whatever was lost or reordered: they tell the frames    *)
(* apart, although the receiver of this program does not look at them.     *)
OneTimestampPerFrame ==
  LET packets == Range(net) \cup disturbed \cup Range(outbuf)
                 \cup UNION {Range(b) : b \in Range(delivered)}
  IN \A p, q \in packets : p.frame = q.frame <=> p.ts = q.ts

(* A network that lost and reordered nothing has delivered the frames      *)
(* that were sent, packet for packet, up to some frame; and all of them    *)
(* when nothing is left to send or under way.                              *)
AllInOrder ==
  disturbed = {} =>
    /\ Len(delivered) <= Len(frames)
    /\ \A k \in DOMAIN delivered : IsFrame(delivered[k], k)
    /\ block = -1 /\ net = <<>> => Len(delivered) = Len(frames)

(* Every frame given to send_rtp is delivered in the end, unless it is     *)
(* itself disturbed: no loss or reordering of other frames holds it up.    *)
FramesArrive ==
  \A k \in 1 .. MaxFrames :
    k \in DOMAIN frames ~> Delivered(k) \/ ~Undisturbed(k)
=============================================================================
