---------------------------- MODULE EventBuffer -----------------------------
(***************************************************************************)
(* The event buffers (buffer.cpp, evbuffer.h) that hold an RTP frame while *)
(* it is put together and a SIP message while its lines are read.  A       *)
(* buffer is a block of memory of which a part, from "misalign" on and     *)
(* "off" bytes long, is in use: draining moves the front, adding may move  *)
(* the bytes back to the start of the block or the block somewhere else.   *)
(*                                                                         *)
(* Left out: the change callback, which nothing sets, and the reading and  *)
(* writing of file descriptors, which is commented out in the source.      *)
(***************************************************************************)
EXTENDS Integers, Sequences

CONSTANTS
  Bufs,          (* the buffers                                            *)
  Bytes,         (* what they hold                                         *)
  CR, LF,        (* the bytes that end a line                              *)
  Junk,          (* what memory holds that was never written               *)
  Pieces,        (* what is added: by evbuffer_add, or formatted           *)
  MinAlloc,      (* the smallest block, 256 in the source                  *)
  PrintfSpace,   (* the space add_vprintf asks for at first, 64            *)
  MaxTotal       (* bound: how large a block is allocated                  *)

ASSUME BufferAssumption ==
  /\ CR \in Bytes /\ LF \in Bytes /\ CR # LF
  /\ Junk \notin Bytes
  /\ Pieces \subseteq Seq(Bytes)
  /\ MinAlloc \in Nat \ {0}
  /\ PrintfSpace \in Nat \ {0}
  /\ MaxTotal \in Nat

VARIABLES
  buf,           (* the struct evbuffer of each buffer                     *)
  line,          (* what the last reader was given                         *)
  overrun        (* was memory outside of a block written?                 *)

vars == <<buf, line, overrun>>

(* orig_buffer with its totallen bytes, misalign and off; no block at all  *)
(* is a block of no bytes.                                                 *)
Buffer == [mem : Seq(Bytes \cup {Junk}), misalign : Nat, off : Nat]

totallen(b) == Len(b.mem)

New == [mem |-> <<>>, misalign |-> 0, off |-> 0]

Init ==
  /\ buf = [b \in Bufs |-> New]
  /\ line = <<>>
  /\ overrun = FALSE

(* The bytes in use.                                                       *)
Content(b) == [i \in 1 .. b.off |-> b.mem[b.misalign + i]]

-----------------------------------------------------------------------------
(* The functions on one buffer                                             *)

(* evbuffer_align: memmove to the start of the block.                      *)
Align(b) ==
  [mem |-> [i \in 1 .. totallen(b) |->
              IF i <= b.off THEN b.mem[b.misalign + i] ELSE b.mem[i]],
   misalign |-> 0, off |-> b.off]

(* Mutation: the new block does not have the bytes of the old one.         *)
ReallocForgets(b, length) == [b EXCEPT !.mem = [i \in 1 .. length |-> Junk]]

(* realloc keeps the bytes of the old block.                               *)
Realloc(b, length) ==
  [mem |-> [i \in 1 .. length |->
              IF i <= totallen(b) THEN b.mem[i] ELSE Junk],
   misalign |-> b.misalign, off |-> b.off]

(* The size that doubling gives when need does not fit: of totallen, or    *)
(* of 256 when that is less.                                               *)
Lengths(length, need) ==
  LET start == IF length < MinAlloc THEN MinAlloc ELSE length
  IN {n \in need .. MaxTotal :
        \E k \in 0 .. need : n = start * 2^k /\ (n = start \/ n < 2 * need)}

Need(b, n) == b.misalign + b.off + n
Fits(b, n) == totallen(b) >= Need(b, n)

(* Mutation: an alignment is taken for enough when it frees any space.     *)
ExpandedTooSmall(b, n) ==
  IF Fits(b, n) THEN {b}
  ELSE IF b.misalign > 0 THEN {Align(b)}
  ELSE {Realloc(Align(b), k) : k \in Lengths(totallen(b), Need(b, n))}

(* Mutation: the block grows without its bytes being moved to its start.   *)
ExpandedUnmoved(b, n) ==
  IF Fits(b, n) THEN {b}
  ELSE IF b.misalign >= n THEN {Align(b)}
  ELSE {[Realloc(b, k) EXCEPT !.misalign = 0] : k \in Lengths(totallen(b), Need(b, n))}

(* evbuffer_expand by n bytes, when it does not fail.                      *)
Expanded(b, n) ==
  IF Fits(b, n) THEN {b}
  ELSE IF b.misalign >= n THEN {Align(b)}
  ELSE {Realloc(Align(b), k) : k \in Lengths(totallen(b), Need(b, n))}

(* evbuffer_expand when realloc fails: the bytes were aligned before.      *)
Unexpanded(b, n) == IF Fits(b, n) \/ b.misalign >= n THEN {} ELSE {Align(b)}

(* memcpy to the end of the bytes in use.                                  *)
Written(b, data) ==
  LET end == b.misalign + b.off
  IN [mem |-> [i \in 1 .. totallen(b) |->
                 IF i - end \in 1 .. Len(data) THEN data[i - end] ELSE b.mem[i]],
      misalign |-> b.misalign, off |-> b.off + Len(data)]

(* evbuffer_drain                                                          *)
Drained(b, n) ==
  IF n >= b.off THEN [mem |-> b.mem, misalign |-> 0, off |-> 0]
  ELSE [mem |-> b.mem, misalign |-> b.misalign + n, off |-> b.off - n]

-----------------------------------------------------------------------------
EvbufferAdd(b, data) ==
  /\ \/ \E e \in Expanded(buf[b], Len(data)) :
          buf' = [buf EXCEPT ![b] = Written(e, data)]
     \/ \E f \in Unexpanded(buf[b], Len(data)) : buf' = [buf EXCEPT ![b] = f]
  /\ UNCHANGED <<line, overrun>>

(* evbuffer_add_vprintf: what does not fit in one byte less than the space *)
(* makes vsnprintf fail, or tell how much is needed and be called again.   *)
(* The first evbuffer_expand may fail, and the code goes on with the space *)
(* that is left.  When none is left, space - 1 is the largest size_t and   *)
(* buffer[space - 1] is the byte before: both writes leave the free part,  *)
(* and what the program does from there on is not modelled.                *)
EvbufferAddPrintf(b, data) ==
  /\ \E e \in Expanded(buf[b], PrintfSpace) \cup Unexpanded(buf[b], PrintfSpace) :
       LET space == totallen(e) - (e.misalign + e.off)
       IN \/ /\ space = 0
             /\ buf' = [buf EXCEPT ![b] = e]
             /\ overrun' = TRUE
          \/ /\ space > 0
             /\ IF Len(data) < space
                THEN buf' = [buf EXCEPT ![b] = Written(e, data)]
                ELSE \/ \E g \in Expanded(e, Len(data) + 1) :
                          buf' = [buf EXCEPT ![b] = Written(g, data)]
                     \/ \E g \in {e} \cup Unexpanded(e, Len(data) + 1) :
                          buf' = [buf EXCEPT ![b] = g]
             /\ UNCHANGED overrun
  /\ UNCHANGED line

EvbufferDrain(b, n) ==
  /\ buf' = [buf EXCEPT ![b] = Drained(@, n)]
  /\ UNCHANGED <<line, overrun>>

EvbufferRemove(b, datlen) ==
  LET nread == IF datlen >= buf[b].off THEN buf[b].off ELSE datlen
  IN /\ line' = SubSeq(Content(buf[b]), 1, nread)
     /\ buf' = [buf EXCEPT ![b] = Drained(@, nread)]
     /\ UNCHANGED overrun

(* Mutation: any terminator after a terminator goes with it.              *)
SecondTerminatorSame(b, i) == i < b.off /\ Content(b)[i + 1] \in {CR, LF}

(* Is the byte after the terminator at i the other one?                    *)
SecondTerminator(b, i) ==
  /\ i < b.off
  /\ Content(b)[i + 1] \in {CR, LF} \ {Content(b)[i]}

(* evbuffer_readline; without memory for the line its text is lost.        *)
EvbufferReadline(b) ==
  \E i \in 1 .. buf[b].off :
    /\ Content(buf[b])[i] \in {CR, LF}
    /\ \A j \in 1 .. i - 1 : Content(buf[b])[j] \notin {CR, LF}
    /\ \/ /\ line' = SubSeq(Content(buf[b]), 1, i - 1)
          /\ LET n == IF SecondTerminator(buf[b], i) THEN i + 1 ELSE i
             IN buf' = [buf EXCEPT ![b] = Drained(@, n)]
       \/ /\ buf' = [buf EXCEPT ![b] = Drained(@, i - 1)]
          /\ UNCHANGED line
  /\ UNCHANGED overrun

(* evbuffer_add_buffer: an empty destination exchanges its block with the  *)
(* source, else the bytes are copied and the source is drained.            *)
EvbufferAddBuffer(outbuf, inbuf) ==
  /\ \/ /\ buf[outbuf].off = 0
        /\ buf' = [buf EXCEPT ![outbuf] = buf[inbuf], ![inbuf] = buf[outbuf]]
     \/ /\ buf[outbuf].off # 0
        /\ \E e \in Expanded(buf[outbuf], buf[inbuf].off) :
             buf' = [buf EXCEPT ![outbuf] = Written(e, Content(buf[inbuf])),
                                ![inbuf] = Drained(@, buf[inbuf].off)]
     \/ /\ buf[outbuf].off # 0
        /\ \E f \in Unexpanded(buf[outbuf], buf[inbuf].off) :
             buf' = [buf EXCEPT ![outbuf] = f]
  /\ UNCHANGED <<line, overrun>>

(* evbuffer_free, and evbuffer_new of the next buffer that takes its place.*)
EvbufferFree(b) ==
  /\ buf' = [buf EXCEPT ![b] = New]
  /\ UNCHANGED <<line, overrun>>

(* The functions, called one after the other, while the memory around the  *)
(* blocks is sound.                                                        *)
Next ==
  /\ ~overrun
  /\ \E b \in Bufs :
       \/ EvbufferFree(b)
       \/ \E data \in Pieces : EvbufferAdd(b, data) \/ EvbufferAddPrintf(b, data)
       \/ \E n \in 0 .. buf[b].off + 1 : EvbufferDrain(b, n) \/ EvbufferRemove(b, n)
       \/ EvbufferReadline(b)
       \/ \E a \in Bufs \ {b} : EvbufferAddBuffer(a, b)

Spec == Init /\ [][Next]_vars

-----------------------------------------------------------------------------
(* Properties                                                              *)

TypeOK ==
  /\ buf \in [Bufs -> Buffer]
  /\ line \in Seq(Bytes)
  /\ overrun \in BOOLEAN

(* The bytes counted as in use lie within the block and were all written,  *)
(* whatever was drained, aligned, grown, exchanged or not allocated, so    *)
(* what is read of them is in the block and no junk, and what was added    *)
(* was put in the block.  Not a promise about every write: formatting into *)
(* a full block when memory ran out writes outside of it before any byte   *)
(* is counted (overrun), and that is the end of what this says.            *)
Layout ==
  \A b \in Bufs :
    /\ buf[b].misalign + buf[b].off <= totallen(buf[b])
    /\ Content(buf[b]) \in Seq(Bytes)

(* The buffers are queues of bytes: moving them about in memory, growing,  *)
(* failing to grow and exchanging blocks lose, repeat and reorder none.    *)
Queue == INSTANCE ByteQueue WITH content <- [b \in Bufs |-> Content(buf[b])]

IsByteQueue == Queue!Spec
=============================================================================
