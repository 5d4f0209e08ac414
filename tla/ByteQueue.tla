----------------------------- MODULE ByteQueue ------------------------------
(***************************************************************************)
(* What an event buffer promises (evbuffer.h): a queue of bytes.  They are *)
(* added at its end, one after the other, and read or thrown away from its *)
(* front, a number of them or a line; a whole queue can move to another.   *)
(***************************************************************************)
EXTENDS Naturals, Sequences

CONSTANTS Bufs,            (* the buffers                                  *)
          Pieces,          (* what is added to them, sequences of bytes    *)
          CR, LF           (* the bytes that end a line                    *)

VARIABLES content,         (* the bytes in each buffer                     *)
          line             (* what the last reader was given               *)

Terminators == {CR, LF}

Init == content = [b \in Bufs |-> <<>>] /\ line = <<>>

Add(b, data) ==
  /\ content' = [content EXCEPT ![b] = @ \o data]
  /\ UNCHANGED line

DropFirst(s, n) == SubSeq(s, n + 1, Len(s))

Drain(b, n) ==
  /\ content' = [content EXCEPT ![b] = DropFirst(@, n)]
  /\ UNCHANGED line

Remove(b, n) ==
  /\ content' = [content EXCEPT ![b] = DropFirst(@, n)]
  /\ line' = SubSeq(content[b], 1, n)

(* A line ends with '\r\n', '\n\r', '\r' or '\n', the longest that fits.   *)
ReadLine(b) ==
  \E n \in 0 .. Len(content[b]) - 1, m \in 1 .. 2 :
    LET text == SubSeq(content[b], 1, n)
        end  == SubSeq(content[b], n + 1, n + m)
        rest == DropFirst(content[b], n + m)
    IN /\ n + m <= Len(content[b])
       /\ \A i \in 1 .. n : text[i] \notin Terminators
       /\ end \in {<<CR>>, <<LF>>, <<CR, LF>>, <<LF, CR>>}
       /\ m = 1 /\ rest # <<>> => rest[1] \notin Terminators \ {end[1]}
       /\ content' = [content EXCEPT ![b] = rest]
       /\ line' = text

MoveAll(a, b) ==
  /\ content' = [content EXCEPT ![a] = content[a] \o content[b], ![b] = <<>>]
  /\ UNCHANGED line

Next ==
  \E b \in Bufs :
    \/ \E data \in Pieces : Add(b, data)
    \/ \E n \in 0 .. Len(content[b]) : Drain(b, n) \/ Remove(b, n)
    \/ ReadLine(b)
    \/ \E a \in Bufs \ {b} : MoveAll(a, b)

Spec == Init /\ [][Next]_<<content, line>>
=============================================================================
