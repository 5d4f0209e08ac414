--------------------------- MODULE MCEventBuffer ----------------------------
(***************************************************************************)
(* EventBuffer for TLC: two buffers, and lines that end in one of the      *)
(* terminators, in both, or in one that arrives after the other; what is   *)
(* added may also be empty.                                                *)
(***************************************************************************)
EXTENDS EventBuffer, TLC

CONSTANTS b1, b2, cr, lf, x, junk

MCBytes  == {cr, lf, x}
MCPieces == {<<>>, <<lf>>, <<x>>, <<lf, cr>>}

MCBufs     == {b1, b2}
MCSymmetry == Permutations(MCBufs)

(* State constraint.  There is memory for a block of four bytes, or for a  *)
(* block of two in each buffer.                                            *)
MemoryBound == totallen(buf[b1]) + totallen(buf[b2]) <= 4
=============================================================================
