---------------------------- MODULE MCRtpFraming ----------------------------
(***************************************************************************)
(* RtpFraming for TLC: blocks of 3 bytes and frames of one short packet,   *)
(* of exactly one block, of a block and a byte, of exactly two blocks and  *)
(* of more.                                                                *)
(***************************************************************************)
EXTENDS RtpFraming

MCLengths == {2, 3, 4, 6, 8}
=============================================================================
