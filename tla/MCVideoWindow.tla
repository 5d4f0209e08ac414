--------------------------- MODULE MCVideoWindow ---------------------------
(***************************************************************************)
(* VideoWindow for TLC: the decoders of the local and of the remote        *)
(* window; pictures of one or two rows, some with a width that fills the   *)
(* rows of a bitmap.                                                       *)
(***************************************************************************)
EXTENDS VideoWindow

CONSTANTS Local, Remote

MCDecoders == {Local, Remote}
=============================================================================
