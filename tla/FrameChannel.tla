---------------------------- MODULE FrameChannel ----------------------------
(***************************************************************************)
(* What the video path of a call promises when the network is perfect:     *)
(* the frames the camera gave to send_rtp come out of the other client's   *)
(* data callback whole, once each and in order.                            *)
(***************************************************************************)
EXTENDS Naturals, Sequences

CONSTANT Lengths           (* the lengths a frame can have, in bytes       *)

VARIABLES sent,            (* the lengths of the frames sent so far        *)
          got              (* the lengths of the frames delivered          *)

vars == <<sent, got>>

Init == sent = <<>> /\ got = <<>>

SendFrame ==
  /\ \E len \in Lengths : sent' = Append(sent, len)
  /\ UNCHANGED got

DeliverFrame ==
  /\ Len(got) < Len(sent)
  /\ got' = Append(got, sent[Len(got) + 1])
  /\ UNCHANGED sent

Next == SendFrame \/ DeliverFrame

Spec == Init /\ [][Next]_vars
=============================================================================
