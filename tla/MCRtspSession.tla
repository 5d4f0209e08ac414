--------------------------- MODULE MCRtspSession ---------------------------
(***************************************************************************)
(* RtspSession for TLC: the user interface and the SIP worker thread, two  *)
(* session addresses (so that an address is used again) and two slots.     *)
(***************************************************************************)
EXTENDS RtspSession, TLC

CONSTANTS s1, s2, worker

MCSessions == {s1, s2}
MCWorkers  == {worker}
MCSymmetry == Permutations(MCSessions)

(* State constraint.  Two calls that crossed stay "crossed" for ever, and  *)
(* MemorySafe, IsCamera and CallReturns say nothing of such a state, so    *)
(* that exploring further finds nothing they could object to.  What TypeOK *)
(* and StopNotLost say of it is proved in RtspSessionProofs.               *)
NotCrossed == ~crossed
=============================================================================
