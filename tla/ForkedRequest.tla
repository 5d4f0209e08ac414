---------------------------- MODULE ForkedRequest ----------------------------
(***************************************************************************)
(* What the SIP server promises about a request that it forks: a branch is *)
(* asked at most once, and only while nobody has decided.  The request is  *)
(* decided once, by the first branch that accepts, or by a rejection when  *)
(* no answer is awaited.  A call that is accepted stops ringing everywhere *)
(* in the same step; another request cannot be called off at all.          *)
(***************************************************************************)
CONSTANT Branches

VARIABLES call,     (* is it a call, which rings until it is called off?   *)
          verdict,  (* what the caller has been told                       *)
          asked,    (* the branches the request was ever sent to           *)
          awaited,  (* of these, the ones that have not answered           *)
          ringing   (* of these, the ones that were not called off         *)

vars == <<call, verdict, asked, awaited, ringing>>

Init ==
  /\ call \in BOOLEAN
  /\ verdict = "none"
  /\ asked = {} /\ awaited = {} /\ ringing = {}

Ask(B) ==
  /\ verdict = "none"
  /\ B \cap asked = {}
  /\ asked' = asked \cup B
  /\ awaited' = awaited \cup B
  /\ ringing' = ringing \cup B
  /\ UNCHANGED <<call, verdict>>

CallOff(B) ==
  /\ call /\ B \subseteq ringing
  /\ ringing' = ringing \ B
  /\ UNCHANGED <<call, verdict, asked, awaited>>

(* The first branch to accept decides.                                     *)
Win(b) ==
  /\ b \in awaited /\ verdict = "none"
  /\ verdict' = "accepted"
  /\ awaited' = awaited \ {b}
  /\ ringing' = IF call THEN {} ELSE ringing \ {b}
  /\ UNCHANGED <<call, asked>>

(* A branch fails, or answers when all is decided.  The failure of a call  *)
(* may call others off, the last one may be the rejection.                 *)
Drop(b) ==
  /\ b \in awaited
  /\ awaited' = awaited \ {b}
  /\ \E B \in SUBSET (ringing \ {b}) :
       /\ ~call => B = {}
       /\ ringing' = (ringing \ {b}) \ B
  /\ \/ verdict' = verdict
     \/ verdict = "none" /\ awaited' = {} /\ verdict' = "rejected"
  /\ UNCHANGED <<call, asked>>

Reject ==
  /\ verdict = "none" /\ awaited = {}
  /\ verdict' = "rejected"
  /\ UNCHANGED <<call, asked, awaited, ringing>>

Next ==
  \/ \E B \in SUBSET Branches : Ask(B) \/ CallOff(B)
  \/ \E b \in Branches : Win(b) \/ Drop(b)
  \/ Reject

Spec == Init /\ [][Next]_vars

-----------------------------------------------------------------------------
(* Nobody rings who was not asked, a call that was accepted rings nowhere, *)
(* and a request is rejected only when nobody is left who could accept it. *)
Settled ==
  /\ ringing \subseteq awaited /\ awaited \subseteq asked
  /\ verdict = "accepted" /\ call => ringing = {}
  /\ verdict = "rejected" => awaited = {}

(* What the caller was told is never taken back, nobody is asked after it, *)
(* and who was asked once, or called off, is not asked again.              *)
Final ==
  [][/\ verdict # "none" => verdict' = verdict /\ asked' = asked
     /\ asked \subseteq asked'
     /\ ringing' \cap asked \subseteq ringing]_vars
==============================================================================
