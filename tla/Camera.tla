------------------------------- MODULE Camera -------------------------------
(***************************************************************************)
(* What the video window promises about the camera it shows: it has one    *)
(* camera at a time.  A session is opened, its thread starts, the session  *)
(* is listed where a later call can find it; only then does the thread     *)
(* end, then the session is deleted and at last taken off the list, and    *)
(* only then does the next camera begin.  No session is lost on the way.   *)
(* The promise is to callers that take turns: once two calls have crossed  *)
(* nothing is promised any more.                                           *)
(***************************************************************************)
CONSTANT Sessions

VARIABLES open,      (* the sessions that exist                            *)
          running,   (* the sessions whose thread runs                     *)
          listed,    (* the sessions that a lookup by index finds          *)
          crossed    (* have two calls been in progress at once?           *)

vars == <<open, running, listed, crossed>>

Init == open = {} /\ running = {} /\ listed = {} /\ crossed = FALSE

Open(s) ==
  /\ open = {} /\ running = {} /\ listed = {}
  /\ open' = {s}
  /\ UNCHANGED <<running, listed, crossed>>

Start(s) ==
  /\ open = {s} /\ running = {} /\ listed = {}
  /\ running' = {s}
  /\ UNCHANGED <<open, listed, crossed>>

List(s) ==
  /\ open = {s} /\ running = {s} /\ listed = {}
  /\ listed' = {s}
  /\ UNCHANGED <<open, running, crossed>>

End(s) ==
  /\ open = {s} /\ running = {s} /\ listed = {s}
  /\ running' = {}
  /\ UNCHANGED <<open, listed, crossed>>

Delete(s) ==
  /\ open = {s} /\ running = {} /\ listed = {s}
  /\ open' = {}
  /\ UNCHANGED <<running, listed, crossed>>

TakeOff(s) ==
  /\ open = {} /\ running = {} /\ listed = {s}
  /\ listed' = {}
  /\ UNCHANGED <<open, running, crossed>>

Next ==
  \/ \E s \in Sessions :
       ~crossed /\ (Open(s) \/ Start(s) \/ List(s) \/ End(s) \/ Delete(s)
                      \/ TakeOff(s))
  \/ crossed'

Spec == Init /\ [][Next]_vars

-----------------------------------------------------------------------------
(* Until two calls cross there is one session at most, whichever way it is *)
(* looked for, and no thread runs without its session.                     *)
AtMostOne ==
  ~crossed =>
    /\ \A s, t \in open \cup running \cup listed : s = t
    /\ running \subseteq open
=============================================================================
