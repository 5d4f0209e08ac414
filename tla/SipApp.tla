------------------------------- MODULE SipApp -------------------------------
(***************************************************************************)
(* The SIP application of the client (pjsua_app.cpp, pjsua_app_common.cpp) *)
(* from the Init button to the OK button: what a failure of each step of   *)
(* app_init leaves behind, the ringback tone that the calls share, and     *)
(* current_call.                                                           *)
(*                                                                         *)
(* app_init, app_destroy and outgoing calls run on the UI thread (ui); the *)
(* events of calls on the one worker thread of pjsua (worker), which       *)
(* pjsua_destroy replaces by its own polling.  load_config only sets       *)
(* defaults: tones on, no call duration, no files, UDP only.  ring_start   *)
(* is never called, so ring_stop only has the ringback to stop.            *)
(***************************************************************************)
EXTENDS Integers, FiniteSets

CONSTANT MaxCalls    (* pjsua_call_get_max_count()                         *)

ASSUME CallsAssumption == MaxCalls \in Nat \ {0}

Calls == 0 .. MaxCalls - 1
PJSUA_INVALID_ID == -1

Tones     == {"ringback", "ring"}
Resources == {"pjsua", "pool", "tmp_pool", "transport"}

VARIABLES
  ui,          (* where the UI thread is in app_init or app_destroy        *)
  failed,      (* history: the call in app_init that failed                *)
  closing,     (* OK was pressed                                           *)
  held,        (* history: how often a resource was acquired and not freed *)
  port,        (* history: ringback_port, ring_port                        *)
  slotValid,   (* ringback_slot, ring_slot # PJSUA_INVALID_ID              *)
  linked,      (* the ringback slot is connected to the sound device       *)
  ringbackCnt, (* ringback_cnt                                             *)
  ringbackOn,  (* call_data[c].ringback_on                                 *)
  inv,         (* the state of each call in pjsua                          *)
  currentCall, (* current_call                                             *)
  worker,      (* the handler of a DISCONNECTED call: where, which, what   *)
  misuse,      (* history: the ringback was rewound after its destruction  *)
  crossed      (* history: its slot was closed between test and rewind     *)

appVars  == <<ui, failed, closing, held>>
slotVars == <<port, slotValid, crossed>>
ringVars == <<linked, ringbackCnt, ringbackOn>>
callVars == <<inv, currentCall, worker, misuse>>
vars     == <<appVars, slotVars, ringVars, callVars>>

InvStates == {"free", "calling", "early", "incoming", "confirmed", "ended"}
UIStates  == {"off", "create", "init", "tones", "transport", "start", "up",
              "close_ringback", "destroy_ringback", "close_ring", "release",
              "pjsua_destroy", "reset", "exit"}
NoWork    == [at |-> "idle", call |-> PJSUA_INVALID_ID, next |-> PJSUA_INVALID_ID]

(* The values of the variables.                                            *)
TypeOK ==
  /\ ui \in UIStates
  /\ failed \in {"nothing", "pjsua_create", "pjsua_init", "tonegen",
                 "transport", "pjsua_start"}
  /\ closing \in BOOLEAN
  /\ held \in [Resources -> -1 .. 1]
  /\ port \in [Tones -> {"null", "made", "destroyed", "lost"}]
  /\ slotValid \in [Tones -> BOOLEAN]
  /\ linked \in BOOLEAN /\ misuse \in BOOLEAN /\ crossed \in BOOLEAN
  /\ ringbackCnt \in 0 .. MaxCalls
  /\ ringbackOn \in [Calls -> BOOLEAN]
  /\ inv \in [Calls -> InvStates]
  /\ currentCall \in Calls \cup {PJSUA_INVALID_ID}
  /\ worker \in [at : {"idle", "ring_stop", "rewind", "test", "find", "store"},
                 call : Calls \cup {PJSUA_INVALID_ID},
                 next : Calls \cup {PJSUA_INVALID_ID}]

(* app_config is zero, and 0 is not PJSUA_INVALID_ID.                      *)
Init ==
  /\ ui = "off" /\ failed = "nothing" /\ closing = FALSE
  /\ held = [r \in Resources |-> 0]
  /\ port = [t \in Tones |-> "null"]
  /\ slotValid = [t \in Tones |-> TRUE]
  /\ linked = FALSE /\ misuse = FALSE /\ crossed = FALSE
  /\ ringbackCnt = 0 /\ ringbackOn = [c \in Calls |-> FALSE]
  /\ inv = [c \in Calls |-> "free"]
  /\ currentCall = PJSUA_INVALID_ID /\ worker = NoWork

Acquire(rs) == held' = [r \in Resources |-> held[r] + IF r \in rs THEN 1 ELSE 0]
Release(rs) == held' = [r \in Resources |-> held[r] - IF r \in rs THEN 1 ELSE 0]

-----------------------------------------------------------------------------
(* app_init                                                                *)

(* OnBnClickedButtonInit, which does not look at app_init's result; the    *)
(* button is taken to be pressed once.                                     *)
ButtonInit ==
  /\ ui = "off" /\ failed = "nothing" /\ ~closing
  /\ ui' = "create"
  /\ UNCHANGED <<failed, closing, held, slotVars, ringVars, callVars>>

PjsuaCreate ==
  /\ ui = "create"
  /\ \/ /\ ui' = "init" /\ Acquire({"pjsua", "pool", "tmp_pool"})
        /\ UNCHANGED failed
     \/ ui' = "off" /\ failed' = "pjsua_create" /\ UNCHANGED held
  /\ UNCHANGED <<closing, slotVars, ringVars, callVars>>

(* default_config: the slots are PJSUA_INVALID_ID.                         *)
DefaultConfig == slotValid' = [t \in Tones |-> FALSE]

(* load_config, then pjsua_init, whose failure does not go to on_error.    *)
PjsuaInit ==
  /\ ui = "init"
  /\ DefaultConfig
  /\ \/ ui' = "tones" /\ UNCHANGED <<failed, held>>
     \/ ui' = "off" /\ failed' = "pjsua_init" /\ Release({"tmp_pool"})
  /\ UNCHANGED <<closing, port, crossed, ringVars, callVars>>

(* Mutation: on_error only calls app_destroy.                              *)
OnErrorKeepsPool(step) ==
  ui' = "close_ringback" /\ failed' = step /\ UNCHANGED held

(* on_error: release tmp_pool, then app_destroy.                           *)
OnError(step) ==
  ui' = "close_ringback" /\ failed' = step /\ Release({"tmp_pool"})

(* Ringback, then ring: pjmedia_tonegen_create2 and pjsua_conf_add_port,   *)
(* each of which may fail.                                                 *)
CreateTones ==
  /\ ui = "tones"
  /\ \E made, added \in {{}, {"ringback"}, Tones} :
       /\ added \subseteq made /\ Cardinality(made \ added) <= 1
       /\ port' = [t \in Tones |-> IF t \in made THEN "made" ELSE "null"]
       /\ slotValid' = [t \in Tones |-> t \in added]
       /\ IF added = Tones THEN ui' = "transport" /\ UNCHANGED <<failed, held>>
                           ELSE OnError("tonegen")
  /\ UNCHANGED <<closing, crossed, ringVars, callVars>>

(* The UDP transport and its local account; then tmp_pool is released.     *)
CreateTransport ==
  /\ ui = "transport"
  /\ \/ /\ ui' = "start" /\ UNCHANGED failed
        /\ held' = [held EXCEPT !["transport"] = @ + 1, !["tmp_pool"] = @ - 1]
     \/ OnError("transport")
  /\ UNCHANGED <<closing, slotVars, ringVars, callVars>>

(* The failure of pjsua_start goes to on_error too, with tmp_pool already  *)
(* released.                                                               *)
PjsuaStart ==
  /\ ui = "start"
  /\ \/ ui' = "up" /\ UNCHANGED <<failed, held>>
     \/ OnError("pjsua_start")
  /\ UNCHANGED <<closing, slotVars, ringVars, callVars>>

-----------------------------------------------------------------------------
(* app_destroy, called by on_error or by the OK button                     *)

(* OnBnClickedOk, also after an app_init that failed.                      *)
ButtonOk ==
  /\ ui \in {"up", "off"} /\ ~closing
  /\ ui' = "close_ringback" /\ closing' = TRUE
  /\ UNCHANGED <<failed, held, slotVars, ringVars, callVars>>

(* pjsua_conf_remove_port and slot = PJSUA_INVALID_ID.                     *)
CloseSlot(t) == slotValid' = [slotValid EXCEPT ![t] = FALSE]

CloseRingback ==
  /\ ui = "close_ringback"
  /\ IF port["ringback"] = "made" /\ slotValid["ringback"]
     THEN /\ CloseSlot("ringback") /\ linked' = FALSE
          /\ crossed' = (worker.at = "rewind")
          /\ ui' = "destroy_ringback"
     ELSE ui' = "close_ring" /\ UNCHANGED <<slotValid, linked, crossed>>
  /\ UNCHANGED <<failed, closing, held, port, ringbackCnt, ringbackOn, callVars>>

DestroyRingback ==
  /\ ui = "destroy_ringback" /\ ui' = "close_ring"
  /\ port' = [port EXCEPT !["ringback"] = "destroyed"]
  /\ UNCHANGED <<failed, closing, held, slotValid, crossed, ringVars, callVars>>

(* No handler uses the ring tone.                                          *)
CloseRing ==
  /\ ui = "close_ring" /\ ui' = "release"
  /\ IF port["ring"] = "made" /\ slotValid["ring"]
     THEN CloseSlot("ring") /\ port' = [port EXCEPT !["ring"] = "destroyed"]
     ELSE UNCHANGED <<slotValid, port>>
  /\ UNCHANGED <<failed, closing, held, crossed, ringVars, callVars>>

(* app_config.pool is NULL when it is not held.                            *)
ReleasePool ==
  /\ ui = "release" /\ ui' = "pjsua_destroy"
  /\ Release(IF held["pool"] = 1 THEN {"pool"} ELSE {})
  /\ UNCHANGED <<failed, closing, slotVars, ringVars, callVars>>

(* pjsua_destroy waits for the worker, hangs up, polls until the calls     *)
(* have ended or it gives up on them; of nothing it destroys nothing.      *)
PjsuaDestroy ==
  /\ ui = "pjsua_destroy" /\ worker.at = "idle" /\ ui' = "reset"
  /\ Release({r \in {"pjsua", "transport"} : held[r] = 1})
  /\ inv' = [c \in Calls |-> "free"]
  /\ UNCHANGED <<failed, closing, slotVars, ringVars, currentCall, worker, misuse>>

(* pj_bzero(&app_config): a generator that was not destroyed is lost.      *)
Reset ==
  /\ ui = "reset" /\ ui' = IF closing THEN "exit" ELSE "off"
  /\ port' = [t \in Tones |-> IF port[t] = "made" THEN "lost" ELSE port[t]]
  /\ slotValid' = [t \in Tones |-> TRUE]
  /\ ringbackCnt' = 0 /\ ringbackOn' = [c \in Calls |-> FALSE]
  /\ UNCHANGED <<failed, closing, held, linked, crossed, callVars>>

-----------------------------------------------------------------------------
(* The calls                                                               *)

(* "if (current_call==PJSUA_INVALID_ID) current_call = call_id".           *)
NoteCall(c) ==
  currentCall' = IF currentCall = PJSUA_INVALID_ID THEN c ELSE currentCall

(* sip_call: pjsua_call_make_call enters CALLING and writes current_call.  *)
SipCall(c) ==
  /\ ui = "up" /\ inv[c] = "free"
  /\ inv' = [inv EXCEPT ![c] = "calling"] /\ currentCall' = c
  /\ UNCHANGED <<appVars, slotVars, ringVars, worker, misuse>>

(* The worker is free, and pjsua has a transport to hear from.             *)
Handling == worker.at = "idle" /\ held["transport"] = 1

(* on_incoming_call.                                                       *)
IncomingCall(c) ==
  /\ Handling /\ inv[c] = "free"
  /\ inv' = [inv EXCEPT ![c] = "incoming"] /\ NoteCall(c)
  /\ UNCHANGED <<appVars, slotVars, ringVars, worker, misuse>>

(* Mutation: ringback_start does not test ringback_on.                     *)
RingbackStartAgain(c) ==
  /\ ringbackOn' = [ringbackOn EXCEPT ![c] = TRUE]
  /\ ringbackCnt' = ringbackCnt + 1
  /\ linked' = (linked \/ (ringbackCnt = 0 /\ slotValid["ringback"]))

(* ringback_start                                                          *)
RingbackStart(c) ==
  IF ringbackOn[c]
  THEN UNCHANGED ringVars
  ELSE /\ ringbackOn' = [ringbackOn EXCEPT ![c] = TRUE]
       /\ ringbackCnt' = ringbackCnt + 1
       /\ linked' = (linked \/ (ringbackCnt = 0 /\ slotValid["ringback"]))

(* on_call_state, EARLY, of an outgoing call: 180 without SDP starts the   *)
(* ringback.                                                               *)
Early(c) ==
  /\ Handling /\ inv[c] \in {"calling", "early"}
  /\ RingbackStart(c) \/ UNCHANGED ringVars
  /\ inv' = [inv EXCEPT ![c] = "early"] /\ NoteCall(c)
  /\ UNCHANGED <<appVars, slotVars, worker, misuse>>

(* on_call_state, CONFIRMED: the ringback goes on.                         *)
Confirmed(c) ==
  /\ Handling /\ inv[c] \in {"calling", "early", "incoming"}
  /\ inv' = [inv EXCEPT ![c] = "confirmed"] /\ NoteCall(c)
  /\ UNCHANGED <<appVars, slotVars, ringVars, worker, misuse>>

(* on_call_state, DISCONNECTED, from here to StoreCurrent.                 *)
Disconnected(c) ==
  /\ Handling /\ inv[c] \notin {"free", "ended"}
  /\ inv' = [inv EXCEPT ![c] = "ended"]
  /\ worker' = [NoWork EXCEPT !.at = "ring_stop", !.call = c]
  /\ UNCHANGED <<appVars, slotVars, ringVars, currentCall, misuse>>

(* Mutation: ring_stop does not test ringback_on.                          *)
StopsAny(c) == TRUE

(* call_data[call_id].ringback_on                                          *)
Stops(c) == ringbackOn[c]

(* Mutation: ring_stop does not test ringback_slot.                        *)
LastOne == ringbackCnt = 1

(* The last call that rings, and the slot is open.                         *)
Last == ringbackCnt = 1 /\ slotValid["ringback"]

(* ring_stop up to pjmedia_tonegen_rewind                                  *)
RingStop ==
  /\ worker.at = "ring_stop"
  /\ IF Stops(worker.call)
     THEN /\ ringbackOn' = [ringbackOn EXCEPT ![worker.call] = FALSE]
          /\ ringbackCnt' = ringbackCnt - 1
          /\ linked' = (linked /\ ~Last)
          /\ worker' = [worker EXCEPT !.at = IF Last THEN "rewind" ELSE "test"]
     ELSE worker' = [worker EXCEPT !.at = "test"] /\ UNCHANGED ringVars
  /\ UNCHANGED <<appVars, slotVars, inv, currentCall, misuse>>

Rewind ==
  /\ worker.at = "rewind"
  /\ worker' = [worker EXCEPT !.at = "test"]
  /\ misuse' = (misuse \/ port["ringback"] # "made")
  /\ UNCHANGED <<appVars, slotVars, ringVars, inv, currentCall>>

(* on_call_state returns and pjsua forgets the call.                       *)
Forget(c) == worker' = NoWork /\ inv' = [inv EXCEPT ![c] = "free"]

(* "call_id == current_call"                                               *)
TestCurrent ==
  /\ worker.at = "test"
  /\ IF worker.call = currentCall
     THEN worker' = [worker EXCEPT !.at = "find"] /\ UNCHANGED inv
     ELSE Forget(worker.call)
  /\ UNCHANGED <<appVars, slotVars, ringVars, currentCall, misuse>>

(* pjsua_call_is_active                                                    *)
Active(c) == inv[c] \notin {"free", "ended"}

ActiveAbove == {c \in Calls : c > currentCall /\ Active(c)}
ActiveBelow == {c \in Calls : c < currentCall /\ Active(c)}
IsLeast(c, S) == c \in S /\ \A d \in S : c <= d

(* Mutation: only the calls above the current one are searched.            *)
IsNextCallAbove(c) ==
  \/ IsLeast(c, ActiveAbove)
  \/ ActiveAbove = {} /\ c = PJSUA_INVALID_ID

(* find_next_call: the first active call above the current one, else the   *)
(* first one below it.                                                     *)
IsNextCall(c) ==
  \/ IsLeast(c, ActiveAbove)
  \/ ActiveAbove = {} /\ IsLeast(c, ActiveBelow)
  \/ ActiveAbove \cup ActiveBelow = {} /\ c = PJSUA_INVALID_ID

FindNextCall ==
  /\ worker.at = "find"
  /\ \E c \in Calls \cup {PJSUA_INVALID_ID} :
       /\ IsNextCall(c)
       /\ worker' = [worker EXCEPT !.at = "store", !.next = c]
  /\ UNCHANGED <<appVars, slotVars, ringVars, inv, currentCall, misuse>>

StoreCurrent ==
  /\ worker.at = "store"
  /\ currentCall' = worker.next
  /\ Forget(worker.call)
  /\ UNCHANGED <<appVars, slotVars, ringVars, misuse>>

-----------------------------------------------------------------------------
AppInit    == ButtonInit \/ PjsuaCreate \/ PjsuaInit \/ CreateTones
              \/ CreateTransport \/ PjsuaStart
AppDestroy == ButtonOk \/ CloseRingback \/ DestroyRingback \/ CloseRing
              \/ ReleasePool \/ PjsuaDestroy \/ Reset
CallEvent  == \E c \in Calls : SipCall(c) \/ IncomingCall(c) \/ Early(c)
                               \/ Confirmed(c) \/ Disconnected(c)
Handler    == RingStop \/ Rewind \/ TestCurrent \/ FindNextCall \/ StoreCurrent

Next == AppInit \/ AppDestroy \/ CallEvent \/ Handler

Spec == Init /\ [][Next]_vars

-----------------------------------------------------------------------------
(* ringback_cnt is the number of calls with ringback_on, through calls     *)
(* that ring together, hang up in any order and outlive the tone itself;   *)
(* the tone sounds exactly while it is not 0; and a number pjsua may give  *)
(* to a new call never has ringback_on, which would leave it silent.       *)
RingCounts ==
  /\ ringbackCnt = Cardinality({c \in Calls : ringbackOn[c]})
  /\ linked <=> ringbackCnt > 0 /\ slotValid["ringback"]
  /\ ui # "reset" => \A c \in Calls : inv[c] = "free" => ~ringbackOn[c]

(* A handler rewinds the ringback generator after app_destroy closed it    *)
(* only if it had passed the test of ringback_slot before: a handler that  *)
(* starts later is stopped by the slot.                                    *)
RewindIsLate == misuse => crossed

(* Between two handlers current_call is no call or an active one, whatever *)
(* sip_call wrote while find_next_call ran; and when a call is confirmed   *)
(* it is a call.                                                           *)
CurrentCall ==
  worker.at = "idle" /\ held["pjsua"] = 1 =>
    /\ currentCall = PJSUA_INVALID_ID \/ Active(currentCall)
    /\ currentCall = PJSUA_INVALID_ID => \A c \in Calls : inv[c] # "confirmed"

(* At the exit, whichever step of app_init failed and though app_destroy   *)
(* ran twice, what was acquired is released, once, except that tmp_pool is *)
(* released twice when pjsua_start fails; and a generator is lost only if  *)
(* the bridge refused it.                                                  *)
CleanExit ==
  ui = "exit" =>
    /\ \A r \in Resources :
         held[r] = IF r = "tmp_pool" /\ failed = "pjsua_start" THEN -1 ELSE 0
    /\ \A t \in Tones : port[t] = "lost" => failed = "tonegen"
=============================================================================
