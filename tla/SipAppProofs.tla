---------------------------- MODULE SipAppProofs ----------------------------
(***************************************************************************)
(* Proofs about SipApp, for any number of calls: its types, the count of   *)
(* the calls that ring, the handlers' use of the tone and of current_call, *)
(* and what is left at the exit.                                           *)
(*                                                                         *)
(* The count is one number for all calls, and the tone it switches goes    *)
(* away before the calls do: RingCounts needs to know where app_destroy is *)
(* with the slot (Slots), that a handler holds the call it stops           *)
(* (Handlers), and both need what is held at each stage (Holds).           *)
(***************************************************************************)
EXTENDS SipApp, FiniteSetTheorems, TLAPS

Ringing == {c \in Calls : ringbackOn[c]}

(* What each stage of app_init and app_destroy holds.                      *)
Holds ==
  /\ held["tmp_pool"] = IF ui \in {"init", "tones", "transport"} THEN 1
                        ELSE IF failed = "pjsua_start" THEN -1 ELSE 0
  /\ \A r \in {"pjsua", "pool", "transport"} : held[r] \in {0, 1}
  /\ ui \in {"create", "init", "tones", "transport", "start", "up"} =>
       failed = "nothing"
  /\ failed = "nothing" /\ ui \in {"close_ringback", "destroy_ringback",
       "close_ring", "release", "pjsua_destroy", "reset"} => closing
  /\ ui = "create" \/ (ui = "off" /\ failed = "nothing") =>
       held["pjsua"] = 0 /\ held["pool"] = 0
  /\ ui \in {"create", "init", "tones", "transport"} => held["transport"] = 0
  /\ ui = "off" => held["transport"] = 0
  /\ ui \in {"pjsua_destroy", "reset", "exit"} => held["pool"] = 0
  /\ ui \in {"reset", "exit"} => held["pjsua"] = 0 /\ held["transport"] = 0

(* The slots, from CreateTones to Reset.                                   *)
Slots ==
  /\ \A t \in Tones :
       /\ ui \in {"create", "init", "tones"} => port[t] # "made" /\ port[t] # "lost"
       /\ ui \in {"transport", "start", "up"} => port[t] = "made" /\ slotValid[t]
       /\ ui = "close_ringback" /\ failed # "tonegen" /\ port[t] = "made" =>
            slotValid[t]
       /\ ui \in {"release", "pjsua_destroy", "reset"} /\ failed # "tonegen" =>
            port[t] # "made"
       /\ ui \in {"off", "exit"} => port[t] # "made"
       /\ port[t] = "lost" => failed = "tonegen"
  /\ ui \in {"destroy_ringback", "close_ring"} /\ failed # "tonegen"
       /\ port["ring"] = "made" => slotValid["ring"]
  /\ ui = "close_ring" /\ failed # "tonegen" => port["ringback"] # "made"
  /\ ui = "off" /\ failed = "nothing" => \A t \in Tones : port[t] = "null"
  /\ held["transport"] = 1 =>
       /\ ui \in {"start", "up", "close_ringback"} =>
            port["ringback"] = "made" /\ slotValid["ringback"]
       /\ ui \in {"destroy_ringback", "close_ring", "release", "pjsua_destroy"} =>
            ~slotValid["ringback"]

(* A handler works on a call that has ended, and silent after ring_stop.   *)
Handlers ==
  worker.at # "idle" =>
    /\ worker.call \in Calls /\ inv[worker.call] = "ended"
    /\ worker.at # "ring_stop" => ~ringbackOn[worker.call]

(* No call rings without a transport.                                      *)
Quiet ==
  /\ held["transport"] = 0 /\ ui # "reset" => ringbackCnt = 0
  /\ ui = "reset" => ~linked

(* A handler about to rewind finds the generator, or the slot was closed   *)
(* under it; which happens once.                                           *)
Window ==
  /\ held["transport"] = 0 => worker.at = "idle"
  /\ worker.at = "rewind" /\ ~crossed =>
       port["ringback"] = "made" /\ ui \in {"start", "up", "close_ringback"}
  /\ crossed => \/ ui = "destroy_ringback"
                \/ /\ ui \notin {"create", "init", "tones", "transport", "start", "up"}
                   /\ ~(ui = "off" /\ failed = "nothing")
                   /\ port["ringback"] # "made"

(* What find_next_call relies on while it runs: only the call that ended,  *)
(* or one that sip_call has just made, can be current_call.                *)
Current ==
  /\ ui \in {"create", "init", "tones", "transport"}
       \/ (ui = "off" /\ failed = "nothing") =>
       currentCall = PJSUA_INVALID_ID /\ \A c \in Calls : inv[c] = "free"
  /\ held["pjsua"] = 1 =>
       /\ \/ currentCall = PJSUA_INVALID_ID
          \/ Active(currentCall)
          \/ worker.at # "idle" /\ worker.call = currentCall
       /\ currentCall = PJSUA_INVALID_ID => \A c \in Calls : inv[c] # "confirmed"
       /\ worker.at = "find" =>
            /\ currentCall # PJSUA_INVALID_ID
            /\ currentCall = worker.call \/ inv[currentCall] = "calling"
       /\ worker.at = "store" =>
            IF worker.next = PJSUA_INVALID_ID
            THEN \A c \in Calls : inv[c] # "confirmed"
            ELSE Active(worker.next)

IInv == /\ TypeOK /\ Holds /\ Slots /\ Handlers /\ Quiet /\ RingCounts
        /\ Window /\ Current

LEMMA HoldsNext ==
  ASSUME TypeOK, Holds, Slots, Next
  PROVE  Holds'
<1> USE CallsAssumption DEF TypeOK, Holds, Resources, UIStates,
          appVars, slotVars, ringVars, callVars
<1>1. CASE ButtonInit
  BY <1>1 DEF ButtonInit
<1>2. CASE PjsuaCreate
  BY <1>2 DEF PjsuaCreate, Acquire
<1>3. CASE PjsuaInit
  BY <1>3 DEF PjsuaInit, DefaultConfig, Release
<1>4. CASE CreateTones
  BY <1>4 DEF CreateTones, OnError, Release
<1>5. CASE CreateTransport
  BY <1>5 DEF CreateTransport, OnError, Release
<1>6. CASE PjsuaStart
  BY <1>6 DEF PjsuaStart, OnError, Release
<1>7. CASE ButtonOk
  BY <1>7 DEF ButtonOk
<1>8. CASE CloseRingback
  BY <1>8 DEF CloseRingback, CloseSlot
<1>9. CASE DestroyRingback
  BY <1>9 DEF DestroyRingback
<1>10. CASE CloseRing
  BY <1>10 DEF CloseRing, CloseSlot
<1>11. CASE ReleasePool
  BY <1>11 DEF ReleasePool, Release
<1>12. CASE PjsuaDestroy
  BY <1>12 DEF PjsuaDestroy, Release
<1>13. CASE Reset
  BY <1>13 DEF Reset
<1>14. ASSUME NEW c \in Calls, SipCall(c) PROVE Holds'
  BY <1>14 DEF SipCall
<1>15. ASSUME NEW c \in Calls, IncomingCall(c) PROVE Holds'
  BY <1>15 DEF IncomingCall, NoteCall, Handling
<1>16. ASSUME NEW c \in Calls, Early(c) PROVE Holds'
  BY <1>16 DEF Early, NoteCall, Handling, RingbackStart
<1>17. ASSUME NEW c \in Calls, Confirmed(c) PROVE Holds'
  BY <1>17 DEF Confirmed, NoteCall, Handling
<1>18. ASSUME NEW c \in Calls, Disconnected(c) PROVE Holds'
  BY <1>18 DEF Disconnected, Handling, NoWork
<1>19. CASE RingStop
  BY <1>19 DEF RingStop, Stops, Last
<1>20. CASE Rewind
  BY <1>20 DEF Rewind
<1>21. CASE TestCurrent
  BY <1>21 DEF TestCurrent, Forget, NoWork
<1>22. CASE FindNextCall
  BY <1>22 DEF FindNextCall
<1>23. CASE StoreCurrent
  BY <1>23 DEF StoreCurrent, Forget, NoWork
<1> QED BY <1>1, <1>2, <1>3, <1>4, <1>5, <1>6, <1>7, <1>8, <1>9, <1>10, <1>11, <1>12,
           <1>13, <1>14, <1>15, <1>16, <1>17, <1>18, <1>19, <1>20, <1>21, <1>22, <1>23
        DEF Next, AppInit, AppDestroy, CallEvent, Handler

LEMMA SlotsNext ==
  ASSUME TypeOK, Holds, Slots, RingCounts, Next
  PROVE  Slots'
<1> USE CallsAssumption DEF TypeOK, Holds, Slots, Tones, Resources,
          appVars, slotVars, ringVars, callVars
<1>1. CASE ButtonInit
  BY <1>1 DEF ButtonInit
<1>2. CASE PjsuaCreate
  BY <1>2 DEF PjsuaCreate, Acquire
<1>3. CASE PjsuaInit
  BY <1>3 DEF PjsuaInit, DefaultConfig, Release
<1>4. CASE CreateTones
  <2>1. PICK made, added \in {{}, {"ringback"}, Tones} :
          /\ added \subseteq made
          /\ port' = [t \in Tones |-> IF t \in made THEN "made" ELSE "null"]
          /\ slotValid' = [t \in Tones |-> t \in added]
          /\ IF added = Tones THEN ui' = "transport" /\ UNCHANGED <<failed, held>>
                              ELSE OnError("tonegen")
    BY <1>4 DEF CreateTones
  <2>2. ui = "tones" BY <1>4 DEF CreateTones
  <2>3. CASE added = Tones
    BY <2>1, <2>2, <2>3
  <2>4. CASE added # Tones
    <3>1. ui' = "close_ringback" /\ failed' = "tonegen"
      BY <2>1, <2>4 DEF OnError
    <3>2. held'["transport"] = 0
      BY <2>1, <2>2, <2>4 DEF OnError, Release
    <3>3. \A t \in Tones : port'[t] \in {"made", "null"}
      BY <2>1
    <3> QED BY <3>1, <3>2, <3>3
  <2> QED BY <2>3, <2>4
<1>5. CASE CreateTransport
  BY <1>5 DEF CreateTransport, OnError, Release
<1>6. CASE PjsuaStart
  BY <1>6 DEF PjsuaStart, OnError, Release
<1>7. CASE ButtonOk
  BY <1>7 DEF ButtonOk
<1>8. CASE CloseRingback
  BY <1>8 DEF CloseRingback, CloseSlot
<1>9. CASE DestroyRingback
  BY <1>9 DEF DestroyRingback
<1>10. CASE CloseRing
  BY <1>10 DEF CloseRing, CloseSlot
<1>11. CASE ReleasePool
  BY <1>11 DEF ReleasePool, Release
<1>12. CASE PjsuaDestroy
  BY <1>12 DEF PjsuaDestroy, Release
<1>13. CASE Reset
  BY <1>13 DEF Reset
<1>14. ASSUME NEW c \in Calls, SipCall(c) PROVE Slots'
  BY <1>14 DEF SipCall
<1>15. ASSUME NEW c \in Calls, IncomingCall(c) PROVE Slots'
  BY <1>15 DEF IncomingCall, NoteCall, Handling
<1>16. ASSUME NEW c \in Calls, Early(c) PROVE Slots'
  BY <1>16 DEF Early, NoteCall, Handling, RingbackStart
<1>17. ASSUME NEW c \in Calls, Confirmed(c) PROVE Slots'
  BY <1>17 DEF Confirmed, NoteCall, Handling
<1>18. ASSUME NEW c \in Calls, Disconnected(c) PROVE Slots'
  BY <1>18 DEF Disconnected, Handling, NoWork
<1>19. CASE RingStop
  BY <1>19 DEF RingStop, Stops, Last
<1>20. CASE Rewind
  BY <1>20 DEF Rewind
<1>21. CASE TestCurrent
  BY <1>21 DEF TestCurrent, Forget, NoWork
<1>22. CASE FindNextCall
  BY <1>22 DEF FindNextCall
<1>23. CASE StoreCurrent
  BY <1>23 DEF StoreCurrent, Forget, NoWork
<1> QED BY <1>1, <1>2, <1>3, <1>4, <1>5, <1>6, <1>7, <1>8, <1>9, <1>10, <1>11, <1>12,
           <1>13, <1>14, <1>15, <1>16, <1>17, <1>18, <1>19, <1>20, <1>21, <1>22, <1>23
        DEF Next, AppInit, AppDestroy, CallEvent, Handler

LEMMA HandlersNext ==
  ASSUME TypeOK, Holds, Handlers, Next
  PROVE  Handlers'
<1> USE CallsAssumption DEF TypeOK, Handlers, NoWork,
          appVars, slotVars, ringVars, callVars
<1>1. CASE ButtonInit
  BY <1>1 DEF ButtonInit
<1>2. CASE PjsuaCreate
  BY <1>2 DEF PjsuaCreate, Acquire
<1>3. CASE PjsuaInit
  BY <1>3 DEF PjsuaInit, DefaultConfig, Release
<1>4. CASE CreateTones
  BY <1>4 DEF CreateTones, OnError, Release
<1>5. CASE CreateTransport
  BY <1>5 DEF CreateTransport, OnError, Release
<1>6. CASE PjsuaStart
  BY <1>6 DEF PjsuaStart, OnError, Release
<1>7. CASE ButtonOk
  BY <1>7 DEF ButtonOk
<1>8. CASE CloseRingback
  BY <1>8 DEF CloseRingback, CloseSlot
<1>9. CASE DestroyRingback
  BY <1>9 DEF DestroyRingback
<1>10. CASE CloseRing
  BY <1>10 DEF CloseRing, CloseSlot
<1>11. CASE ReleasePool
  BY <1>11 DEF ReleasePool, Release
<1>12. CASE PjsuaDestroy
  BY <1>12 DEF PjsuaDestroy, Release
<1>13. CASE Reset
  BY <1>13 DEF Reset
<1>14. ASSUME NEW c \in Calls, SipCall(c) PROVE Handlers'
  BY <1>14 DEF SipCall
<1>15. ASSUME NEW c \in Calls, IncomingCall(c) PROVE Handlers'
  BY <1>15 DEF IncomingCall, NoteCall, Handling
<1>16. ASSUME NEW c \in Calls, Early(c) PROVE Handlers'
  BY <1>16 DEF Early, NoteCall, Handling, RingbackStart
<1>17. ASSUME NEW c \in Calls, Confirmed(c) PROVE Handlers'
  BY <1>17 DEF Confirmed, NoteCall, Handling
<1>18. ASSUME NEW c \in Calls, Disconnected(c) PROVE Handlers'
  BY <1>18 DEF Disconnected, Handling, NoWork
<1>19. CASE RingStop
  BY <1>19 DEF RingStop, Stops, Last
<1>20. CASE Rewind
  BY <1>20 DEF Rewind
<1>21. CASE TestCurrent
  BY <1>21 DEF TestCurrent, Forget, NoWork
<1>22. CASE FindNextCall
  BY <1>22 DEF FindNextCall
<1>23. CASE StoreCurrent
  BY <1>23 DEF StoreCurrent, Forget, NoWork
<1> QED BY <1>1, <1>2, <1>3, <1>4, <1>5, <1>6, <1>7, <1>8, <1>9, <1>10, <1>11, <1>12,
           <1>13, <1>14, <1>15, <1>16, <1>17, <1>18, <1>19, <1>20, <1>21, <1>22, <1>23
        DEF Next, AppInit, AppDestroy, CallEvent, Handler

LEMMA CallsFinite == IsFiniteSet(Calls) /\ Cardinality(Calls) = MaxCalls
<1>1. 0 \in Int /\ MaxCalls - 1 \in Int /\ MaxCalls > 0 BY CallsAssumption
<1>2. /\ IsFiniteSet(0 .. MaxCalls - 1)
      /\ Cardinality(0 .. MaxCalls - 1) =
           IF 0 > MaxCalls - 1 THEN 0 ELSE MaxCalls - 1 - 0 + 1
  BY <1>1, FS_Interval, Zenon
<1>3. (IF 0 > MaxCalls - 1 THEN 0 ELSE MaxCalls - 1 - 0 + 1) = MaxCalls
  BY CallsAssumption
<1> QED BY <1>2, <1>3 DEF Calls

(* A call that starts or stops to ring changes the number by one.          *)
LEMMA CountOne ==
  ASSUME NEW S \in SUBSET Calls, NEW c \in Calls
  PROVE  /\ IsFiniteSet(S) /\ Cardinality(S) \in 0 .. MaxCalls
         /\ c \in S => Cardinality(S) > 0
         /\ c \notin S => Cardinality(S \cup {c}) = Cardinality(S) + 1
         /\ c \in S => Cardinality(S \ {c}) = Cardinality(S) - 1
<1>1. IsFiniteSet(S) /\ Cardinality(S) <= MaxCalls
  BY CallsFinite, FS_Subset
<1>2. Cardinality(S) \in Nat BY <1>1, FS_CardinalityType
<1>3. c \in S => Cardinality(S) # 0 BY <1>1, FS_EmptySet
<1>4. c \notin S => Cardinality(S \cup {c}) = Cardinality(S) + 1
  BY <1>1, FS_AddElement, Zenon
<1>5. c \in S => Cardinality(S \ {c}) = Cardinality(S) - 1
  BY <1>1, FS_RemoveElement, Zenon
<1>6. Cardinality(S) \in 0 .. MaxCalls BY <1>1, <1>2, CallsAssumption
<1>7. c \in S => Cardinality(S) > 0 BY <1>2, <1>3
<1> QED BY <1>1, <1>4, <1>5, <1>6, <1>7

(* The count is right after a step, whatever the step did to the tone.     *)
LEMMA CountNext ==
  ASSUME TypeOK, RingCounts, Handlers, Next
  PROVE  ringbackOn' \in [Calls -> BOOLEAN] /\ ringbackCnt' = Cardinality(Ringing')
<1> DEFINE Goal == ringbackOn' \in [Calls -> BOOLEAN]
                   /\ ringbackCnt' = Cardinality(Ringing')
<1>0. ringbackOn \in [Calls -> BOOLEAN] /\ ringbackCnt = Cardinality(Ringing)
  BY DEF TypeOK, RingCounts, Ringing
<1>1. CASE UNCHANGED <<ringbackCnt, ringbackOn>>
  BY <1>0, <1>1 DEF Ringing
<1>2. CASE Reset
  <2>1. Ringing' = {} /\ ringbackCnt' = 0 BY <1>2 DEF Reset, Ringing
  <2> QED BY <2>1, <1>2, FS_EmptySet DEF Reset
<1>3. ASSUME NEW c \in Calls, RingbackStart(c) PROVE Goal
  <2>1. CASE ringbackOn[c] BY <1>1, <1>3, <2>1 DEF RingbackStart, ringVars
  <2>2. CASE ~ringbackOn[c]
    <3>1. Ringing' = Ringing \cup {c} /\ c \notin Ringing
      BY <1>0, <1>3, <2>2 DEF RingbackStart, Ringing
    <3>2. Ringing \in SUBSET Calls BY DEF Ringing
    <3>3. Cardinality(Ringing') = ringbackCnt + 1 BY <1>0, <3>1, <3>2, CountOne
    <3> QED BY <1>0, <1>3, <2>2, <3>3 DEF RingbackStart
  <2> QED BY <2>1, <2>2
<1>4. CASE RingStop
  <2>1. worker.call \in Calls BY <1>4 DEF RingStop, Handlers
  <2>2. CASE ~ringbackOn[worker.call]
    BY <1>1, <1>4, <2>2 DEF RingStop, Stops, ringVars
  <2>3. CASE ringbackOn[worker.call]
    <3>1. Ringing' = Ringing \ {worker.call} /\ worker.call \in Ringing
      BY <1>0, <1>4, <2>1, <2>3 DEF RingStop, Stops, Ringing
    <3>2. Ringing \in SUBSET Calls BY DEF Ringing
    <3>3. Cardinality(Ringing') = ringbackCnt - 1
      BY <1>0, <2>1, <3>1, <3>2, CountOne
    <3> QED BY <1>0, <1>4, <2>1, <2>3, <3>3 DEF RingStop, Stops
  <2> QED BY <2>2, <2>3
<1>5. ASSUME NEW c \in Calls, Early(c) PROVE Goal
  BY <1>1, <1>3, <1>5 DEF Early, ringVars
<1>6. CASE AppInit
  BY <1>1, <1>6 DEF AppInit, ButtonInit, PjsuaCreate, PjsuaInit, CreateTones,
     CreateTransport, PjsuaStart, ringVars
<1>7. CASE AppDestroy
  BY <1>1, <1>2, <1>7 DEF AppDestroy, ButtonOk, CloseRingback, DestroyRingback,
     CloseRing, ReleasePool, PjsuaDestroy, ringVars
<1>8. CASE CallEvent
  BY <1>1, <1>5, <1>8 DEF CallEvent, SipCall, IncomingCall, Confirmed,
     Disconnected, ringVars
<1>9. CASE Handler
  BY <1>1, <1>4, <1>9 DEF Handler, Rewind, TestCurrent, FindNextCall,
     StoreCurrent, ringVars
<1> QED BY <1>6, <1>7, <1>8, <1>9 DEF Next

(* Nothing but the number of the calls is left to say about the counter.   *)
LEMMA CountBounds ==
  ASSUME ringbackOn \in [Calls -> BOOLEAN]
  PROVE  /\ Cardinality(Ringing) \in 0 .. MaxCalls
         /\ \A c \in Calls : ringbackOn[c] => Cardinality(Ringing) > 0
         /\ Cardinality(Ringing) = 0 => \A c \in Calls : ~ringbackOn[c]
<1>1. Ringing \in SUBSET Calls BY DEF Ringing
<1>2. 0 \in Calls BY CallsAssumption DEF Calls
<1>3. \A c \in Calls : c \in Ringing => Cardinality(Ringing) > 0
  BY <1>1, CountOne
<1>4. Cardinality(Ringing) \in 0 .. MaxCalls BY <1>1, <1>2, CountOne
<1>5. \A c \in Calls : ringbackOn[c] <=> c \in Ringing BY DEF Ringing
<1> QED BY <1>3, <1>4, <1>5

LEMMA QuietNext ==
  ASSUME TypeOK, Holds, Slots, Handlers, Quiet, RingCounts, Next
  PROVE  Quiet'
<1>0. /\ linked <=> ringbackCnt > 0 /\ slotValid["ringback"]
      /\ ringbackCnt = 0 => \A c \in Calls : ~ringbackOn[c]
  BY CountBounds DEF RingCounts, Ringing, TypeOK
<1> USE CallsAssumption, <1>0 DEF TypeOK, Holds, Slots, Handlers, Quiet, Tones, Resources,
          appVars, slotVars, ringVars, callVars
<1>1. CASE ButtonInit
  BY <1>1 DEF ButtonInit
<1>2. CASE PjsuaCreate
  BY <1>2 DEF PjsuaCreate, Acquire
<1>3. CASE PjsuaInit
  BY <1>3 DEF PjsuaInit, DefaultConfig, Release
<1>4. CASE CreateTones
  BY <1>4 DEF CreateTones, OnError, Release
<1>5. CASE CreateTransport
  BY <1>5 DEF CreateTransport, OnError, Release
<1>6. CASE PjsuaStart
  BY <1>6 DEF PjsuaStart, OnError, Release
<1>7. CASE ButtonOk
  BY <1>7 DEF ButtonOk
<1>8. CASE CloseRingback
  BY <1>8 DEF CloseRingback, CloseSlot
<1>9. CASE DestroyRingback
  BY <1>9 DEF DestroyRingback
<1>10. CASE CloseRing
  BY <1>10 DEF CloseRing, CloseSlot
<1>11. CASE ReleasePool
  BY <1>11 DEF ReleasePool, Release
<1>12. CASE PjsuaDestroy
  BY <1>12 DEF PjsuaDestroy, Release
<1>13. CASE Reset
  BY <1>13 DEF Reset
<1>14. ASSUME NEW c \in Calls, SipCall(c) PROVE Quiet'
  BY <1>14 DEF SipCall
<1>15. ASSUME NEW c \in Calls, IncomingCall(c) PROVE Quiet'
  BY <1>15 DEF IncomingCall, NoteCall, Handling
<1>16. ASSUME NEW c \in Calls, Early(c) PROVE Quiet'
  BY <1>16 DEF Early, NoteCall, Handling, RingbackStart
<1>17. ASSUME NEW c \in Calls, Confirmed(c) PROVE Quiet'
  BY <1>17 DEF Confirmed, NoteCall, Handling
<1>18. ASSUME NEW c \in Calls, Disconnected(c) PROVE Quiet'
  BY <1>18 DEF Disconnected, Handling, NoWork
<1>19. CASE RingStop
  BY <1>19 DEF RingStop, Stops, Last
<1>20. CASE Rewind
  BY <1>20 DEF Rewind
<1>21. CASE TestCurrent
  BY <1>21 DEF TestCurrent, Forget, NoWork
<1>22. CASE FindNextCall
  BY <1>22 DEF FindNextCall
<1>23. CASE StoreCurrent
  BY <1>23 DEF StoreCurrent, Forget, NoWork
<1> QED BY <1>1, <1>2, <1>3, <1>4, <1>5, <1>6, <1>7, <1>8, <1>9, <1>10, <1>11, <1>12,
           <1>13, <1>14, <1>15, <1>16, <1>17, <1>18, <1>19, <1>20, <1>21, <1>22, <1>23
        DEF Next, AppInit, AppDestroy, CallEvent, Handler

LEMMA TypeNext ==
  ASSUME TypeOK, Holds, Handlers, RingCounts, Next
  PROVE  TypeOK'
<1>0. ringbackOn' \in [Calls -> BOOLEAN] /\ ringbackCnt' \in 0 .. MaxCalls
  <2>1. ringbackOn' \in [Calls -> BOOLEAN] /\ ringbackCnt' = Cardinality(Ringing')
    BY CountNext
  <2>2. Ringing' \in SUBSET Calls BY DEF Ringing
  <2>3. 0 \in Calls BY CallsAssumption DEF Calls
  <2> QED BY <2>1, <2>2, <2>3, CountOne
<1> DEFINE Work == [at : {"idle", "ring_stop", "rewind", "test", "find", "store"},
                    call : Calls \cup {PJSUA_INVALID_ID},
                    next : Calls \cup {PJSUA_INVALID_ID}]
<1>00. worker \in Work BY DEF TypeOK
<1> USE CallsAssumption, <1>0 DEF TypeOK, Holds, Resources, UIStates, InvStates, NoWork, Tones,
          appVars, slotVars, ringVars, callVars
<1>1. CASE ButtonInit
  BY <1>1 DEF ButtonInit
<1>2. CASE PjsuaCreate
  BY <1>2 DEF PjsuaCreate, Acquire
<1>3. CASE PjsuaInit
  BY <1>3 DEF PjsuaInit, DefaultConfig, Release
<1>4. CASE CreateTones
  BY <1>4 DEF CreateTones, OnError, Release
<1>5. CASE CreateTransport
  BY <1>5 DEF CreateTransport, OnError, Release
<1>6. CASE PjsuaStart
  BY <1>6 DEF PjsuaStart, OnError, Release
<1>7. CASE ButtonOk
  BY <1>7 DEF ButtonOk
<1>8. CASE CloseRingback
  <2>1. slotValid' = slotValid \/ slotValid' = [slotValid EXCEPT !["ringback"] = FALSE]
    BY <1>8 DEF CloseRingback, CloseSlot
  <2>2. slotValid' \in [Tones -> BOOLEAN] BY <2>1
  <2>3. linked' \in BOOLEAN BY <1>8 DEF CloseRingback
  <2>4. crossed' \in BOOLEAN BY <1>8 DEF CloseRingback
  <2> QED BY <1>8, <2>2, <2>3, <2>4 DEF CloseRingback
<1>9. CASE DestroyRingback
  BY <1>9 DEF DestroyRingback
<1>10. CASE CloseRing
  <2>0. slotValid' = slotValid \/ slotValid' = [slotValid EXCEPT !["ring"] = FALSE]
    BY <1>10 DEF CloseRing, CloseSlot
  <2>1. slotValid' \in [Tones -> BOOLEAN] BY <2>0
  <2>2. port' \in [Tones -> {"null", "made", "destroyed", "lost"}]
    BY <1>10 DEF CloseRing
  <2> QED BY <1>10, <2>1, <2>2 DEF CloseRing
<1>11. CASE ReleasePool
  BY <1>11 DEF ReleasePool, Release
<1>12. CASE PjsuaDestroy
  BY <1>12 DEF PjsuaDestroy, Release
<1>13. CASE Reset
  BY <1>13 DEF Reset
<1>14. ASSUME NEW c \in Calls, SipCall(c) PROVE TypeOK'
  BY <1>14 DEF SipCall
<1>15. ASSUME NEW c \in Calls, IncomingCall(c) PROVE TypeOK'
  BY <1>15 DEF IncomingCall, NoteCall, Handling
<1>16. ASSUME NEW c \in Calls, Early(c) PROVE TypeOK'
  BY <1>16 DEF Early, NoteCall, Handling, RingbackStart
<1>17. ASSUME NEW c \in Calls, Confirmed(c) PROVE TypeOK'
  BY <1>17 DEF Confirmed, NoteCall, Handling
<1>18. ASSUME NEW c \in Calls, Disconnected(c) PROVE TypeOK'
  BY <1>18 DEF Disconnected, Handling, NoWork
<1>19. CASE RingStop
  <2>1. \E at \in {"rewind", "test"} : worker' = [worker EXCEPT !.at = at]
    BY <1>19 DEF RingStop
  <2>2. worker' \in Work BY <1>00, <2>1
  <2>3. linked' \in BOOLEAN BY <1>19 DEF RingStop
  <2> QED BY <1>19, <2>2, <2>3 DEF RingStop
<1>20. CASE Rewind
  BY <1>20 DEF Rewind
<1>21. CASE TestCurrent
  BY <1>21 DEF TestCurrent, Forget, NoWork
<1>22. CASE FindNextCall
  <2>1. PICK c \in Calls \cup {PJSUA_INVALID_ID} :
          worker' = [worker EXCEPT !.at = "store", !.next = c]
    BY <1>22 DEF FindNextCall
  <2>2. worker' \in Work BY <1>00, <2>1
  <2> QED BY <1>22, <2>2 DEF FindNextCall
<1>23. CASE StoreCurrent
  BY <1>23 DEF StoreCurrent, Forget, NoWork
<1> QED BY <1>1, <1>2, <1>3, <1>4, <1>5, <1>6, <1>7, <1>8, <1>9, <1>10, <1>11, <1>12,
           <1>13, <1>14, <1>15, <1>16, <1>17, <1>18, <1>19, <1>20, <1>21, <1>22, <1>23
        DEF Next, AppInit, AppDestroy, CallEvent, Handler

(* The tone sounds while a call rings, and calls pjsua forgets are silent.  *)
LEMMA RingNext ==
  ASSUME TypeOK, Holds, Slots, Handlers, Quiet, RingCounts, Next
  PROVE  RingCounts'
<1> DEFINE Sounds == linked <=> ringbackCnt > 0 /\ slotValid["ringback"]
           Silent == ui # "reset" =>
                       \A c \in Calls : inv[c] = "free" => ~ringbackOn[c]
           Rings  == Sounds' /\ Silent'
<1>0. ringbackCnt' = Cardinality(Ringing') BY CountNext
<1>1. /\ Sounds /\ Silent /\ linked \in BOOLEAN /\ slotValid["ringback"] \in BOOLEAN
      /\ ringbackCnt \in 0 .. MaxCalls /\ ringbackOn \in [Calls -> BOOLEAN]
      /\ inv \in [Calls -> InvStates]
      /\ ringbackCnt = 0 => \A c \in Calls : ~ringbackOn[c]
      /\ \A c \in Calls : ringbackOn[c] => ringbackCnt > 0
  BY CountBounds DEF RingCounts, Ringing, TypeOK, Tones
<1> USE <1>1, CallsAssumption
<1>2. ASSUME ButtonInit PROVE Rings
  BY <1>2 DEF appVars, slotVars, ringVars, callVars, ButtonInit
<1>3. ASSUME PjsuaCreate PROVE Rings
  BY <1>3 DEF appVars, slotVars, ringVars, callVars, PjsuaCreate
<1>4. ASSUME PjsuaInit PROVE Rings
  BY <1>4 DEF appVars, slotVars, ringVars, callVars, PjsuaInit, DefaultConfig, Quiet, Holds
<1>5. ASSUME CreateTones PROVE Rings
  BY <1>5 DEF appVars, slotVars, ringVars, callVars, CreateTones, Quiet, Holds
<1>6. ASSUME CreateTransport PROVE Rings
  BY <1>6 DEF appVars, slotVars, ringVars, callVars, CreateTransport, OnError
<1>7. ASSUME PjsuaStart PROVE Rings
  BY <1>7 DEF appVars, slotVars, ringVars, callVars, PjsuaStart, OnError
<1>8. ASSUME ButtonOk PROVE Rings
  BY <1>8 DEF appVars, slotVars, ringVars, callVars, ButtonOk
<1>9. ASSUME CloseRingback PROVE Rings
  BY <1>9 DEF appVars, slotVars, ringVars, callVars, CloseRingback, CloseSlot, TypeOK, Tones
<1>10. ASSUME DestroyRingback PROVE Rings
  BY <1>10 DEF appVars, slotVars, ringVars, callVars, DestroyRingback
<1>11. ASSUME CloseRing PROVE Rings
  BY <1>11 DEF appVars, slotVars, ringVars, callVars, CloseRing, CloseSlot, TypeOK, Tones
<1>12. ASSUME ReleasePool PROVE Rings
  BY <1>12 DEF appVars, slotVars, ringVars, callVars, ReleasePool
<1>13. ASSUME PjsuaDestroy PROVE Rings
  BY <1>13 DEF appVars, slotVars, ringVars, callVars, PjsuaDestroy
<1>14. ASSUME Reset PROVE Rings
  BY <1>14 DEF appVars, slotVars, ringVars, callVars, Reset, Quiet, Tones
<1>15. ASSUME NEW c \in Calls, SipCall(c) PROVE Rings
  BY <1>15 DEF appVars, slotVars, ringVars, callVars, SipCall
<1>16. ASSUME NEW c \in Calls, IncomingCall(c) PROVE Rings
  BY <1>16 DEF appVars, slotVars, ringVars, callVars, IncomingCall, Handling
<1>17. ASSUME NEW c \in Calls, Early(c) PROVE Rings
  BY <1>17 DEF appVars, slotVars, ringVars, callVars, Early, Handling, RingbackStart, Holds
<1>18. ASSUME NEW c \in Calls, Confirmed(c) PROVE Rings
  BY <1>18 DEF appVars, slotVars, ringVars, callVars, Confirmed
<1>19. ASSUME NEW c \in Calls, Disconnected(c) PROVE Rings
  BY <1>19 DEF appVars, slotVars, ringVars, callVars, Disconnected
<1>20. ASSUME RingStop PROVE Rings
  <2>1. worker.call \in Calls /\ UNCHANGED <<ui, slotValid, inv>>
    BY <1>20 DEF RingStop, Handlers, appVars, slotVars
  <2>2. CASE ~ringbackOn[worker.call]
    BY <1>20, <2>1, <2>2 DEF RingStop, Stops, ringVars
  <2>3. CASE ringbackOn[worker.call]
    <3>1. /\ ringbackOn' = [ringbackOn EXCEPT ![worker.call] = FALSE]
          /\ ringbackCnt' = ringbackCnt - 1
          /\ linked' = (linked /\ ~(ringbackCnt = 1 /\ slotValid["ringback"]))
      BY <1>20, <2>3 DEF RingStop, Stops, Last
    <3>2. Sounds'
      <4>1. ringbackCnt \in 1 .. MaxCalls BY <2>1, <2>3
      <4>2. linked' <=> linked /\ ~(ringbackCnt = 1 /\ slotValid["ringback"])
        BY <3>1, Zenon
      <4>3. ringbackCnt' > 0 <=> ringbackCnt # 1 BY <3>1, <4>1
      <4> QED BY <2>1, <4>1, <4>2, <4>3
    <3>3. Silent' BY <2>1, <3>1
    <3> QED BY <3>2, <3>3
  <2> QED BY <2>2, <2>3
<1>21. ASSUME Rewind PROVE Rings
  BY <1>21 DEF appVars, slotVars, ringVars, callVars, Rewind
<1>22. ASSUME TestCurrent PROVE Rings
  BY <1>22 DEF appVars, slotVars, ringVars, callVars, TestCurrent, Forget, Handlers
<1>23. ASSUME FindNextCall PROVE Rings
  BY <1>23 DEF appVars, slotVars, ringVars, callVars, FindNextCall
<1>24. ASSUME StoreCurrent PROVE Rings
  BY <1>24 DEF appVars, slotVars, ringVars, callVars, StoreCurrent, Forget, Handlers
<1>30. Rings
  BY <1>2, <1>3, <1>4, <1>5, <1>6, <1>7, <1>8, <1>9, <1>10, <1>11, <1>12, <1>13,
     <1>14, <1>15, <1>16, <1>17, <1>18, <1>19, <1>20, <1>21, <1>22, <1>23, <1>24
     DEF Next, AppInit, AppDestroy, CallEvent, Handler
<1> QED BY <1>0, <1>30 DEF RingCounts, Ringing

LEMMA WindowNext ==
  ASSUME TypeOK, Holds, Slots, Quiet, RingCounts, Window, Next
  PROVE  Window'
<1> USE CallsAssumption DEF TypeOK, Holds, Slots, Window, Tones, Resources, UIStates, NoWork,
          appVars, slotVars, ringVars, callVars
<1>1. CASE ButtonInit
  BY <1>1 DEF ButtonInit
<1>2. CASE PjsuaCreate
  BY <1>2 DEF PjsuaCreate, Acquire
<1>3. CASE PjsuaInit
  BY <1>3 DEF PjsuaInit, DefaultConfig, Release
<1>4. CASE CreateTones
  BY <1>4 DEF CreateTones, OnError, Release
<1>5. CASE CreateTransport
  BY <1>5 DEF CreateTransport, OnError, Release
<1>6. CASE PjsuaStart
  BY <1>6 DEF PjsuaStart, OnError, Release
<1>7. CASE ButtonOk
  BY <1>7 DEF ButtonOk
<1>8. CASE CloseRingback
  BY <1>8 DEF CloseRingback, CloseSlot
<1>9. CASE DestroyRingback
  BY <1>9 DEF DestroyRingback
<1>10. CASE CloseRing
  BY <1>10 DEF CloseRing, CloseSlot
<1>11. CASE ReleasePool
  BY <1>11 DEF ReleasePool, Release
<1>12. CASE PjsuaDestroy
  BY <1>12 DEF PjsuaDestroy, Release
<1>13. CASE Reset
  BY <1>13 DEF Reset
<1>14. ASSUME NEW c \in Calls, SipCall(c) PROVE Window'
  BY <1>14 DEF SipCall
<1>15. ASSUME NEW c \in Calls, IncomingCall(c) PROVE Window'
  BY <1>15 DEF IncomingCall, NoteCall, Handling
<1>16. ASSUME NEW c \in Calls, Early(c) PROVE Window'
  BY <1>16 DEF Early, NoteCall, Handling, RingbackStart
<1>17. ASSUME NEW c \in Calls, Confirmed(c) PROVE Window'
  BY <1>17 DEF Confirmed, NoteCall, Handling
<1>18. ASSUME NEW c \in Calls, Disconnected(c) PROVE Window'
  BY <1>18 DEF Disconnected, Handling, NoWork
<1>19. CASE RingStop
  BY <1>19 DEF RingStop, Stops, Last
<1>20. CASE Rewind
  BY <1>20 DEF Rewind
<1>21. CASE TestCurrent
  BY <1>21 DEF TestCurrent, Forget, NoWork
<1>22. CASE FindNextCall
  BY <1>22 DEF FindNextCall, IsNextCall, IsLeast, ActiveAbove, ActiveBelow
<1>23. CASE StoreCurrent
  BY <1>23 DEF StoreCurrent, Forget, NoWork
<1> QED BY <1>1, <1>2, <1>3, <1>4, <1>5, <1>6, <1>7, <1>8, <1>9, <1>10, <1>11, <1>12,
           <1>13, <1>14, <1>15, <1>16, <1>17, <1>18, <1>19, <1>20, <1>21, <1>22, <1>23
        DEF Next, AppInit, AppDestroy, CallEvent, Handler

LEMMA CurrentNext ==
  ASSUME TypeOK, Holds, Handlers, Window, Current, Next
  PROVE  Current'
<1> USE CallsAssumption DEF TypeOK, Holds, Handlers, Window, Current, Resources, NoWork, Active, Calls, PJSUA_INVALID_ID,
          appVars, slotVars, ringVars, callVars
<1>1. CASE ButtonInit
  BY <1>1 DEF ButtonInit
<1>2. CASE PjsuaCreate
  BY <1>2 DEF PjsuaCreate, Acquire
<1>3. CASE PjsuaInit
  BY <1>3 DEF PjsuaInit, DefaultConfig, Release
<1>4. CASE CreateTones
  BY <1>4 DEF CreateTones, OnError, Release
<1>5. CASE CreateTransport
  BY <1>5 DEF CreateTransport, OnError, Release
<1>6. CASE PjsuaStart
  BY <1>6 DEF PjsuaStart, OnError, Release
<1>7. CASE ButtonOk
  BY <1>7 DEF ButtonOk
<1>8. CASE CloseRingback
  BY <1>8 DEF CloseRingback, CloseSlot
<1>9. CASE DestroyRingback
  BY <1>9 DEF DestroyRingback
<1>10. CASE CloseRing
  BY <1>10 DEF CloseRing, CloseSlot
<1>11. CASE ReleasePool
  BY <1>11 DEF ReleasePool, Release
<1>12. CASE PjsuaDestroy
  BY <1>12 DEF PjsuaDestroy, Release
<1>13. CASE Reset
  BY <1>13 DEF Reset
<1>14. ASSUME NEW c \in Calls, SipCall(c) PROVE Current'
  BY <1>14 DEF SipCall
<1>15. ASSUME NEW c \in Calls, IncomingCall(c) PROVE Current'
  BY <1>15 DEF IncomingCall, NoteCall, Handling
<1>16. ASSUME NEW c \in Calls, Early(c) PROVE Current'
  BY <1>16 DEF Early, NoteCall, Handling, RingbackStart
<1>17. ASSUME NEW c \in Calls, Confirmed(c) PROVE Current'
  BY <1>17 DEF Confirmed, NoteCall, Handling
<1>18. ASSUME NEW c \in Calls, Disconnected(c) PROVE Current'
  BY <1>18 DEF Disconnected, Handling, NoWork
<1>19. CASE RingStop
  BY <1>19 DEF RingStop, Stops, Last
<1>20. CASE Rewind
  BY <1>20 DEF Rewind
<1>21. CASE TestCurrent
  BY <1>21 DEF TestCurrent, Forget, NoWork
<1>22. CASE FindNextCall
  BY <1>22 DEF FindNextCall, IsNextCall, IsLeast, ActiveAbove, ActiveBelow
<1>23. CASE StoreCurrent
  BY <1>23 DEF StoreCurrent, Forget, NoWork
<1> QED BY <1>1, <1>2, <1>3, <1>4, <1>5, <1>6, <1>7, <1>8, <1>9, <1>10, <1>11, <1>12,
           <1>13, <1>14, <1>15, <1>16, <1>17, <1>18, <1>19, <1>20, <1>21, <1>22, <1>23
        DEF Next, AppInit, AppDestroy, CallEvent, Handler

-----------------------------------------------------------------------------
LEMMA InitIInv == Init => IInv
<1> SUFFICES ASSUME Init PROVE IInv OBVIOUS
<1> USE CallsAssumption DEF Init
<1>1. TypeOK
  <2>1. worker \in [at : {"idle", "ring_stop", "rewind", "test", "find", "store"},
                    call : Calls \cup {PJSUA_INVALID_ID},
                    next : Calls \cup {PJSUA_INVALID_ID}]
    BY DEF NoWork
  <2>2. held \in [Resources -> -1 .. 1]
    BY DEF Resources
  <2>3. ringbackCnt \in 0 .. MaxCalls OBVIOUS
  <2> QED BY <2>1, <2>2, <2>3 DEF TypeOK, UIStates, InvStates
<1>2. Holds /\ Slots /\ Handlers /\ Quiet
  BY DEF Holds, Slots, Handlers, Quiet, NoWork, Resources, Tones
<1>5. Window /\ Current
  BY DEF Window, Current, NoWork, Resources
<1>3. Ringing = {} BY DEF Ringing
<1>4. RingCounts BY <1>3, FS_EmptySet DEF RingCounts, Ringing, Tones
<1> QED BY <1>1, <1>2, <1>4, <1>5 DEF IInv

LEMMA NextIInv == IInv /\ [Next]_vars => IInv'
<1> SUFFICES ASSUME IInv, [Next]_vars PROVE IInv' OBVIOUS
<1>1. CASE Next
  BY <1>1, TypeNext, HoldsNext, SlotsNext, HandlersNext, QuietNext, RingNext,
     WindowNext, CurrentNext DEF IInv
<1>2. CASE UNCHANGED vars
  BY <1>2 DEF vars, appVars, slotVars, ringVars, callVars, IInv, TypeOK, Holds,
     Slots, Handlers, Quiet, RingCounts, Window, Current, Active
<1> QED BY <1>1, <1>2

(* The strengthened invariant holds in every state.                        *)
THEOREM Invariant == Spec => []IInv
BY InitIInv, NextIInv, PTL DEF Spec

(* Every variable keeps its type: the counter of ringing calls never goes  *)
(* below zero or past the number of calls.                                 *)
THEOREM TypeCorrect == Spec => []TypeOK
<1>1. IInv => TypeOK BY DEF IInv
<1> QED BY <1>1, Invariant, PTL

(* ringback_cnt counts the calls that ring, and the tone sounds exactly    *)
(* while it is not 0 and its slot is open.                                 *)
THEOREM RingsWhileCounted == Spec => []RingCounts
<1>1. IInv => RingCounts BY DEF IInv
<1> QED BY <1>1, Invariant, PTL

(* Whatever step of app_init failed, the exit finds everything released,   *)
(* once, but for the tmp_pool of a failed pjsua_start.                     *)
THEOREM ExitsClean == Spec => []CleanExit
<1>1. IInv => CleanExit
  BY DEF IInv, TypeOK, Holds, Slots, CleanExit, Resources
<1> QED BY <1>1, Invariant, PTL

(* A handler touches a destroyed tone only if app_destroy closed its slot  *)
(* between the handler's test and its rewind.                              *)
THEOREM RewindsLate == Spec => []RewindIsLate
<1> DEFINE Late == misuse => crossed
<1>1. IInv /\ Late /\ [Next]_vars => Late'
  <2> SUFFICES ASSUME IInv, Late, [Next]_vars PROVE Late' OBVIOUS
  <2>1. CASE Rewind
    BY <2>1 DEF Rewind, IInv, Window, appVars, slotVars
  <2>2. CASE CloseRingback
    <3>1. CASE ~crossed
      BY <2>2, <3>1 DEF CloseRingback, callVars
    <3>2. CASE crossed
      BY <2>2, <3>2 DEF CloseRingback, callVars, IInv, Window
    <3> QED BY <3>1, <3>2
  <2>3. CASE UNCHANGED <<misuse, crossed>>
    BY <2>3
  <2>4. CASE UNCHANGED vars
    BY <2>3, <2>4 DEF vars, slotVars, callVars
  <2>5. CASE AppInit
    BY <2>3, <2>5 DEF AppInit, ButtonInit, PjsuaCreate, PjsuaInit, CreateTones,
       CreateTransport, PjsuaStart, slotVars, callVars
  <2>6. CASE AppDestroy
    BY <2>2, <2>3, <2>6 DEF AppDestroy, ButtonOk, DestroyRingback, CloseRing,
       ReleasePool, PjsuaDestroy, Reset, slotVars, callVars
  <2>7. CASE CallEvent
    BY <2>3, <2>7 DEF CallEvent, SipCall, IncomingCall, Early, Confirmed,
       Disconnected, slotVars
  <2>8. CASE Handler
    BY <2>1, <2>3, <2>8 DEF Handler, RingStop, TestCurrent, FindNextCall,
       StoreCurrent, slotVars
  <2> QED BY <2>4, <2>5, <2>6, <2>7, <2>8 DEF Next
<1>2. Init => Late BY DEF Init
<1>3. Late => RewindIsLate BY DEF RewindIsLate
<1> QED BY <1>1, <1>2, <1>3, Invariant, PTL DEF Spec

(* Between two handlers current_call is no call or an active one, and a    *)
(* call if one is confirmed.                                               *)
THEOREM CurrentCallLives == Spec => []CurrentCall
<1>1. IInv => CurrentCall BY DEF IInv, Current, CurrentCall
<1> QED BY <1>1, Invariant, PTL

=============================================================================
