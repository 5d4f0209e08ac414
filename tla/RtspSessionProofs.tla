-------------------------- MODULE RtspSessionProofs --------------------------
(***************************************************************************)
(* What holds of the RTSP sessions for any number of callers, sessions,    *)
(* slots and media lines, in every behaviour: the callers enter whenever   *)
(* they like.  The type invariant, and that a stop request is never lost,  *)
(* hold for ever.  Memory safety, that handlers find their own session,    *)
(* that waits end, and that the sessions implement the abstract camera     *)
(* hold until two window calls have crossed, and the theorems say so.      *)
(***************************************************************************)
EXTENDS RtspSession, TLAPS

(* A SETUP under way is for a subsession that exists; without it a sink    *)
(* could be created for subsession 0 and TypeOK would not be inductive.    *)
SetupHasSubsession ==
  \A s \in Sessions : client[s].phase = "setup" => client[s].cur \in Subs

IInv == TypeOK /\ SetupHasSubsession

LEMMA InitIInv == Init => IInv
<1> SUFFICES ASSUME Init PROVE IInv OBVIOUS
<1>1. NewSession \in SessionObject /\ NoClient \in ClientObject
  BY ConstantsAssumption
     DEF NewSession, NoClient, SessionObject, ClientObject, Phases, Slots, Subs
<1>2. /\ pc \in [Threads -> CallerPc \cup SessionPc]
      /\ \A c \in Callers : pc[c] \in CallerPc
      /\ \A s \in Sessions : pc[s] \in SessionPc
  BY ConstantsAssumption DEF Init, CallerPc, SessionPc, Callers, Threads
<1>3. /\ arg \in [Threads -> Slots] /\ rtspId \in -1 .. MaxRtsp - 1
      /\ slot \in [Slots -> Sessions \cup {NULL}]
  BY ConstantsAssumption DEF Init, Slots
<1>4. /\ sess \in [Sessions -> SessionObject]
      /\ client \in [Sessions -> ClientObject]
  BY <1>1 DEF Init
<1>5. SetupHasSubsession BY DEF Init, SetupHasSubsession, NoClient
<1>6. /\ op \in [Callers -> {"none", "start", "stop"}] /\ live \in SUBSET Sessions
      /\ ptr \in [Threads -> Sessions \cup {NULL}]
      /\ fault \in Faults /\ crossed \in BOOLEAN
  BY DEF Init, Faults
<1> QED BY <1>2, <1>3, <1>4, <1>5, <1>6 DEF IInv, TypeOK

LEMMA ThreadSets ==
  /\ Callers \subseteq Threads /\ Sessions \subseteq Threads
  /\ Callers \cap Sessions = {}
  /\ Threads = Callers \cup Sessions
  /\ NULL \notin Threads
BY ConstantsAssumption DEF Callers, Threads

(* Changing label keeps the types when the new label fits the thread.      *)
LEMMA GotoType ==
  ASSUME IInv, NEW t \in Threads, NEW from, NEW to, Goto(t, from, to),
         t \in Callers => to \in CallerPc, t \in Sessions => to \in SessionPc
  PROVE  /\ pc' \in [Threads -> CallerPc \cup SessionPc]
         /\ \A c \in Callers : pc'[c] \in CallerPc
         /\ \A s \in Sessions : pc'[s] \in SessionPc
BY ThreadSets DEF IInv, TypeOK, Goto

LEMMA ContinueType ==
  ASSUME IInv, NEW t \in Threads, NEW to, Continue(t, to),
         t \in Callers => to \in CallerPc, t \in Sessions => to \in SessionPc
  PROVE  /\ pc' \in [Threads -> CallerPc \cup SessionPc]
         /\ \A c \in Callers : pc'[c] \in CallerPc
         /\ \A s \in Sessions : pc'[s] \in SessionPc
         /\ op' \in [Callers -> {"none", "start", "stop"}]
         /\ arg' \in [Threads -> Slots]
BY ThreadSets, ConstantsAssumption DEF IInv, TypeOK, Continue, Slots

LEMMA FailsIInv ==
  ASSUME IInv, crossed' \in BOOLEAN, NEW what \in Faults, Fails(what)
  PROVE  IInv'
BY DEF IInv, TypeOK, SetupHasSubsession, Fails

(* The session objects and the clients keep their types when one field is  *)
(* given a value of its type.                                              *)
LEMMA SessFields ==
  ASSUME IInv, NEW s
  PROVE  /\ \A v \in 0 .. 2 :
              [sess EXCEPT ![s].status = v] \in [Sessions -> SessionObject]
         /\ \A v \in BOOLEAN :
              [sess EXCEPT ![s].watch = v] \in [Sessions -> SessionObject]
         /\ \A v \in Slots :
              [sess EXCEPT ![s].nID = v] \in [Sessions -> SessionObject]
         /\ \A v \in {"none", "current", "stale"} :
              [sess EXCEPT ![s].decode = v] \in [Sessions -> SessionObject]
         /\ \A v \in BOOLEAN :
              [sess EXCEPT ![s].cb = v] \in [Sessions -> SessionObject]
<1>1. sess \in [Sessions -> SessionObject]
  BY DEF IInv, TypeOK
<1>2. ASSUME NEW v \in 0 .. 2
      PROVE  [sess EXCEPT ![s].status = v] \in [Sessions -> SessionObject]
  BY <1>1, <1>2 DEF SessionObject
<1>3. ASSUME NEW v \in BOOLEAN
      PROVE  [sess EXCEPT ![s].watch = v] \in [Sessions -> SessionObject]
  BY <1>1, <1>3 DEF SessionObject
<1>4. ASSUME NEW v \in Slots
      PROVE  [sess EXCEPT ![s].nID = v] \in [Sessions -> SessionObject]
  BY <1>1, <1>4 DEF SessionObject
<1>5. ASSUME NEW v \in {"none", "current", "stale"}
      PROVE  [sess EXCEPT ![s].decode = v] \in [Sessions -> SessionObject]
  BY <1>1, <1>5 DEF SessionObject
<1>6. ASSUME NEW v \in BOOLEAN
      PROVE  [sess EXCEPT ![s].cb = v] \in [Sessions -> SessionObject]
  BY <1>1, <1>6 DEF SessionObject
<1> QED BY <1>2, <1>3, <1>4, <1>5, <1>6

LEMMA NewSessionType == NewSession \in SessionObject
BY ConstantsAssumption DEF NewSession, SessionObject, Slots

LEMMA NoClientType == NoClient \in ClientObject
BY ConstantsAssumption DEF NoClient, ClientObject, Slots, Phases, Subs

LEMMA AfterCloseType ==
  ASSUME NEW t \in Threads
  PROVE  /\ t \in Callers => AfterClose(t) \in CallerPc
         /\ t \in Sessions => AfterClose(t) \in SessionPc
BY ThreadSets DEF AfterClose, CallerPc, SessionPc

-----------------------------------------------------------------------------
LEMMA CloseStreamIInv ==
  ASSUME IInv, crossed' \in BOOLEAN, NEW t \in Threads, CloseStream(t)
  PROVE  IInv'
<1> USE ThreadSets DEF IInv, TypeOK, SetupHasSubsession
<1>1. CASE CloseLookup(t)
  <2>1. PICK to : /\ Continue(t, to)
                  /\ t \in Callers => to \in CallerPc
                  /\ t \in Sessions => to \in SessionPc
    BY <1>1, AfterCloseType DEF CloseLookup, CallerPc, SessionPc
  <2>2. ptr' \in [Threads -> Sessions \cup {NULL}]
    BY <1>1 DEF CloseLookup
  <2> QED BY <1>1, <2>1, <2>2, ContinueType DEF CloseLookup
<1>2. CASE StopClient(t)
  <2>1. "wait" \in CallerPc /\ "wait" \in SessionPc BY DEF CallerPc, SessionPc
  <2>2. sess' \in [Sessions -> SessionObject]
    <3> DEFINE w == sess[ptr[t]].watch \/ sess[ptr[t]].status # 2
    <3>1. w \in BOOLEAN BY Zenon
    <3>2. sess' = [sess EXCEPT ![ptr[t]].watch = w] BY <1>2 DEF StopClient
    <3> HIDE DEF w
    <3> QED BY <3>1, <3>2, SessFields
  <2> QED BY <1>2, <2>1, <2>2, GotoType DEF StopClient
<1>3. CASE SeeEnded(t)
  <2>1. "delete" \in CallerPc /\ "delete" \in SessionPc
    BY DEF CallerPc, SessionPc
  <2> QED BY <1>3, <2>1, GotoType DEF SeeEnded
<1>4. CASE DeleteSession(t)
  <2>1. "clear" \in CallerPc /\ "clear" \in SessionPc
    BY DEF CallerPc, SessionPc
  <2>2. sess' \in [Sessions -> SessionObject]
    BY <1>4, NewSessionType DEF DeleteSession
  <2>3. ptr' \in [Threads -> Sessions \cup {NULL}]
    BY <1>4 DEF DeleteSession
  <2> QED BY <1>4, <2>1, <2>2, <2>3, GotoType DEF DeleteSession
<1>5. CASE ClearSlot(t)
  <2>1. Continue(t, AfterClose(t)) BY <1>5 DEF ClearSlot
  <2>2. slot' \in [Slots -> Sessions \cup {NULL}] BY <1>5 DEF ClearSlot
  <2> QED BY <1>5, <2>1, <2>2, ContinueType, AfterCloseType DEF ClearSlot
<1>6. CASE CloseDangling(t)
  BY <1>6, FailsIInv DEF CloseDangling, Faults
<1> QED BY <1>1, <1>2, <1>3, <1>4, <1>5, <1>6 DEF CloseStream

-----------------------------------------------------------------------------
LEMMA WindowCallIInv ==
  ASSUME IInv, crossed' \in BOOLEAN, NEW c \in Callers, WindowCall(c)
  PROVE  IInv'
<1> USE ThreadSets DEF IInv, TypeOK, SetupHasSubsession
<1>1. CASE StartVideo(c)
  <2>1. /\ "close" \in CallerPc /\ "decoder" \in CallerPc
    BY DEF CallerPc
  <2>2. op' \in [Callers -> {"none", "start", "stop"}]
    BY <1>1 DEF StartVideo
  <2>3. arg' \in [Threads -> Slots]
    BY <1>1, ConstantsAssumption DEF StartVideo, Slots
  <2> QED BY <1>1, <2>1, <2>2, <2>3, GotoType DEF StartVideo
<1>2. CASE StopVideo(c)
  <2>1. "close" \in CallerPc BY DEF CallerPc
  <2>2. op' \in [Callers -> {"none", "start", "stop"}]
    BY <1>2 DEF StopVideo
  <2>3. arg' \in [Threads -> Slots]
    BY <1>2, ConstantsAssumption DEF StopVideo, Slots
  <2> QED BY <1>2, <2>1, <2>2, <2>3, GotoType DEF StopVideo
<1>3. CASE ReplaceDecoder(c)
  <2>1. "pick" \in CallerPc BY DEF CallerPc
  <2>2. sess' \in [Sessions -> SessionObject]
    <3>1. ASSUME NEW o \in SessionObject
          PROVE  [o EXCEPT !.decode = IF @ = "current" THEN "stale" ELSE @]
                   \in SessionObject
      <4> DEFINE d == IF o.decode = "current" THEN "stale" ELSE o.decode
      <4>1. d \in {"none", "current", "stale"}  BY <3>1 DEF SessionObject
      <4>2. [o EXCEPT !.decode = d] \in SessionObject
        <5> HIDE DEF d
        <5> QED BY <3>1, <4>1 DEF SessionObject
      <4> QED BY <4>2
    <3> QED BY <1>3, <3>1 DEF ReplaceDecoder
  <2> QED BY <1>3, <2>1, <2>2, GotoType DEF ReplaceDecoder
<1>4. CASE OpenPick(c)
  <2>1. CASE pc[c] = "pick" /\ Fails("tableFull")
    BY <2>1, FailsIInv DEF Faults
  <2>2. CASE Goto(c, "pick", "spawn")
    <3>1. PICK i \in Slots, s \in Sessions :
            /\ arg' = [arg EXCEPT ![c] = i] /\ ptr' = [ptr EXCEPT ![c] = s]
            /\ live' = live \cup {s}
            /\ sess' = [sess EXCEPT ![s] = NewSession]
            /\ UNCHANGED <<op, client, slot, rtspId, fault>>
      BY <1>4, <2>2 DEF OpenPick, Fails, Goto
    <3>2. "spawn" \in CallerPc BY DEF CallerPc
    <3> QED BY <2>2, <3>1, <3>2, GotoType, NewSessionType
  <2> QED BY <1>4, <2>1, <2>2 DEF OpenPick
<1>5. CASE OpenSpawn(c)
  <2>1. CASE Fails("noThread") BY <2>1, FailsIInv DEF Faults
  <2>2. CASE pc' = [pc EXCEPT ![c] = "setId", ![ptr[c]] = "open"]
    <3>1. ptr[c] \notin Callers BY ConstantsAssumption DEF Callers
    <3>2. \A t \in Threads : pc'[t] = IF t = ptr[c] THEN "open"
                                     ELSE IF t = c THEN "setId" ELSE pc[t]
      BY <2>2
    <3>3. \A d \in Callers : pc'[d] \in CallerPc
      BY <3>1, <3>2 DEF CallerPc
    <3>4. \A s \in Sessions : pc'[s] \in SessionPc
      BY <3>2 DEF SessionPc
    <3>5. pc' \in [Threads -> CallerPc \cup SessionPc]
      BY <2>2 DEF CallerPc, SessionPc
    <3>6. UNCHANGED <<op, arg, ptr, live, sess, client, slot, rtspId, fault>>
      BY <1>5, <2>2, <3>2 DEF OpenSpawn, Fails
    <3> QED BY <3>3, <3>4, <3>5, <3>6
  <2> QED BY <1>5, <2>1, <2>2 DEF OpenSpawn
<1>6. CASE OpenSetId(c)
  <2>1. "setSlot" \in CallerPc BY DEF CallerPc
  <2>2. sess' \in [Sessions -> SessionObject]
    BY <1>6, SessFields DEF OpenSetId
  <2> QED BY <1>6, <2>1, <2>2, GotoType DEF OpenSetId
<1>7. CASE OpenSetSlot(c)
  <2>1. "return" \in CallerPc BY DEF CallerPc
  <2> QED BY <1>7, <2>1, GotoType DEF OpenSetSlot
<1>8. CASE OpenReturn(c)
  <2>1. "setDecode" \in CallerPc BY DEF CallerPc
  <2>2. arg' \in [Threads -> Slots] /\ rtspId' \in -1 .. MaxRtsp - 1
    BY <1>8, ConstantsAssumption DEF OpenReturn, Slots
  <2> QED BY <1>8, <2>1, <2>2, GotoType DEF OpenReturn
<1>9. CASE SetDecode(c)
  <2>1. "setCB" \in CallerPc BY DEF CallerPc
  <2>2. sess' \in [Sessions -> SessionObject]
    BY <1>9, SessFields DEF SetDecode
  <2> QED BY <1>9, <2>1, <2>2, GotoType DEF SetDecode
<1>10. CASE SetCB(c)
  <2>1. "idle" \in CallerPc BY DEF CallerPc
  <2>2. sess' \in [Sessions -> SessionObject]
    BY <1>10, SessFields DEF SetCB
  <2>3. Continue(c, "idle") BY <1>10 DEF SetCB
  <2> QED BY <1>10, <2>1, <2>2, <2>3, ContinueType DEF SetCB
<1>11. CASE SetThroughBadSlot(c)
  BY <1>11, FailsIInv DEF SetThroughBadSlot, Faults
<1> QED BY <1>1, <1>2, <1>3, <1>4, <1>5, <1>6, <1>7, <1>8, <1>9, <1>10, <1>11
        DEF WindowCall

-----------------------------------------------------------------------------
(* A client that is replaced by one of its type keeps the invariant.       *)
LEMMA ClientType ==
  ASSUME IInv, NEW s \in Sessions, NEW k \in ClientObject,
         k.phase = "setup" => k.cur \in Subs,
         client' = [client EXCEPT ![s] = k]
  PROVE  client' \in [Sessions -> ClientObject] /\ SetupHasSubsession'
BY DEF IInv, TypeOK, SetupHasSubsession

LEMMA GivesUpType ==
  ASSUME IInv, NEW s \in Sessions, client' = [client EXCEPT ![s].phase = "none"]
  PROVE  client' \in [Sessions -> ClientObject] /\ SetupHasSubsession'
<1> DEFINE k == [client[s] EXCEPT !.phase = "none"]
<1>1. k \in ClientObject /\ k.phase = "none"
  BY DEF IInv, TypeOK, ClientObject, Phases
<1>2. client' = [client EXCEPT ![s] = k] OBVIOUS
<1> HIDE DEF k
<1> QED BY <1>1, <1>2, ClientType

LEMMA SessionThreadIInv ==
  ASSUME IInv, crossed' \in BOOLEAN, NEW s \in Sessions, SessionThread(s)
  PROVE  IInv'
<1> USE ThreadSets DEF IInv, TypeOK, SetupHasSubsession
<1>0. {"enter", "loop", "poll", "shutdown", "finish", "done"} \subseteq SessionPc
  BY DEF SessionPc
<1>1. CASE ThreadOpen(s)
  <2> DEFINE k == [NoClient EXCEPT !.nID = sess[s].nID, !.phase = "describe"]
  <2>0. k \in ClientObject /\ k.phase # "setup"
    BY NoClientType DEF ClientObject, SessionObject, Phases, NoClient
  <2>1. client' \in [Sessions -> ClientObject] /\ SetupHasSubsession'
    <3>1. client' = [client EXCEPT ![s] = k] BY <1>1 DEF ThreadOpen
    <3> HIDE DEF k
    <3> QED BY <2>0, <3>1, ClientType
  <2> QED BY <1>0, <1>1, <2>1, GotoType DEF ThreadOpen
<1>2. CASE ThreadEnter(s)
  <2>1. sess' \in [Sessions -> SessionObject]
    <3>1. 1 \in 0 .. 2 OBVIOUS
    <3> QED BY <1>2, <3>1, SessFields DEF ThreadEnter
  <2> QED BY <1>0, <1>2, <2>1, GotoType DEF ThreadEnter
<1>3. CASE LoopPoll(s)
  BY <1>0, <1>3, GotoType DEF LoopPoll
<1>4. CASE LoopExit(s)
  BY <1>0, <1>4, GotoType, SessFields DEF LoopExit
<1>5. CASE PollIdle(s)
  BY <1>0, <1>5, GotoType DEF PollIdle
<1>6. CASE ThreadShutdown(s)
  <2>1. client' \in [Sessions -> ClientObject] /\ SetupHasSubsession'
    BY <1>6, NoClientType DEF ThreadShutdown, NoClient
  <2> QED BY <1>0, <1>6, <2>1, GotoType DEF ThreadShutdown
<1>7. CASE ThreadFinish(s)
  <2>1. sess' \in [Sessions -> SessionObject]
    <3>1. 2 \in 0 .. 2 OBVIOUS
    <3> QED BY <1>7, <3>1, SessFields DEF ThreadFinish
  <2> QED BY <1>0, <1>7, <2>1, GotoType DEF ThreadFinish
<1>8. CASE ThreadDangling(s)
  BY <1>8, FailsIInv DEF ThreadDangling, Faults
<1> QED BY <1>1, <1>2, <1>3, <1>4, <1>5, <1>6, <1>7, <1>8 DEF SessionThread

(* The next request of a client that keeps its types keeps them too.       *)
LEMMA SetupNextType ==
  ASSUME NEW k0 \in ClientObject, NEW k \in SetupNext(k0)
  PROVE  k \in ClientObject /\ (k.phase = "setup" => k.cur \in Subs)
<1>1. CASE k = [k0 EXCEPT !.phase = "play"]
  BY <1>1 DEF ClientObject, Phases
<1>2. ASSUME NEW j \in k0.cur + 1 .. k0.nsub,
             k = [k0 EXCEPT !.phase = "setup", !.cur = j]
      PROVE  k \in ClientObject /\ (k.phase = "setup" => k.cur \in Subs)
  <2>1. k0.cur \in 0 .. MaxSub /\ k0.nsub \in 0 .. MaxSub
    BY DEF ClientObject
  <2>2. j \in Subs BY <2>1, ConstantsAssumption DEF Subs
  <2>3. j \in 0 .. MaxSub BY <2>2, ConstantsAssumption DEF Subs
  <2> QED BY <1>2, <2>2, <2>3 DEF ClientObject, Phases
<1> QED BY <1>1, <1>2 DEF SetupNext

LEMMA TimerType ==
  ASSUME NEW k \in ClientObject, NEW v \in BOOLEAN
  PROVE  LET k1 == [k EXCEPT !.timer = v]
         IN k1 \in ClientObject /\ k1.phase = k.phase /\ k1.cur = k.cur
BY DEF ClientObject

LEMMA FatalShutdownType ==
  ASSUME IInv, NEW s \in Sessions, FatalShutdown(s)
  PROVE  /\ pc' \in [Threads -> CallerPc \cup SessionPc]
         /\ \A c \in Callers : pc'[c] \in CallerPc
         /\ \A r \in Sessions : pc'[r] \in SessionPc
         /\ arg' \in [Threads -> Slots]
BY ThreadSets
   DEF IInv, TypeOK, FatalShutdown, ClientObject, CallerPc, SessionPc

LEMMA SessionEventIInv ==
  ASSUME IInv, crossed' \in BOOLEAN, NEW s \in Sessions, SessionEvent(s)
  PROVE  IInv'
<1> USE ThreadSets DEF IInv, TypeOK, SetupHasSubsession
<1>0. {"loop", "frame", "close"} \subseteq SessionPc /\ "loop" \in SessionPc
  BY DEF SessionPc
<1>1. CASE AfterDescribe(s)
  <2>1. CASE Handled(s) /\ UNCHANGED arg
    <3>1. CASE \E n \in Subs : \E k \in SetupNext([client[s] EXCEPT !.nsub = n]) :
                 client' = [client EXCEPT ![s] = k]
      <4>0. PICK n \in Subs : \E k \in SetupNext([client[s] EXCEPT !.nsub = n]) :
              client' = [client EXCEPT ![s] = k]
        BY <3>1
      <4>1. PICK k \in SetupNext([client[s] EXCEPT !.nsub = n]) :
              client' = [client EXCEPT ![s] = k]
        BY <4>0
      <4>2. [client[s] EXCEPT !.nsub = n] \in ClientObject
        BY DEF ClientObject, Subs
      <4>3. client' \in [Sessions -> ClientObject] /\ SetupHasSubsession'
        BY <4>1, <4>2, SetupNextType, ClientType
      <4> QED BY <1>0, <1>1, <2>1, <4>3, GotoType DEF AfterDescribe, Handled
    <3>2. CASE client' = [client EXCEPT ![s].phase = "none"]
      <4>1. client' \in [Sessions -> ClientObject] /\ SetupHasSubsession'
        BY <3>2, GivesUpType
      <4> QED BY <1>0, <1>1, <2>1, <4>1, GotoType DEF AfterDescribe, Handled
    <3> QED BY <1>1, <3>1, <3>2 DEF AfterDescribe
  <2>2. CASE FatalShutdown(s) /\ client' = [client EXCEPT ![s].phase = "none"]
    <3>1. client' \in [Sessions -> ClientObject] /\ SetupHasSubsession'
      BY <2>2, GivesUpType
    <3> QED BY <1>1, <2>2, <3>1, FatalShutdownType DEF AfterDescribe
  <2> QED BY <1>1, <2>1, <2>2 DEF AfterDescribe
<1>2. CASE AfterSetup(s)
  <2>0. PICK new \in {{}, {client[s].cur}} :
          \E k \in SetupNext([client[s] EXCEPT !.sinks = @ \cup new]) :
            client' = [client EXCEPT ![s] = k]
    BY <1>2 DEF AfterSetup
  <2>1. PICK k \in SetupNext([client[s] EXCEPT !.sinks = @ \cup new]) :
          client' = [client EXCEPT ![s] = k]
    BY <2>0
  <2>2. [client[s] EXCEPT !.sinks = @ \cup new] \in ClientObject
    BY <1>2 DEF AfterSetup, ClientObject, Subs
  <2>3. client' \in [Sessions -> ClientObject] /\ SetupHasSubsession'
    BY <2>1, <2>2, SetupNextType, ClientType
  <2> QED BY <1>0, <1>2, <2>3, GotoType DEF AfterSetup, Handled
<1>3. CASE AfterPlay(s)
  <2>1. client' \in [Sessions -> ClientObject] /\ SetupHasSubsession'
    <3>1. CASE client' = [client EXCEPT ![s].phase = "none"]
      BY <3>1, GivesUpType
    <3>2. ASSUME NEW timed \in BOOLEAN,
                 client' = [client EXCEPT ![s].phase = "playing",
                                          ![s].timer = timed]
          PROVE  client' \in [Sessions -> ClientObject] /\ SetupHasSubsession'
      <4> DEFINE k == [client[s] EXCEPT !.phase = "playing", !.timer = timed]
      <4>0. [client[s] EXCEPT !.phase = "playing"] \in ClientObject
        BY DEF ClientObject, Phases
      <4>1. k \in ClientObject /\ k.phase # "setup"
        <5>1. k = [[client[s] EXCEPT !.phase = "playing"] EXCEPT !.timer = timed]
          OBVIOUS
        <5>2. [client[s] EXCEPT !.phase = "playing"].phase = "playing"
          BY DEF ClientObject
        <5> QED BY <4>0, <5>1, <5>2, TimerType
      <4>2. client' = [client EXCEPT ![s] = k] BY <3>2
      <4> HIDE DEF k
      <4> QED BY <4>1, <4>2, ClientType
    <3> QED BY <1>3, <3>1, <3>2 DEF AfterPlay
  <2>2. CASE Handled(s) /\ UNCHANGED arg
    BY <1>0, <1>3, <2>1, <2>2, GotoType DEF AfterPlay, Handled
  <2>3. CASE FatalShutdown(s)
    BY <1>3, <2>1, <2>3, FatalShutdownType DEF AfterPlay
  <2> QED BY <1>3, <2>2, <2>3 DEF AfterPlay
<1>4. CASE SubsessionEnds(s)
  <2>1. client' \in [Sessions -> ClientObject] /\ SetupHasSubsession'
    BY <1>4 DEF SubsessionEnds, ClientObject
  <2>2. CASE Handled(s) /\ UNCHANGED arg
    BY <1>0, <1>4, <2>1, <2>2, GotoType DEF SubsessionEnds, Handled
  <2>3. CASE FatalShutdown(s)
    BY <1>4, <2>1, <2>3, FatalShutdownType DEF SubsessionEnds
  <2> QED BY <1>4, <2>2, <2>3 DEF SubsessionEnds
<1>5. CASE StreamTimer(s)
  <2>1. client' \in [Sessions -> ClientObject] /\ SetupHasSubsession'
    <3> DEFINE k == [client[s] EXCEPT !.timer = FALSE]
    <3>1. k \in ClientObject /\ k.phase = client[s].phase
          /\ k.cur = client[s].cur
      BY TimerType
    <3>2. client' = [client EXCEPT ![s] = k] BY <1>5 DEF StreamTimer
    <3> HIDE DEF k
    <3> QED BY <3>1, <3>2, ClientType
  <2> QED BY <1>5, <2>1, FatalShutdownType DEF StreamTimer
<1>6. CASE FrameArrives(s)
  <2>1. CASE \E what \in Faults : Fails(what) BY <2>1, FailsIInv
  <2>2. CASE /\ pc' = [pc EXCEPT ![s] =
                        IF sess[slot[client[s].nID]].cb THEN "frame" ELSE "loop"]
             /\ UNCHANGED <<op, arg, ptr, live, sess, client, slot, rtspId, fault>>
    <3>1. \A c \in Callers : pc'[c] \in CallerPc BY <2>2
    <3>2. \A r \in Sessions : pc'[r] \in SessionPc BY <1>0, <2>2
    <3> QED BY <2>2, <3>1, <3>2
  <2> QED BY <1>6, <2>1, <2>2 DEF FrameArrives, Faults
<1>7. CASE FrameDecode(s)
  <2>1. CASE \E what \in Faults : Fails(what) BY <2>1, FailsIInv
  <2>2. CASE /\ pc' = [pc EXCEPT ![s] = "loop"]
             /\ UNCHANGED <<op, arg, ptr, live, sess, client, slot, rtspId, fault>>
    BY <1>0, <2>2
  <2>3. ASSUME NEW p \in live, sess[p].decode # "current"
        PROVE  [none |-> "noDecoder", stale |-> "staleDecoder"][sess[p].decode]
                 \in Faults
    BY <2>3 DEF SessionObject, Faults
  <2> QED BY <1>7, <2>1, <2>2, <2>3 DEF FrameDecode, Faults
<1> QED BY <1>1, <1>2, <1>3, <1>4, <1>5, <1>6, <1>7 DEF SessionEvent

-----------------------------------------------------------------------------
LEMMA NextIInv == IInv /\ [Next]_vars => IInv'
<1> SUFFICES ASSUME IInv, [Next]_vars PROVE IInv' OBVIOUS
<1>1. CASE UNCHANGED vars
  BY <1>1 DEF IInv, TypeOK, SetupHasSubsession, vars
<1>2. CASE Next
  <2>1. crossed' \in BOOLEAN
    <3>1. PICK A \in BOOLEAN : crossed' = A
      BY <1>2 DEF Next, Step
    <3> QED BY <3>1
  <2> QED BY <1>2, <2>1, WindowCallIInv, SessionThreadIInv, SessionEventIInv,
             CloseStreamIInv DEF Next, Step
<1> QED BY <1>1, <1>2

(* The tables, locals and members keep their types in every behaviour, of  *)
(* overlapping window calls as well: every index that startVideo,          *)
(* closeStream and the handlers use is an index of the table.              *)
THEOREM TypesStay == Spec => []TypeOK
<1>1. Init => IInv BY InitIInv
<1>2. IInv /\ [Next]_vars => IInv' BY NextIInv
<1>3. IInv => TypeOK BY DEF IInv
<1> QED BY <1>1, <1>2, <1>3, PTL DEF Spec

-----------------------------------------------------------------------------
(* One step keeps the stop request of the session s, or is the step with   *)
(* which the thread of s sees it.                                          *)
StopKept(s) == sess[s].watch => sess'[s].watch \/ pc'[s] = "shutdown"

LEMMA StopKeptByCallers ==
  ASSUME IInv, NEW s \in live \cap live', NEW c \in Callers, WindowCall(c)
  PROVE  StopKept(s)
<1> USE DEF IInv, TypeOK, StopKept, SessionObject
<1>1. CASE UNCHANGED sess BY <1>1
<1>2. CASE ReplaceDecoder(c) BY <1>2 DEF ReplaceDecoder
<1>3. CASE OpenPick(c) /\ ~Fails("tableFull")
  <2>1. PICK r \in Sessions \ live : sess' = [sess EXCEPT ![r] = NewSession]
    BY <1>3 DEF OpenPick
  <2> QED BY <2>1
<1>4. CASE OpenSetId(c) BY <1>4 DEF OpenSetId
<1>5. CASE SetDecode(c) BY <1>5 DEF SetDecode
<1>6. CASE SetCB(c) BY <1>6 DEF SetCB
<1> QED BY <1>1, <1>2, <1>3, <1>4, <1>5, <1>6
        DEF WindowCall, StartVideo, StopVideo, OpenPick, OpenSpawn, OpenSetSlot,
            OpenReturn, SetThroughBadSlot, Fails

LEMMA StopKeptByClosers ==
  ASSUME IInv, NEW s \in live \cap live', NEW t \in Threads, CloseStream(t)
  PROVE  StopKept(s)
<1> USE DEF IInv, TypeOK, StopKept, SessionObject
<1>1. CASE UNCHANGED sess BY <1>1
<1>2. CASE StopClient(t) BY <1>2 DEF StopClient
<1>3. CASE DeleteSession(t) BY <1>3 DEF DeleteSession
<1> QED BY <1>1, <1>2, <1>3
        DEF CloseStream, CloseLookup, SeeEnded, ClearSlot, CloseDangling, Fails

LEMMA StopKeptBySessions ==
  ASSUME IInv, NEW s \in live \cap live', NEW r \in Sessions,
         SessionThread(r) \/ SessionEvent(r)
  PROVE  StopKept(s)
<1> USE ThreadSets DEF IInv, TypeOK, StopKept, SessionObject
<1>1. CASE UNCHANGED sess BY <1>1
<1>2. CASE ThreadEnter(r) BY <1>2 DEF ThreadEnter
<1>3. CASE LoopExit(r) BY <1>3 DEF LoopExit, Goto
<1>4. CASE ThreadFinish(r) BY <1>4 DEF ThreadFinish
<1> QED BY <1>1, <1>2, <1>3, <1>4
        DEF SessionThread, ThreadOpen, LoopPoll, PollIdle, ThreadShutdown,
            ThreadDangling, SessionEvent, AfterDescribe, AfterSetup, AfterPlay,
            SubsessionEnds, StreamTimer, FrameArrives, FrameDecode, Fails

(* A stop request is not lost, with any number of overlapping calls: only  *)
(* the session's own thread clears the watch variable, on its way out of   *)
(* the event loop.                                                         *)
THEOREM StopStays == Spec => StopNotLost
<1>1. IInv /\ [Next]_vars =>
        [\A s \in live \cap live' :
           sess[s].watch => sess'[s].watch \/ pc'[s] = "shutdown"]_vars
  BY StopKeptByCallers, StopKeptByClosers, StopKeptBySessions
     DEF Next, Step, StopKept
<1>2. Init => IInv BY InitIInv
<1>3. IInv /\ [Next]_vars => IInv' BY NextIInv
<1> QED BY <1>1, <1>2, <1>3, PTL DEF Spec, StopNotLost

-----------------------------------------------------------------------------
(* Window calls that have not crossed                                      *)

(* A stream is closed before the next one is opened, so the first entry of *)
(* the table is the only one that is ever used.                            *)
FirstEntry ==
  /\ \A t \in Threads : arg[t] = 0
  /\ \A s \in Sessions : sess[s].nID = 0 /\ client[s].nID = 0
  /\ rtspId \in {-1, 0}
  /\ \A i \in Slots : i # 0 => slot[i] = NULL

Blank      == slot[0] = NULL /\ live = {}
Shown      == slot[0] \in Sessions /\ live = {slot[0]}
Opening(c) == slot[0] = NULL /\ ptr[c] \in Sessions /\ live = {ptr[c]}
Resting    == \A c \in Callers : pc[c] \in {"idle", "close"}
AtSpawn    == \E c \in Callers : pc[c] = "spawn"
Closing    == \E c \in Callers : pc[c] \in {"wait", "delete"}
FirstOpen  == \E c \in Callers : pc[c] \in {"spawn", "setId", "setSlot", "return"}

(* What the label of a caller says of the table, between window calls and  *)
(* inside of one.                                                          *)
TableOk ==
  /\ Resting => Shown \/ Blank
  /\ rtspId = -1 => Blank \/ FirstOpen

CallerOk(c) ==
  /\ pc[c] \in {"stop", "wait", "delete"} => Shown /\ ptr[c] = slot[0]
  /\ pc[c] = "delete" => pc[slot[0]] = "done"
  /\ pc[c] = "clear" => slot[0] \in Sessions /\ live = {}
  /\ pc[c] \in {"decoder", "pick"} => Blank
  /\ pc[c] \in {"spawn", "setId", "setSlot"} => Opening(c)
  /\ pc[c] = "spawn" => pc[ptr[c]] \in {"none", "done"} /\ sess[ptr[c]] = NewSession
  /\ pc[c] \in {"return", "setDecode", "setCB"} => Shown
  /\ pc[c] \in {"setDecode", "setCB"} => rtspId = 0
  /\ pc[c] = "setCB" => sess[slot[0]].decode = "current"

(* What the thread of a session may be doing, and with which object.       *)
ThreadOk(s) ==
  pc[s] \notin {"none", "done"} =>
    /\ s \in live /\ pc[s] \notin {"delete", "clear"}
    /\ sess[s].status = IF pc[s] \in {"open", "enter"} THEN 0 ELSE 1
    /\ pc[s] \in {"stop", "wait"} => ptr[s] = s /\ slot[0] = s
    /\ pc[s] = "frame" => sess[s].cb /\ slot[0] = s
    /\ pc[s] \in {"shutdown", "finish"} => Closing
    /\ sess[s].watch => pc[s] = "wait" \/ Closing

ObjectOk(s) ==
  /\ s \notin live => sess[s] = NewSession
  /\ sess[s].cb => sess[s].decode = "current"
  /\ s \in live /\ pc[s] \in {"none", "done"} =>
       AtSpawn \/ (pc[s] = "done" /\ Closing)

TurnInv ==
  /\ IInv /\ TakesTurns /\ FirstEntry /\ TableOk
  /\ \A c \in Callers : CallerOk(c)
  /\ \A s \in Sessions : ThreadOk(s) /\ ObjectOk(s)
  /\ fault \in {"none", "nullSlot", "noThread"}

LEMMA InitTurnInv == Init => TurnInv
<1> SUFFICES ASSUME Init PROVE TurnInv OBVIOUS
<1>1. IInv BY InitIInv
<1>2. 0 \in Slots BY ConstantsAssumption DEF Slots
<1>3. \A c \in Callers : c \in Threads /\ pc[c] = "idle"
  BY ThreadSets DEF Init
<1>4. \A s \in Sessions : s \in Threads /\ s \notin Callers /\ pc[s] = "none"
  BY ThreadSets DEF Init
<1>5. TakesTurns BY <1>3 DEF TakesTurns
<1>6. FirstEntry BY DEF Init, FirstEntry, NewSession, NoClient
<1>7. Blank BY <1>2 DEF Init, Blank
<1>8. \A c \in Callers : CallerOk(c) BY <1>3 DEF CallerOk
<1>9. \A s \in Sessions : ThreadOk(s) /\ ObjectOk(s)
  BY <1>4 DEF ThreadOk, ObjectOk, Init, NewSession
<1> QED BY <1>1, <1>5, <1>6, <1>7, <1>8, <1>9 DEF TurnInv, TableOk, Init

(* A session that exists is the only one, and is the one in the table      *)
(* unless the table is still empty.                                        *)
LEMMA OneLive ==
  ASSUME TurnInv, NEW s \in live
  PROVE  live = {s} /\ slot[0] \in {NULL, s}
<1>1. CASE Resting BY <1>1 DEF TurnInv, TableOk, Shown, Blank
<1>2. CASE ~Resting
  <2>1. PICK c \in Callers : pc[c] \notin {"idle", "close"}
    BY <1>2 DEF Resting
  <2>2. pc[c] \in CallerPc BY DEF TurnInv, IInv, TypeOK
  <2>3. CallerOk(c) BY DEF TurnInv
  <2> QED BY <2>1, <2>2, <2>3 DEF CallerOk, CallerPc, Shown, Blank, Opening
<1> QED BY <1>1, <1>2

(* Only a session with a window call at wait or delete is being closed.    *)
LEMMA ClosingShown ==
  ASSUME TurnInv, Closing
  PROVE  Shown /\ ~AtSpawn
BY DEF TurnInv, Closing, AtSpawn, CallerOk, TakesTurns

-----------------------------------------------------------------------------
(* A step of the thread of s disturbs neither the window call nor another  *)
(* session's thread.                                                       *)
LEMMA SessionFrame ==
  ASSUME TurnInv, IInv', NEW s \in Sessions, pc[s] \notin {"none", "done"},
         NEW l, pc' = [pc EXCEPT ![s] = l],
         \A r \in Sessions : r # s => sess'[r] = sess[r] /\ ptr'[r] = ptr[r],
         sess'[s].decode = sess[s].decode,
         \A c \in Callers : ptr'[c] = ptr[c],
         UNCHANGED <<live, slot, rtspId, fault>>,
         FirstEntry', ThreadOk(s)', ObjectOk(s)'
  PROVE  TurnInv'
<1>0. /\ Callers \cap Sessions = {}
      /\ Callers \subseteq Threads /\ Sessions \subseteq Threads
      /\ pc \in [Threads -> CallerPc \cup SessionPc]
  BY ThreadSets DEF TurnInv, IInv, TypeOK
<1>1. \A c \in Callers : pc'[c] = pc[c] BY <1>0
<1>2. \A r \in Sessions : r # s => pc'[r] = pc[r] BY <1>0
<1>3. /\ TakesTurns' /\ (AtSpawn <=> AtSpawn') /\ (Closing <=> Closing')
      /\ (FirstOpen <=> FirstOpen') /\ (Resting <=> Resting')
  BY <1>1 DEF TurnInv, TakesTurns, AtSpawn, Closing, FirstOpen, Resting
<1>4. TableOk' BY <1>3 DEF TurnInv, TableOk, Shown, Blank
<1>5. ASSUME NEW c \in Callers PROVE CallerOk(c)'
  <2>1. CallerOk(c) BY DEF TurnInv
  <2>2. pc[c] = "delete" => slot[0] # s BY <2>1 DEF CallerOk
  <2>3. pc[c] = "spawn" => ptr[c] # s BY <2>1 DEF CallerOk
  <2>4. slot[0] \in Sessions => sess'[slot[0]].decode = sess[slot[0]].decode
    OBVIOUS
  <2>5. pc'[c] = pc[c] /\ ptr'[c] = ptr[c] BY <1>1
  <2>6. pc'[c] = "delete" => pc'[slot'[0]] = "done"
    BY <1>2, <2>1, <2>2, <2>5 DEF CallerOk, Shown
  <2>7. pc'[c] = "spawn" => /\ pc'[ptr'[c]] \in {"none", "done"}
                            /\ sess'[ptr'[c]] = NewSession
    BY <1>2, <2>1, <2>3, <2>5 DEF CallerOk, Opening
  <2>8. pc'[c] = "setCB" => sess'[slot'[0]].decode = "current"
    BY <2>1, <2>4, <2>5 DEF CallerOk, Shown
  <2> QED BY <2>1, <2>5, <2>6, <2>7, <2>8 DEF CallerOk, Shown, Blank, Opening
<1>6. ASSUME NEW r \in Sessions, r # s PROVE ThreadOk(r)' /\ ObjectOk(r)'
  <2>1. ThreadOk(r) /\ ObjectOk(r) BY DEF TurnInv
  <2> QED BY <1>2, <1>3, <1>6, <2>1 DEF ThreadOk, ObjectOk
<1> QED BY <1>3, <1>4, <1>5, <1>6 DEF TurnInv

LEMMA StatusField ==
  ASSUME NEW o \in SessionObject, NEW v
  PROVE  LET n == [o EXCEPT !.status = v]
         IN /\ n.status = v /\ n.watch = o.watch /\ n.nID = o.nID
            /\ n.cb = o.cb /\ n.decode = o.decode
BY DEF SessionObject

LEMMA SessionThreadTurn ==
  ASSUME TurnInv, IInv', NEW s \in Sessions, SessionThread(s)
  PROVE  TurnInv'
<1>0. /\ s \in Threads /\ sess \in [Sessions -> SessionObject]
      /\ client \in [Sessions -> ClientObject]
      /\ pc \in [Threads -> CallerPc \cup SessionPc]
      /\ Callers \cap Sessions = {} /\ Callers \subseteq Threads
  BY ThreadSets DEF TurnInv, IInv, TypeOK
<1>1. ThreadOk(s) /\ ObjectOk(s) /\ FirstEntry BY DEF TurnInv
<1>2. \A c \in Callers : c # s BY <1>0
<1>a. ASSUME NEW l, pc' = [pc EXCEPT ![s] = l]
      PROVE  (AtSpawn <=> AtSpawn') /\ (Closing <=> Closing')
  BY <1>0, <1>2, <1>a DEF AtSpawn, Closing
<1>3. CASE ThreadOpen(s)
  <2>1. FirstEntry'
    BY <1>0, <1>1, <1>3 DEF ThreadOpen, FirstEntry, NoClient
  <2>2. ThreadOk(s)' /\ ObjectOk(s)'
    BY <1>0, <1>1, <1>3, <1>a DEF ThreadOpen, Goto, ThreadOk, ObjectOk
  <2> QED BY <1>3, <2>1, <2>2, SessionFrame DEF ThreadOpen, Goto
<1>4. CASE ThreadEnter(s)
  <2>1. sess' = [sess EXCEPT ![s] = [sess[s] EXCEPT !.status = 1]]
    BY <1>0, <1>4 DEF ThreadEnter
  <2>2. /\ sess'[s].status = 1 /\ sess'[s].watch = sess[s].watch
        /\ sess'[s].nID = sess[s].nID /\ sess'[s].cb = sess[s].cb
        /\ sess'[s].decode = sess[s].decode
    BY <1>0, <2>1, StatusField
  <2>3. \A r \in Sessions : r # s => sess'[r] = sess[r] BY <1>0, <2>1
  <2>4. FirstEntry' BY <1>1, <1>4, <2>2, <2>3 DEF ThreadEnter, FirstEntry
  <2>5. ThreadOk(s)' /\ ObjectOk(s)'
    BY <1>0, <1>1, <1>4, <1>a, <2>2 DEF ThreadEnter, Goto, ThreadOk, ObjectOk
  <2> QED BY <1>4, <2>2, <2>3, <2>4, <2>5, SessionFrame DEF ThreadEnter, Goto
<1>5. CASE LoopPoll(s)
  <2>1. FirstEntry' BY <1>1, <1>5 DEF LoopPoll, FirstEntry
  <2>2. ThreadOk(s)' /\ ObjectOk(s)'
    BY <1>0, <1>1, <1>5, <1>a DEF LoopPoll, Goto, ThreadOk, ObjectOk
  <2> QED BY <1>5, <2>1, <2>2, SessionFrame DEF LoopPoll, Goto
<1>6. CASE LoopExit(s)
  <2>1. sess' = [sess EXCEPT ![s] = [sess[s] EXCEPT !.watch = FALSE]]
    BY <1>0, <1>6 DEF LoopExit
  <2>2. /\ sess'[s].watch = FALSE /\ sess'[s].status = sess[s].status
        /\ sess'[s].nID = sess[s].nID /\ sess'[s].cb = sess[s].cb
        /\ sess'[s].decode = sess[s].decode
    BY <1>0, <2>1 DEF SessionObject
  <2>3. \A r \in Sessions : r # s => sess'[r] = sess[r] BY <1>0, <2>1
  <2>4. FirstEntry' BY <1>1, <1>6, <2>2, <2>3 DEF LoopExit, FirstEntry
  <2>5. ThreadOk(s)' /\ ObjectOk(s)'
    BY <1>0, <1>1, <1>6, <1>a, <2>2 DEF LoopExit, Goto, ThreadOk, ObjectOk
  <2> QED BY <1>6, <2>2, <2>3, <2>4, <2>5, SessionFrame DEF LoopExit, Goto
<1>7. CASE PollIdle(s)
  <2>1. FirstEntry' BY <1>1, <1>7 DEF PollIdle, FirstEntry
  <2>2. ThreadOk(s)' /\ ObjectOk(s)'
    BY <1>0, <1>1, <1>7, <1>a DEF PollIdle, Goto, ThreadOk, ObjectOk
  <2> QED BY <1>7, <2>1, <2>2, SessionFrame DEF PollIdle, Goto
<1>8. CASE ThreadShutdown(s)
  <2>1. FirstEntry'
    BY <1>0, <1>1, <1>8 DEF ThreadShutdown, FirstEntry, NoClient
  <2>2. ThreadOk(s)' /\ ObjectOk(s)'
    BY <1>0, <1>1, <1>8, <1>a DEF ThreadShutdown, Goto, ThreadOk, ObjectOk
  <2> QED BY <1>8, <2>1, <2>2, SessionFrame DEF ThreadShutdown, Goto
<1>9. CASE ThreadFinish(s)
  <2>1. sess' = [sess EXCEPT ![s] = [sess[s] EXCEPT !.status = 2]]
    BY <1>0, <1>9 DEF ThreadFinish
  <2>2. /\ sess'[s].status = 2 /\ sess'[s].watch = sess[s].watch
        /\ sess'[s].nID = sess[s].nID /\ sess'[s].cb = sess[s].cb
        /\ sess'[s].decode = sess[s].decode
    BY <1>0, <2>1, StatusField
  <2>3. \A r \in Sessions : r # s => sess'[r] = sess[r] BY <1>0, <2>1
  <2>4. FirstEntry' BY <1>1, <1>9, <2>2, <2>3 DEF ThreadFinish, FirstEntry
  <2>5. ThreadOk(s)' /\ ObjectOk(s)'
    BY <1>0, <1>1, <1>9, <1>a, <2>2 DEF ThreadFinish, Goto, ThreadOk, ObjectOk
  <2> QED BY <1>9, <2>2, <2>3, <2>4, <2>5, SessionFrame DEF ThreadFinish, Goto
<1>10. CASE ThreadDangling(s)
  BY <1>1, <1>10 DEF ThreadDangling, ThreadOk
<1> QED BY <1>3, <1>4, <1>5, <1>6, <1>7, <1>8, <1>9, <1>10 DEF SessionThread

-----------------------------------------------------------------------------
LEMMA FailsTurn ==
  ASSUME TurnInv, IInv', NEW what \in {"nullSlot", "noThread"}, Fails(what)
  PROVE  TurnInv'
<1>2. UNCHANGED <<pc, arg, ptr, live, sess, client, slot, rtspId>> BY DEF Fails
<1>3. TakesTurns' /\ FirstEntry' /\ TableOk'
  BY <1>2 DEF TurnInv, TakesTurns, FirstEntry, TableOk, Resting, Shown, Blank,
              FirstOpen
<1>4. \A c \in Callers : CallerOk(c)'
  BY <1>2 DEF TurnInv, CallerOk, Shown, Blank, Opening
<1>5. \A s \in Sessions : ThreadOk(s)' /\ ObjectOk(s)'
  BY <1>2 DEF TurnInv, ThreadOk, ObjectOk, AtSpawn, Closing
<1> QED BY <1>3, <1>4, <1>5 DEF TurnInv, Fails

(* The handlers change the client of their session and never its index.    *)
LEMMA SetupNextIndex ==
  ASSUME NEW k0 \in ClientObject, NEW k \in SetupNext(k0)
  PROVE  k.nID = k0.nID
BY DEF SetupNext, ClientObject

LEMMA SessionEventTurn ==
  ASSUME TurnInv, IInv', NEW s \in Sessions, SessionEvent(s)
  PROVE  TurnInv'
<1>0. /\ s \in Threads /\ sess \in [Sessions -> SessionObject]
      /\ client \in [Sessions -> ClientObject]
      /\ arg \in [Threads -> Slots]
      /\ pc \in [Threads -> CallerPc \cup SessionPc]
      /\ Callers \cap Sessions = {} /\ Callers \subseteq Threads
  BY ThreadSets DEF TurnInv, IInv, TypeOK
<1>1. ThreadOk(s) /\ ObjectOk(s) /\ FirstEntry BY DEF TurnInv
<1>2. \A c \in Callers : c # s BY <1>0
<1>a. ASSUME NEW l, pc' = [pc EXCEPT ![s] = l]
      PROVE  (AtSpawn <=> AtSpawn') /\ (Closing <=> Closing')
  BY <1>0, <1>2, <1>a DEF AtSpawn, Closing
<1>b. client[s].nID = 0 BY <1>1 DEF FirstEntry
(* What the five response handlers have in common.                         *)
<1>c. ASSUME NEW k, client' = [client EXCEPT ![s] = k], k.nID = 0,
             pc[s] = "poll",
             (Handled(s) /\ UNCHANGED arg) \/ FatalShutdown(s),
             UNCHANGED <<op, ptr, live, sess, slot, rtspId, fault>>
      PROVE  TurnInv'
  <2>1. PICK l \in {"loop", "close"} : pc' = [pc EXCEPT ![s] = l]
    BY <1>c DEF Handled, FatalShutdown, Goto
  <2>2. \A t \in Threads : arg'[t] = 0
    BY <1>0, <1>1, <1>b, <1>c DEF FirstEntry, FatalShutdown
  <2>3. FirstEntry' BY <1>0, <1>1, <1>c, <2>2 DEF FirstEntry
  <2>4. ThreadOk(s)' /\ ObjectOk(s)'
    BY <1>0, <1>1, <1>a, <1>c, <2>1 DEF ThreadOk, ObjectOk
  <2> QED BY <1>c, <2>1, <2>3, <2>4, SessionFrame
<1>d. ASSUME NEW r \in ClientObject
      PROVE  /\ \A v : [r EXCEPT !.phase = v].nID = r.nID
             /\ \A v : [r EXCEPT !.nsub = v].nID = r.nID
             /\ \A v : [r EXCEPT !.sinks = v].nID = r.nID
             /\ \A v : [r EXCEPT !.timer = v].nID = r.nID
             /\ \A v, w : [r EXCEPT !.phase = v, !.timer = w].nID = r.nID
  BY DEF ClientObject
<1>3. CASE AfterDescribe(s)
  <2>1. ASSUME NEW n \in Subs, NEW k \in SetupNext([client[s] EXCEPT !.nsub = n]),
               client' = [client EXCEPT ![s] = k], Handled(s), UNCHANGED arg
        PROVE  TurnInv'
    <3>1. [client[s] EXCEPT !.nsub = n] \in ClientObject
      BY <1>0 DEF ClientObject, Subs
    <3>2. k.nID = [client[s] EXCEPT !.nsub = n].nID BY <3>1, SetupNextIndex
    <3>3. k.nID = 0 BY <1>0, <1>b, <1>d, <3>2
    <3> QED BY <1>3, <1>c, <2>1, <3>3 DEF AfterDescribe, Handled, Goto
  <2>2. CASE client' = [client EXCEPT ![s].phase = "none"] /\ FatalShutdown(s)
             /\ pc[s] = "poll"
    <3> DEFINE k == [client[s] EXCEPT !.phase = "none"]
    <3>1. k.nID = 0 BY <1>0, <1>b, <1>d
    <3>2. client' = [client EXCEPT ![s] = k] BY <2>2
    <3> HIDE DEF k
    <3> QED BY <1>3, <1>c, <2>2, <3>1, <3>2 DEF AfterDescribe
  <2> QED BY <1>3, <2>1, <2>2 DEF AfterDescribe
<1>4. CASE AfterSetup(s)
  <2>0. PICK new \in {{}, {client[s].cur}} :
          \E k \in SetupNext([client[s] EXCEPT !.sinks = @ \cup new]) :
            client' = [client EXCEPT ![s] = k]
    BY <1>4 DEF AfterSetup
  <2>1. PICK k \in SetupNext([client[s] EXCEPT !.sinks = @ \cup new]) :
          client' = [client EXCEPT ![s] = k]
    BY <2>0
  <2>2. [client[s] EXCEPT !.sinks = @ \cup new] \in ClientObject
    BY <1>0, <1>4 DEF AfterSetup, TurnInv, IInv, SetupHasSubsession, ClientObject, Subs
  <2>3. k.nID = [client[s] EXCEPT !.sinks = @ \cup new].nID
    BY <2>1, <2>2, SetupNextIndex
  <2>4. k.nID = 0 BY <1>0, <1>b, <1>d, <2>3
  <2> QED BY <1>4, <1>c, <2>1, <2>4 DEF AfterSetup, Handled, Goto
<1>5. CASE AfterPlay(s)
  <2>1. ASSUME NEW timed \in BOOLEAN, Handled(s), UNCHANGED arg,
               client' = [client EXCEPT ![s].phase = "playing", ![s].timer = timed]
        PROVE  TurnInv'
    <3> DEFINE k == [client[s] EXCEPT !.phase = "playing", !.timer = timed]
    <3>1. k.nID = 0 BY <1>0, <1>b, <1>d
    <3>2. client' = [client EXCEPT ![s] = k] BY <2>1
    <3> HIDE DEF k
    <3> QED BY <1>5, <1>c, <2>1, <3>1, <3>2 DEF AfterPlay, Handled, Goto
  <2>2. CASE client' = [client EXCEPT ![s].phase = "none"] /\ FatalShutdown(s)
             /\ pc[s] = "poll"
    <3> DEFINE k == [client[s] EXCEPT !.phase = "none"]
    <3>1. k.nID = 0 BY <1>0, <1>b, <1>d
    <3>2. client' = [client EXCEPT ![s] = k] BY <2>2
    <3> HIDE DEF k
    <3> QED BY <1>5, <1>c, <2>2, <3>1, <3>2 DEF AfterPlay
  <2> QED BY <1>5, <2>1, <2>2 DEF AfterPlay
<1>6. CASE SubsessionEnds(s)
  <2>1. PICK j \in client[s].sinks :
          /\ client' = [client EXCEPT ![s].sinks = @ \ {j}]
          /\ FatalShutdown(s) \/ (Handled(s) /\ UNCHANGED arg)
    BY <1>6 DEF SubsessionEnds
  <2> DEFINE k == [client[s] EXCEPT !.sinks = @ \ {j}]
  <2>2. k.nID = 0 BY <1>0, <1>b, <1>d
  <2>3. client' = [client EXCEPT ![s] = k] BY <2>1
  <2> HIDE DEF k
  <2> QED BY <1>6, <1>c, <2>1, <2>2, <2>3 DEF SubsessionEnds
<1>7. CASE StreamTimer(s)
  <2> DEFINE k == [client[s] EXCEPT !.timer = FALSE]
  <2>1. k.nID = 0 BY <1>0, <1>b, <1>d
  <2>2. client' = [client EXCEPT ![s] = k] BY <1>7 DEF StreamTimer
  <2> HIDE DEF k
  <2> QED BY <1>7, <1>c, <2>1, <2>2 DEF StreamTimer
<1>8. CASE FrameArrives(s)
  <2>1. s \in live /\ slot[0] \in {NULL, s} /\ live = {s}
    BY <1>1, <1>8, OneLive DEF FrameArrives, ThreadOk
  <2>2. CASE slot[0] = NULL
    <3>1. NULL \notin live BY <2>1, ThreadSets, <1>0
    <3>2. Fails("nullSlot") BY <1>8, <1>b, <2>2, <3>1 DEF FrameArrives
    <3> QED BY <3>2, FailsTurn
  <2>3. CASE slot[0] = s
    <3>1. PICK l \in {"frame", "loop"} :
            /\ pc' = [pc EXCEPT ![s] = l]
            /\ l = "frame" => sess[s].cb
            /\ UNCHANGED <<op, arg, ptr, live, sess, client, slot, rtspId, fault>>
      BY <1>8, <1>b, <2>1, <2>3 DEF FrameArrives
    <3>2. FirstEntry' BY <1>1, <3>1 DEF FirstEntry
    <3>3. ThreadOk(s)' /\ ObjectOk(s)'
      BY <1>0, <1>1, <1>8, <1>a, <2>3, <3>1 DEF FrameArrives, ThreadOk, ObjectOk
    <3> QED BY <1>8, <3>1, <3>2, <3>3, SessionFrame DEF FrameArrives
  <2> QED BY <2>1, <2>2, <2>3
<1>9. CASE FrameDecode(s)
  <2>1. s \in live /\ slot[0] = s /\ sess[s].decode = "current"
    BY <1>1, <1>9 DEF FrameDecode, ThreadOk, ObjectOk
  <2>2. /\ pc[s] = "frame" /\ pc' = [pc EXCEPT ![s] = "loop"]
        /\ UNCHANGED <<op, arg, ptr, live, sess, client, slot, rtspId, fault>>
    BY <1>9, <1>b, <2>1 DEF FrameDecode
  <2>3. FirstEntry' BY <1>1, <2>2 DEF FirstEntry
  <2>4. ThreadOk(s)' /\ ObjectOk(s)'
    BY <1>0, <1>1, <1>a, <2>2 DEF ThreadOk, ObjectOk
  <2> QED BY <2>2, <2>3, <2>4, SessionFrame
<1> QED BY <1>3, <1>4, <1>5, <1>6, <1>7, <1>8, <1>9 DEF SessionEvent

-----------------------------------------------------------------------------
(* A caller that is inside finds every other caller outside.               *)
LEMMA CallerFrame ==
  ASSUME TurnInv, IInv', NEW c \in Callers,
         \A d \in Callers : d # c => pc[d] = "idle" /\ pc'[d] = "idle",
         fault' \in {"none", "nullSlot", "noThread"},
         FirstEntry', TableOk', CallerOk(c)',
         \A s \in Sessions : ThreadOk(s)' /\ ObjectOk(s)'
  PROVE  TurnInv'
<1>1. TakesTurns' BY DEF TakesTurns
<1>2. ASSUME NEW d \in Callers, d # c PROVE CallerOk(d)'
  BY <1>2 DEF CallerOk
<1> QED BY <1>1, <1>2 DEF TurnInv

(* The label of the one caller inside decides where a call is.             *)
LEMMA CallerLabel ==
  ASSUME NEW c \in Callers, \A d \in Callers : d # c => pc[d] = "idle"
  PROVE  /\ Resting <=> pc[c] \in {"idle", "close"}
         /\ AtSpawn <=> pc[c] = "spawn"
         /\ Closing <=> pc[c] \in {"wait", "delete"}
         /\ FirstOpen <=> pc[c] \in {"spawn", "setId", "setSlot", "return"}
BY DEF Resting, AtSpawn, Closing, FirstOpen

(* closeStream, called by a session's thread: it looks its own session up  *)
(* and waits for itself, or finds nothing and goes on.                     *)
LEMMA SessionCloseTurn ==
  ASSUME TurnInv, IInv', NEW s \in Sessions, CloseStream(s)
  PROVE  TurnInv'
<1>0. /\ s \in Threads /\ sess \in [Sessions -> SessionObject]
      /\ ptr \in [Threads -> Sessions \cup {NULL}]
      /\ arg \in [Threads -> Slots]
      /\ pc \in [Threads -> CallerPc \cup SessionPc]
      /\ Callers \cap Sessions = {}
      /\ Callers \subseteq Threads /\ Sessions \subseteq Threads
  BY ThreadSets DEF TurnInv, IInv, TypeOK
<1>1. ThreadOk(s) /\ ObjectOk(s) /\ FirstEntry BY DEF TurnInv
<1>2. \A c \in Callers : c # s BY <1>0
<1>a. ASSUME NEW l, pc' = [pc EXCEPT ![s] = l]
      PROVE  (AtSpawn <=> AtSpawn') /\ (Closing <=> Closing')
  BY <1>0, <1>2, <1>a DEF AtSpawn, Closing
<1>b. arg[s] = 0 BY <1>0, <1>1 DEF FirstEntry
<1>3. CASE CloseLookup(s)
  <2>1. s \in live /\ slot[0] \in {NULL, s}
    BY <1>1, <1>3, OneLive DEF CloseLookup, ThreadOk
  <2>2. AfterClose(s) = "loop" BY <1>0 DEF AfterClose
  <2>3. PICK l \in {"loop", "stop"} :
          /\ Continue(s, l) /\ (l = "stop" => slot[0] = s)
    BY <1>3, <1>b, <2>1, <2>2 DEF CloseLookup
  <2>4. pc' = [pc EXCEPT ![s] = l] /\ \A t \in Threads : arg'[t] = 0
    BY <1>0, <1>1, <1>b, <2>3 DEF Continue, FirstEntry
  <2>5. ptr' = [ptr EXCEPT ![s] = slot[0]]
        /\ UNCHANGED <<live, sess, client, slot, rtspId, fault>>
    BY <1>3, <1>b DEF CloseLookup
  <2>6. FirstEntry' BY <1>1, <2>4, <2>5 DEF FirstEntry
  <2>7. ThreadOk(s)' /\ ObjectOk(s)'
    BY <1>0, <1>1, <1>3, <1>a, <2>3, <2>4, <2>5
       DEF CloseLookup, ThreadOk, ObjectOk
  <2> QED BY <1>0, <1>2, <1>3, <2>4, <2>5, <2>6, <2>7, SessionFrame DEF CloseLookup
<1>4. CASE StopClient(s)
  <2>1. ptr[s] = s /\ pc[s] = "stop" /\ pc' = [pc EXCEPT ![s] = "wait"]
    BY <1>1, <1>4 DEF StopClient, Goto, ThreadOk
  <2>2. \A r \in Sessions : r # s => sess'[r] = sess[r]
    BY <1>0, <1>4, <2>1 DEF StopClient
  <2> DEFINE w == sess[s].watch \/ sess[s].status # 2
  <2>3. sess'[s] = [sess[s] EXCEPT !.watch = w]
    BY <1>0, <1>4, <2>1 DEF StopClient
  <2> HIDE DEF w
  <2>4. /\ sess'[s].status = sess[s].status /\ sess'[s].nID = sess[s].nID
        /\ sess'[s].cb = sess[s].cb /\ sess'[s].decode = sess[s].decode
    BY <1>0, <2>3 DEF SessionObject
  <2>5. FirstEntry' BY <1>1, <1>4, <2>2, <2>4 DEF StopClient, FirstEntry
  <2>6. ThreadOk(s)' /\ ObjectOk(s)'
    BY <1>0, <1>1, <1>4, <1>a, <2>1, <2>4 DEF StopClient, ThreadOk, ObjectOk
  <2> QED BY <1>4, <2>1, <2>2, <2>4, <2>5, <2>6, SessionFrame DEF StopClient
<1>5. CASE SeeEnded(s)
  BY <1>1, <1>5 DEF SeeEnded, Goto, ThreadOk
<1>6. CASE DeleteSession(s) \/ ClearSlot(s)
  BY <1>1, <1>6 DEF DeleteSession, ClearSlot, Goto, ThreadOk
<1>7. CASE CloseDangling(s)
  BY <1>1, <1>7 DEF CloseDangling, ThreadOk
<1> QED BY <1>3, <1>4, <1>5, <1>6, <1>7 DEF CloseStream

LEMMA CallerMoves ==
  ASSUME TurnInv, NEW c \in Callers,
         \A d \in Callers : d # c => pc[d] = "idle",
         NEW l, pc' = [pc EXCEPT ![c] = l]
  PROVE  /\ pc'[c] = l
         /\ \A d \in Callers : d # c => pc'[d] = "idle"
         /\ \A s \in Sessions : pc'[s] = pc[s]
         /\ Resting' <=> l \in {"idle", "close"}
         /\ AtSpawn' <=> l = "spawn"
         /\ Closing' <=> l \in {"wait", "delete"}
         /\ FirstOpen' <=> l \in {"spawn", "setId", "setSlot", "return"}
<1>1. /\ pc \in [Threads -> CallerPc \cup SessionPc]
      /\ Callers \subseteq Threads /\ Callers \cap Sessions = {}
      /\ Sessions \subseteq Threads
  BY ThreadSets DEF TurnInv, IInv, TypeOK
<1>2. pc'[c] = l /\ \A t \in Threads : t # c => pc'[t] = pc[t] BY <1>1
<1> QED BY <1>1, <1>2 DEF Resting, AtSpawn, Closing, FirstOpen

(* Where AfterClose takes a caller, its locals are reset and the table may *)
(* be used again.                                                          *)
LEMMA CallerContinues ==
  ASSUME TurnInv, NEW c \in Callers, NEW l, Continue(c, l)
  PROVE  pc' = [pc EXCEPT ![c] = l] /\ \A t \in Threads : arg'[t] = 0
BY ThreadSets DEF Continue, TurnInv, FirstEntry, IInv, TypeOK

LEMMA CallerAfterClose ==
  ASSUME NEW c \in Callers
  PROVE  AfterClose(c) \in {"idle", "decoder"}
BY ThreadSets DEF AfterClose

(* closeStream, called by startVideo or stopVideo.                         *)
LEMMA CallerCloseTurn ==
  ASSUME TurnInv, IInv', NEW c \in Callers, CloseStream(c)
  PROVE  TurnInv'
<1>0. /\ c \in Threads /\ sess \in [Sessions -> SessionObject]
      /\ ptr \in [Threads -> Sessions \cup {NULL}]
      /\ arg \in [Threads -> Slots] /\ slot \in [Slots -> Sessions \cup {NULL}]
      /\ 0 \in Slots /\ NULL \notin Sessions /\ live \in SUBSET Sessions
  BY ThreadSets, ConstantsAssumption DEF TurnInv, IInv, TypeOK, Slots
<1>1. CallerOk(c) /\ FirstEntry /\ TableOk /\ arg[c] = 0
  BY <1>0 DEF TurnInv, FirstEntry
<1>2. \A d \in Callers : d # c => pc[d] = "idle"
  BY DEF CloseStream, CloseLookup, StopClient, SeeEnded, DeleteSession,
         ClearSlot, CloseDangling, Goto, TurnInv, TakesTurns
<1>3. \A s \in Sessions : ThreadOk(s) /\ ObjectOk(s) BY DEF TurnInv
<1>4. fault \in {"none", "nullSlot", "noThread"} BY DEF TurnInv
<1>5. CASE CloseLookup(c)
  <2>1. Shown \/ Blank
    BY <1>1, <1>2, <1>5, CallerLabel DEF CloseLookup, TableOk
  <2>2. CASE slot[0] = NULL
    <3>1. PICK l \in {"idle", "decoder"} : Continue(c, l)
      BY <1>1, <1>5, <2>2, CallerAfterClose DEF CloseLookup
    <3>2. Blank /\ Blank' BY <1>0, <1>5, <2>1, <2>2 DEF CloseLookup, Blank, Shown
    <3>3. pc' = [pc EXCEPT ![c] = l] /\ \A t \in Threads : arg'[t] = 0
      BY <3>1, CallerContinues
    <3>4. FirstEntry' BY <1>1, <1>5, <3>3 DEF CloseLookup, FirstEntry
    <3>5. TableOk' /\ CallerOk(c)'
      BY <1>2, <3>2, <3>3, CallerMoves DEF TableOk, CallerOk
    <3>6. ASSUME NEW s \in Sessions PROVE ThreadOk(s)' /\ ObjectOk(s)'
      BY <1>2, <1>3, <1>5, <3>2, <3>3, CallerMoves
         DEF CloseLookup, ThreadOk, ObjectOk, Blank
    <3> QED BY <1>2, <1>4, <1>5, <3>3, <3>4, <3>5, <3>6, CallerMoves, CallerFrame
            DEF CloseLookup
  <2>3. CASE slot[0] # NULL
    <3>1. Continue(c, "stop") /\ ptr' = [ptr EXCEPT ![c] = slot[0]]
          /\ UNCHANGED <<live, sess, client, slot, rtspId, fault>>
      BY <1>1, <1>5, <2>3 DEF CloseLookup
    <3>2. pc' = [pc EXCEPT ![c] = "stop"] /\ \A t \in Threads : arg'[t] = 0
      BY <3>1, CallerContinues
    <3>3. Shown /\ Shown' BY <2>1, <2>3, <3>1 DEF Shown, Blank
    <3>4. FirstEntry' BY <1>1, <3>1, <3>2 DEF FirstEntry
    <3>5. rtspId # -1
      BY <1>1, <1>2, <1>5, <2>3, CallerLabel DEF CloseLookup, TableOk, Blank
    <3>l. /\ pc'[c] = "stop" /\ ~Resting' /\ ~Closing /\ ~AtSpawn
          /\ \A s \in Sessions : pc'[s] = pc[s]
      <4>1. "stop" \notin {"idle", "close"} OBVIOUS
      <4>2. ~Closing /\ ~AtSpawn BY <1>2, <1>5, CallerLabel DEF CloseLookup
      <4> QED BY <1>2, <3>2, <4>1, <4>2, CallerMoves
    <3>6. TableOk' /\ CallerOk(c)'
      <4>1. rtspId' = rtspId /\ ptr'[c] = slot'[0] BY <1>0, <3>1
      <4> QED BY <3>3, <3>5, <3>l, <4>1 DEF TableOk, CallerOk
    <3>7. ASSUME NEW s \in Sessions PROVE ThreadOk(s)' /\ ObjectOk(s)'
      <4>1. ptr'[s] = ptr[s] BY <1>0, <3>1, ThreadSets
      <4>2. ThreadOk(s)' BY <1>3, <3>1, <3>l, <4>1 DEF ThreadOk
      <4>3. ObjectOk(s)' BY <1>3, <3>1, <3>l, <4>1 DEF ObjectOk
      <4> QED BY <4>2, <4>3
    <3> QED BY <1>2, <1>4, <3>1, <3>2, <3>4, <3>6, <3>7, CallerMoves, CallerFrame
  <2> QED BY <2>2, <2>3
<1>6. CASE StopClient(c)
  <2>1. /\ pc[c] = "stop" /\ pc' = [pc EXCEPT ![c] = "wait"]
        /\ Shown /\ ptr[c] = slot[0]
    BY <1>1, <1>6 DEF StopClient, Goto, CallerOk
  <2>2. Shown' /\ ptr'[c] = slot'[0] BY <1>6, <2>1 DEF StopClient, Shown
  <2>3. \A s \in Sessions :
          /\ sess'[s].status = sess[s].status /\ sess'[s].nID = sess[s].nID
          /\ sess'[s].cb = sess[s].cb /\ sess'[s].decode = sess[s].decode
    <3> DEFINE w == sess[slot[0]].watch \/ sess[slot[0]].status # 2
    <3>1. sess' = [sess EXCEPT ![slot[0]].watch = w]
      BY <1>6, <2>1 DEF StopClient
    <3> HIDE DEF w
    <3> QED BY <1>0, <3>1 DEF SessionObject
  <2>4. FirstEntry' BY <1>1, <1>6, <2>3 DEF StopClient, FirstEntry
  <2>5. rtspId # -1
    BY <1>0, <1>1, <1>2, <2>1, CallerLabel DEF TableOk, Blank, Shown
  <2>6. TableOk' /\ CallerOk(c)'
    BY <1>2, <1>6, <2>1, <2>2, <2>5, CallerMoves DEF StopClient, TableOk, CallerOk
  <2>7. ASSUME NEW s \in Sessions PROVE ThreadOk(s)' /\ ObjectOk(s)'
    <3>0. Closing' /\ pc'[s] = pc[s] BY <1>2, <2>1, CallerMoves
    <3>1. ThreadOk(s)'
      BY <1>3, <1>6, <2>3, <3>0 DEF StopClient, ThreadOk
    <3>2. s \notin live => sess'[s] = sess[s]
      BY <1>0, <1>6, <2>1 DEF StopClient, Shown
    <3>3. ObjectOk(s)'
      BY <1>2, <1>3, <1>6, <2>1, <2>3, <3>2, CallerLabel, CallerMoves
         DEF StopClient, ObjectOk
    <3> QED BY <3>1, <3>3
  <2> QED BY <1>2, <1>4, <1>6, <2>1, <2>4, <2>6, <2>7, CallerMoves, CallerFrame
          DEF StopClient
<1>7. CASE SeeEnded(c)
  <2>1. /\ pc[c] = "wait" /\ pc' = [pc EXCEPT ![c] = "delete"]
        /\ Shown /\ ptr[c] = slot[0] /\ sess[slot[0]].status = 2
    BY <1>1, <1>7 DEF SeeEnded, Goto, CallerOk
  <2>2. pc[slot[0]] = "done"
    <3>1. slot[0] \in Sessions /\ slot[0] \in live BY <2>1 DEF Shown
    <3>2. pc[slot[0]] \in {"none", "done"} BY <1>3, <2>1, <3>1 DEF ThreadOk
    <3> QED BY <1>2, <1>3, <2>1, <3>1, <3>2, CallerLabel DEF ObjectOk
  <2>3. Shown' BY <1>7, <2>1 DEF SeeEnded, Shown
  <2>4. FirstEntry' BY <1>1, <1>7 DEF SeeEnded, FirstEntry
  <2>5. rtspId # -1
    BY <1>0, <1>1, <1>2, <2>1, CallerLabel DEF TableOk, Blank, Shown
  <2>6. pc'[slot'[0]] = "done"
    BY <1>2, <1>7, <2>1, <2>2, CallerMoves DEF SeeEnded, Shown
  <2>7. TableOk' /\ CallerOk(c)'
    BY <1>2, <1>7, <2>1, <2>3, <2>5, <2>6, CallerMoves DEF SeeEnded, TableOk, CallerOk
  <2>8. ASSUME NEW s \in Sessions PROVE ThreadOk(s)' /\ ObjectOk(s)'
    <3>1. /\ Closing /\ Closing' /\ ~AtSpawn /\ pc'[s] = pc[s]
      BY <1>2, <2>1, CallerLabel, CallerMoves
    <3>2. ThreadOk(s)' BY <1>3, <1>7, <3>1 DEF SeeEnded, ThreadOk
    <3>3. ObjectOk(s)' BY <1>3, <1>7, <3>1 DEF SeeEnded, ObjectOk
    <3> QED BY <3>2, <3>3
  <2> QED BY <1>2, <1>4, <1>7, <2>1, <2>4, <2>7, <2>8, CallerMoves, CallerFrame
          DEF SeeEnded
<1>8. CASE DeleteSession(c)
  <2>1. /\ pc[c] = "delete" /\ pc' = [pc EXCEPT ![c] = "clear"]
        /\ Shown /\ ptr[c] = slot[0] /\ pc[slot[0]] = "done"
    BY <1>1, <1>8 DEF DeleteSession, Goto, CallerOk
  <2>2. live' = {} /\ slot'[0] \in Sessions
        /\ sess' = [sess EXCEPT ![slot[0]] = NewSession]
    BY <1>8, <2>1 DEF DeleteSession, Shown
  <2>3. \A s \in Sessions : sess'[s] = NewSession /\ pc[s] \in {"none", "done"}
    BY <1>0, <1>3, <2>1, <2>2 DEF Shown, ThreadOk, ObjectOk
  <2>4. FirstEntry'
    BY <1>1, <1>8, <2>3 DEF DeleteSession, FirstEntry, NewSession
  <2>5. rtspId # -1
    BY <1>0, <1>1, <1>2, <2>1, CallerLabel DEF TableOk, Blank, Shown
  <2>6. TableOk' /\ CallerOk(c)'
    <3>0. "clear" \notin {"idle", "close"} OBVIOUS
    <3>1. pc'[c] = "clear" /\ ~Resting'
      BY <1>2, <2>1, <3>0, CallerMoves
    <3>2. rtspId' # -1 BY <1>8, <2>5 DEF DeleteSession
    <3> QED BY <2>2, <3>1, <3>2 DEF TableOk, CallerOk
  <2>7. ASSUME NEW s \in Sessions PROVE ThreadOk(s)' /\ ObjectOk(s)'
    BY <1>2, <2>1, <2>2, <2>3, CallerMoves DEF ThreadOk, ObjectOk, NewSession
  <2> QED BY <1>2, <1>4, <1>8, <2>1, <2>4, <2>6, <2>7, CallerMoves, CallerFrame
          DEF DeleteSession
<1>9. CASE ClearSlot(c)
  <2>1. PICK l \in {"idle", "decoder"} : Continue(c, l)
    BY <1>9, CallerAfterClose DEF ClearSlot
  <2>2. pc' = [pc EXCEPT ![c] = l] /\ \A t \in Threads : arg'[t] = 0
    BY <2>1, CallerContinues
  <2>3. slot' = [slot EXCEPT ![0] = NULL] /\ live = {}
        /\ UNCHANGED <<ptr, live, sess, client, rtspId, fault>>
    BY <1>1, <1>9 DEF ClearSlot, CallerOk
  <2>4. Blank' BY <1>0, <2>3 DEF Blank
  <2>5. FirstEntry' BY <1>0, <1>1, <2>2, <2>3 DEF FirstEntry
  <2>6. TableOk' /\ CallerOk(c)'
    BY <1>2, <2>2, <2>4, CallerMoves DEF TableOk, CallerOk
  <2>7. ASSUME NEW s \in Sessions PROVE ThreadOk(s)' /\ ObjectOk(s)'
    BY <1>2, <1>3, <2>2, <2>3, CallerMoves DEF ThreadOk, ObjectOk
  <2> QED BY <1>2, <1>4, <2>2, <2>3, <2>5, <2>6, <2>7, CallerMoves, CallerFrame
<1>10. CASE CloseDangling(c)
  BY <1>1, <1>10 DEF CloseDangling, CallerOk, Shown
<1> QED BY <1>5, <1>6, <1>7, <1>8, <1>9, <1>10 DEF CloseStream

-----------------------------------------------------------------------------
(* A caller that enters without crossing another enters alone.             *)
LEMMA CallerAlone ==
  ASSUME TurnInv, TakesTurns', NEW c \in Callers, WindowCall(c)
  PROVE  \A d \in Callers : d # c => pc[d] = "idle"
<1>1. CASE StartVideo(c) \/ StopVideo(c)
  <2>1. PICK l \in {"close", "decoder"} : pc' = [pc EXCEPT ![c] = l]
    BY <1>1 DEF StartVideo, StopVideo, Goto
  <2>2. pc'[c] # "idle" /\ \A d \in Callers : d # c => pc'[d] = pc[d]
    BY <2>1, ThreadSets DEF TurnInv, IInv, TypeOK
  <2> QED BY <2>2 DEF TakesTurns
<1>2. CASE pc[c] # "idle"
  BY <1>2 DEF TurnInv, TakesTurns
<1> QED BY <1>1, <1>2
        DEF WindowCall, ReplaceDecoder, OpenPick, OpenSpawn, OpenSetId,
            OpenSetSlot, OpenReturn, SetDecode, SetCB, SetThroughBadSlot, Goto

LEMMA WindowCallTurn ==
  ASSUME TurnInv, IInv', TakesTurns', NEW c \in Callers, WindowCall(c)
  PROVE  TurnInv'
<1>0. /\ c \in Threads /\ sess \in [Sessions -> SessionObject]
      /\ client \in [Sessions -> ClientObject]
      /\ ptr \in [Threads -> Sessions \cup {NULL}]
      /\ pc \in [Threads -> CallerPc \cup SessionPc]
      /\ arg \in [Threads -> Slots] /\ slot \in [Slots -> Sessions \cup {NULL}]
      /\ 0 \in Slots /\ NULL \notin Sessions /\ live \in SUBSET Sessions
      /\ Callers \cap Sessions = {} /\ Sessions \subseteq Threads
      /\ rtspId \in -1 .. MaxRtsp - 1
  BY ThreadSets, ConstantsAssumption DEF TurnInv, IInv, TypeOK, Slots
<1>1. CallerOk(c) /\ FirstEntry /\ TableOk /\ arg[c] = 0 /\ rtspId \in {-1, 0}
  BY <1>0 DEF TurnInv, FirstEntry
<1>2. \A d \in Callers : d # c => pc[d] = "idle"
  BY CallerAlone
<1>3. \A s \in Sessions : ThreadOk(s) /\ ObjectOk(s) BY DEF TurnInv
<1>4. fault \in {"none", "nullSlot", "noThread"} BY DEF TurnInv
<1>5. CASE StartVideo(c)
  <2>1. pc[c] = "idle" /\ UNCHANGED <<ptr, live, sess, client, slot, rtspId, fault>>
    BY <1>5 DEF StartVideo, Goto
  <2>2. Shown \/ Blank BY <1>1, <1>2, <2>1, CallerLabel DEF TableOk
  <2>3. \A t \in Threads : arg'[t] = 0
    BY <1>0, <1>1, <1>5 DEF StartVideo, FirstEntry
  <2>4. FirstEntry' BY <1>1, <2>1, <2>3 DEF FirstEntry
  <2>5. PICK l \in {"close", "decoder"} :
          pc' = [pc EXCEPT ![c] = l] /\ (l = "decoder" => rtspId = -1)
    <3>1. CASE rtspId = -1
      <4>1. ~(rtspId >= 0) BY <3>1
      <4>2. pc' = [pc EXCEPT ![c] = "decoder"] BY <1>5, <4>1 DEF StartVideo, Goto
      <4> QED BY <3>1, <4>2
    <3>2. CASE rtspId = 0
      <4>1. rtspId >= 0 BY <3>2
      <4>2. pc' = [pc EXCEPT ![c] = "close"] BY <1>5, <4>1 DEF StartVideo, Goto
      <4> QED BY <4>2
    <3> QED BY <1>1, <3>1, <3>2
  <2>6. rtspId = -1 => Blank BY <1>1, <1>2, <2>1, CallerLabel DEF TableOk
  <2>7. /\ pc'[c] = l /\ ~Closing /\ ~Closing' /\ ~AtSpawn /\ ~AtSpawn'
        /\ \A s \in Sessions : pc'[s] = pc[s]
    <3>1. ~Closing /\ ~AtSpawn BY <1>2, <2>1, CallerLabel
    <3> QED BY <1>2, <2>5, <3>1, CallerMoves
  <2>8. TableOk' /\ CallerOk(c)'
    BY <2>1, <2>2, <2>5, <2>6, <2>7 DEF TableOk, CallerOk, Shown, Blank
  <2>9. ASSUME NEW s \in Sessions PROVE ThreadOk(s)' /\ ObjectOk(s)'
    BY <1>3, <2>1, <2>7 DEF ThreadOk, ObjectOk
  <2> QED BY <1>2, <1>4, <2>1, <2>4, <2>5, <2>8, <2>9, CallerMoves, CallerFrame
<1>6. CASE StopVideo(c)
  <2>1. /\ pc[c] = "idle" /\ rtspId = 0
        /\ UNCHANGED <<ptr, live, sess, client, slot, rtspId, fault>>
        /\ pc' = [pc EXCEPT ![c] = "close"]
    BY <1>1, <1>6 DEF StopVideo, Goto
  <2>2. Shown \/ Blank BY <1>1, <1>2, <2>1, CallerLabel DEF TableOk
  <2>3. \A t \in Threads : arg'[t] = 0
    BY <1>0, <1>1, <1>6, <2>1 DEF StopVideo, FirstEntry
  <2>4. FirstEntry' BY <1>1, <2>1, <2>3 DEF FirstEntry
  <2>7. /\ pc'[c] = "close" /\ ~Closing /\ ~Closing' /\ ~AtSpawn /\ ~AtSpawn'
        /\ \A s \in Sessions : pc'[s] = pc[s]
    <3>1. ~Closing /\ ~AtSpawn BY <1>2, <2>1, CallerLabel
    <3> QED BY <1>2, <2>1, <3>1, CallerMoves
  <2>8. TableOk' /\ CallerOk(c)'
    BY <2>1, <2>2, <2>7 DEF TableOk, CallerOk, Shown, Blank
  <2>9. ASSUME NEW s \in Sessions PROVE ThreadOk(s)' /\ ObjectOk(s)'
    BY <1>3, <2>1, <2>7 DEF ThreadOk, ObjectOk
  <2> QED BY <1>2, <1>4, <2>1, <2>4, <2>8, <2>9, CallerMoves, CallerFrame
<1>7. CASE ReplaceDecoder(c)
  <2>1. /\ pc[c] = "decoder" /\ pc' = [pc EXCEPT ![c] = "pick"]
        /\ UNCHANGED <<op, arg, ptr, live, client, slot, rtspId, fault>>
        /\ Blank
    BY <1>1, <1>7 DEF ReplaceDecoder, Goto, CallerOk
  <2>2. \A s \in Sessions : sess[s] = NewSession /\ pc[s] \in {"none", "done"}
    BY <1>3, <2>1 DEF Blank, ThreadOk, ObjectOk
  <2>3. \A s \in Sessions : sess'[s] = NewSession
    BY <1>7, <2>2 DEF ReplaceDecoder, NewSession
  <2>4. FirstEntry' BY <1>1, <2>1, <2>2, <2>3 DEF FirstEntry
  <2>5. pc'[c] = "pick" /\ \A s \in Sessions : pc'[s] = pc[s]
    BY <1>2, <2>1, CallerMoves
  <2>6. TableOk' /\ CallerOk(c)'
    BY <2>1, <2>5 DEF TableOk, CallerOk, Blank
  <2>7. ASSUME NEW s \in Sessions PROVE ThreadOk(s)' /\ ObjectOk(s)'
    BY <2>1, <2>2, <2>3, <2>5 DEF ThreadOk, ObjectOk, NewSession, Blank
  <2> QED BY <1>2, <1>4, <2>1, <2>4, <2>6, <2>7, CallerMoves, CallerFrame
<1>8. CASE OpenPick(c)
  <2>1. pc[c] = "pick" /\ Blank /\ {i \in Slots : slot[i] = NULL} # {}
    BY <1>0, <1>1, <1>8 DEF OpenPick, Goto, CallerOk, Blank
  <2>2. /\ pc' = [pc EXCEPT ![c] = "spawn"]
        /\ UNCHANGED <<op, client, slot, rtspId, fault>>
    BY <1>8, <2>1 DEF OpenPick, Goto
  <2>3. PICK i \in {j \in Slots : slot[j] = NULL}, s \in Sessions \ live :
          /\ \A j \in {k \in Slots : slot[k] = NULL} : i <= j
          /\ pc[s] \in {"none", "done"}
          /\ arg' = [arg EXCEPT ![c] = i] /\ ptr' = [ptr EXCEPT ![c] = s]
          /\ live' = live \cup {s} /\ sess' = [sess EXCEPT ![s] = NewSession]
    BY <1>8, <2>1 DEF OpenPick
  <2>4. i = 0 BY <1>0, <2>1, <2>3, ConstantsAssumption DEF Blank, Slots
  <2>5. \A t \in Threads : arg'[t] = 0 BY <1>0, <1>1, <2>3, <2>4 DEF FirstEntry
  <2>6. /\ pc'[c] = "spawn" /\ \A r \in Sessions : pc'[r] = pc[r]
        /\ FirstOpen' /\ AtSpawn' /\ ~Resting'
    <3>1. "spawn" \notin {"idle", "close"} OBVIOUS
    <3> QED BY <1>2, <2>2, <3>1, CallerMoves
  <2>7. \A r \in Sessions : sess'[r] = NewSession /\ pc[r] \in {"none", "done"}
    BY <1>0, <1>3, <2>1, <2>3 DEF Blank, ThreadOk, ObjectOk
  <2>8. FirstEntry' BY <1>1, <2>2, <2>5, <2>7 DEF FirstEntry, NewSession
  <2>9. Opening(c)' /\ ptr'[c] = s
    BY <1>0, <2>1, <2>2, <2>3 DEF Opening, Blank
  <2>10. TableOk' /\ CallerOk(c)'
    BY <2>6, <2>7, <2>9 DEF TableOk, CallerOk
  <2>11. ASSUME NEW r \in Sessions PROVE ThreadOk(r)' /\ ObjectOk(r)'
    BY <2>6, <2>7 DEF ThreadOk, ObjectOk, NewSession
  <2> QED BY <1>2, <1>4, <2>2, <2>8, <2>10, <2>11, CallerMoves, CallerFrame
<1>9. CASE OpenSpawn(c)
  <2>1. CASE Fails("noThread") BY <2>1, FailsTurn
  <2>2. CASE pc' = [pc EXCEPT ![c] = "setId", ![ptr[c]] = "open"]
             /\ UNCHANGED <<op, arg, ptr, live, sess, client, slot, rtspId, fault>>
    <3>1. /\ pc[c] = "spawn" /\ Opening(c)
          /\ pc[ptr[c]] \in {"none", "done"} /\ sess[ptr[c]] = NewSession
      BY <1>1, <1>9 DEF OpenSpawn, CallerOk
    <3>2. ptr[c] \in Sessions /\ slot[0] = NULL /\ live = {ptr[c]}
      BY <3>1 DEF Opening
    <3>3. /\ pc'[c] = "setId" /\ pc'[ptr[c]] = "open"
          /\ \A d \in Callers : d # c => pc'[d] = pc[d]
          /\ \A s \in Sessions : s # ptr[c] => pc'[s] = pc[s]
      BY <1>0, <2>2, <3>2, ThreadSets
    <3>4. FirstEntry' BY <1>1, <2>2 DEF FirstEntry
    <3>5. ~Resting' /\ FirstOpen'
      BY <3>3 DEF Resting, FirstOpen
    <3>6. Opening(c)' BY <2>2, <3>2 DEF Opening
    <3>7. TableOk' /\ CallerOk(c)' BY <3>3, <3>5, <3>6 DEF TableOk, CallerOk
    <3>8. ASSUME NEW s \in Sessions PROVE ThreadOk(s)' /\ ObjectOk(s)'
      <4>1. CASE s = ptr[c]
        BY <2>2, <3>1, <3>2, <3>3, <4>1 DEF ThreadOk, ObjectOk, NewSession
      <4>2. CASE s # ptr[c]
        <5>1. s \notin live BY <3>2, <4>2
        <5>2. pc'[s] \in {"none", "done"} /\ sess[s] = NewSession
          BY <1>3, <3>3, <4>2, <5>1 DEF ThreadOk, ObjectOk
        <5> QED BY <2>2, <5>1, <5>2 DEF ThreadOk, ObjectOk, NewSession
      <4> QED BY <4>1, <4>2
    <3> QED BY <1>2, <1>4, <2>2, <3>3, <3>4, <3>7, <3>8, CallerFrame
  <2> QED BY <1>9, <2>1, <2>2 DEF OpenSpawn
<1>10. CASE OpenSetId(c)
  <2>1. /\ pc[c] = "setId" /\ pc' = [pc EXCEPT ![c] = "setSlot"] /\ Opening(c)
        /\ UNCHANGED <<op, arg, ptr, live, client, slot, rtspId, fault>>
        /\ sess' = [sess EXCEPT ![ptr[c]].nID = 0]
    BY <1>1, <1>10 DEF OpenSetId, Goto, CallerOk
  <2>2. ptr[c] \in Sessions /\ live = {ptr[c]} BY <2>1 DEF Opening
  <2>3. \A s \in Sessions :
          /\ sess'[s].nID = 0 /\ sess'[s].status = sess[s].status
          /\ sess'[s].watch = sess[s].watch /\ sess'[s].cb = sess[s].cb
          /\ sess'[s].decode = sess[s].decode
          /\ s \notin live => sess'[s] = sess[s]
    BY <1>0, <1>1, <2>1, <2>2 DEF FirstEntry, SessionObject
  <2>4. FirstEntry' BY <1>1, <2>1, <2>3 DEF FirstEntry
  <2>5. /\ pc'[c] = "setSlot" /\ \A s \in Sessions : pc'[s] = pc[s]
        /\ FirstOpen' /\ ~Resting'
    <3>1. "setSlot" \notin {"idle", "close"} OBVIOUS
    <3> QED BY <1>2, <2>1, <3>1, CallerMoves
  <2>6. ~AtSpawn /\ ~Closing BY <1>2, <2>1, CallerLabel
  <2>7. TableOk' /\ CallerOk(c)'
    BY <2>1, <2>5 DEF TableOk, CallerOk, Opening
  <2>8. ASSUME NEW s \in Sessions PROVE ThreadOk(s)' /\ ObjectOk(s)'
    BY <1>3, <2>1, <2>3, <2>5, <2>6 DEF ThreadOk, ObjectOk
  <2> QED BY <1>2, <1>4, <2>1, <2>4, <2>7, <2>8, CallerMoves, CallerFrame
<1>11. CASE OpenSetSlot(c)
  <2>1. /\ pc[c] = "setSlot" /\ pc' = [pc EXCEPT ![c] = "return"] /\ Opening(c)
        /\ UNCHANGED <<op, arg, live, sess, client, rtspId, fault>>
        /\ slot' = [slot EXCEPT ![0] = ptr[c]] /\ ptr' = [ptr EXCEPT ![c] = NULL]
    BY <1>1, <1>11 DEF OpenSetSlot, Goto, CallerOk
  <2>2. ptr[c] \in Sessions /\ live = {ptr[c]} /\ slot[0] = NULL
    BY <2>1 DEF Opening
  <2>3. Shown' BY <1>0, <2>1, <2>2 DEF Shown
  <2>4. FirstEntry' BY <1>0, <1>1, <2>1 DEF FirstEntry
  <2>5. /\ pc'[c] = "return" /\ \A s \in Sessions : pc'[s] = pc[s]
        /\ FirstOpen' /\ ~Resting'
    <3>1. "return" \notin {"idle", "close"} OBVIOUS
    <3> QED BY <1>2, <2>1, <3>1, CallerMoves
  <2>6. ~AtSpawn /\ ~Closing BY <1>2, <2>1, CallerLabel
  <2>7. TableOk' /\ CallerOk(c)' BY <2>3, <2>5 DEF TableOk, CallerOk
  <2>8. ASSUME NEW s \in Sessions PROVE ThreadOk(s)' /\ ObjectOk(s)'
    <3>1. pc[s] \notin {"stop", "wait", "frame"}
      BY <1>0, <1>3, <2>2 DEF ThreadOk
    <3> QED BY <1>3, <2>1, <2>5, <2>6, <3>1 DEF ThreadOk, ObjectOk
  <2> QED BY <1>2, <1>4, <2>1, <2>4, <2>7, <2>8, CallerMoves, CallerFrame
<1>12. CASE OpenReturn(c)
  <2>1. /\ pc[c] = "return" /\ pc' = [pc EXCEPT ![c] = "setDecode"] /\ Shown
        /\ UNCHANGED <<op, ptr, live, sess, client, slot, fault>>
        /\ rtspId' = 0 /\ arg' = [arg EXCEPT ![c] = 0]
    BY <1>1, <1>12 DEF OpenReturn, Goto, CallerOk
  <2>2. FirstEntry' BY <1>0, <1>1, <2>1 DEF FirstEntry
  <2>3. pc'[c] = "setDecode" /\ (\A s \in Sessions : pc'[s] = pc[s]) /\ ~Resting'
    <3>1. "setDecode" \notin {"idle", "close"} OBVIOUS
    <3> QED BY <1>2, <2>1, <3>1, CallerMoves
  <2>4. ~AtSpawn /\ ~Closing BY <1>2, <2>1, CallerLabel
  <2>5. TableOk' /\ CallerOk(c)' BY <2>1, <2>3 DEF TableOk, CallerOk, Shown
  <2>6. ASSUME NEW s \in Sessions PROVE ThreadOk(s)' /\ ObjectOk(s)'
    BY <1>3, <2>1, <2>3, <2>4 DEF ThreadOk, ObjectOk
  <2> QED BY <1>2, <1>4, <2>1, <2>2, <2>5, <2>6, CallerMoves, CallerFrame
<1>13. CASE SetDecode(c)
  <2>1. /\ pc[c] = "setDecode" /\ pc' = [pc EXCEPT ![c] = "setCB"] /\ Shown
        /\ UNCHANGED <<op, arg, ptr, live, client, slot, rtspId, fault>>
        /\ rtspId = 0 /\ sess' = [sess EXCEPT ![slot[0]].decode = "current"]
    BY <1>1, <1>13 DEF SetDecode, Goto, CallerOk
  <2>2. slot[0] \in Sessions /\ live = {slot[0]} BY <2>1 DEF Shown
  <2>3. \A s \in Sessions :
          /\ sess'[s].nID = sess[s].nID /\ sess'[s].status = sess[s].status
          /\ sess'[s].watch = sess[s].watch /\ sess'[s].cb = sess[s].cb
          /\ s \notin live => sess'[s] = sess[s]
          /\ s \in live => sess'[s].decode = "current"
    BY <1>0, <2>1, <2>2 DEF SessionObject
  <2>4. FirstEntry' BY <1>1, <2>1, <2>3 DEF FirstEntry
  <2>5. pc'[c] = "setCB" /\ (\A s \in Sessions : pc'[s] = pc[s]) /\ ~Resting'
    <3>1. "setCB" \notin {"idle", "close"} OBVIOUS
    <3> QED BY <1>2, <2>1, <3>1, CallerMoves
  <2>6. ~AtSpawn /\ ~Closing BY <1>2, <2>1, CallerLabel
  <2>7. TableOk' /\ CallerOk(c)'
    BY <2>1, <2>2, <2>3, <2>5 DEF TableOk, CallerOk, Shown
  <2>8. ASSUME NEW s \in Sessions PROVE ThreadOk(s)' /\ ObjectOk(s)'
    BY <1>3, <2>1, <2>3, <2>5, <2>6 DEF ThreadOk, ObjectOk
  <2> QED BY <1>2, <1>4, <2>1, <2>4, <2>7, <2>8, CallerMoves, CallerFrame
<1>14. CASE SetCB(c)
  <2>1. /\ pc[c] = "setCB" /\ Continue(c, "idle") /\ Shown
        /\ UNCHANGED <<ptr, live, client, slot, rtspId, fault>>
        /\ rtspId = 0 /\ sess' = [sess EXCEPT ![slot[0]].cb = TRUE]
        /\ sess[slot[0]].decode = "current"
    BY <1>1, <1>14 DEF SetCB, CallerOk
  <2>2. slot[0] \in Sessions /\ live = {slot[0]} BY <2>1 DEF Shown
  <2>3. \A s \in Sessions :
          /\ sess'[s].nID = sess[s].nID /\ sess'[s].status = sess[s].status
          /\ sess'[s].watch = sess[s].watch
          /\ sess'[s].decode = sess[s].decode
          /\ s \notin live => sess'[s] = sess[s]
          /\ s \in live => sess'[s].cb /\ sess[s].decode = "current"
    BY <1>0, <2>1, <2>2 DEF SessionObject
  <2>4. pc' = [pc EXCEPT ![c] = "idle"] /\ \A t \in Threads : arg'[t] = 0
    BY <2>1, CallerContinues
  <2>5. FirstEntry' BY <1>1, <2>1, <2>3, <2>4 DEF FirstEntry
  <2>6. pc'[c] = "idle" /\ (\A s \in Sessions : pc'[s] = pc[s])
    BY <1>2, <2>4, CallerMoves
  <2>7. ~AtSpawn /\ ~Closing BY <1>2, <2>1, CallerLabel
  <2>8. TableOk' /\ CallerOk(c)'
    BY <2>1, <2>2, <2>6 DEF TableOk, CallerOk, Shown
  <2>9. ASSUME NEW s \in Sessions PROVE ThreadOk(s)' /\ ObjectOk(s)'
    BY <1>3, <2>1, <2>3, <2>6, <2>7 DEF ThreadOk, ObjectOk
  <2> QED BY <1>2, <1>4, <2>1, <2>4, <2>5, <2>8, <2>9, CallerMoves, CallerFrame
<1>15. CASE SetThroughBadSlot(c)
  BY <1>1, <1>15 DEF SetThroughBadSlot, CallerOk, Shown
<1> QED BY <1>5, <1>6, <1>7, <1>8, <1>9, <1>10, <1>11, <1>12, <1>13, <1>14, <1>15
        DEF WindowCall

-----------------------------------------------------------------------------
LEMMA NextTurnInv ==
  ASSUME TurnInv, TakesTurns', Next
  PROVE  TurnInv'
<1>1. IInv' BY NextIInv DEF TurnInv
<1>2. ASSUME NEW c \in Callers, WindowCall(c) PROVE TurnInv'
  BY <1>1, <1>2, WindowCallTurn
<1>3. ASSUME NEW s \in Sessions, SessionThread(s) \/ SessionEvent(s)
      PROVE  TurnInv'
  BY <1>1, <1>3, SessionThreadTurn, SessionEventTurn
<1>4. ASSUME NEW t \in Threads, CloseStream(t) PROVE TurnInv'
  BY <1>1, <1>4, ThreadSets, CallerCloseTurn, SessionCloseTurn
<1> QED BY <1>2, <1>3, <1>4 DEF Next, Step

(* The one bad read that is left: a handler that runs before openStream    *)
(* has set the entry of its session.                                       *)
NullSlotOk ==
  fault = "nullSlot" => \E c \in Callers : pc[c] \in {"setId", "setSlot"}

LEMMA NextNullSlotOk ==
  ASSUME TurnInv, Next
  PROVE  NullSlotOk'
<1>0. fault = "none" BY DEF Next, Step
<1>1. ASSUME NEW c \in Callers, WindowCall(c) PROVE fault' # "nullSlot"
  <2>1. ~SetThroughBadSlot(c)
    BY DEF SetThroughBadSlot, TurnInv, CallerOk, Shown
  <2> QED BY <1>0, <1>1, <2>1
          DEF WindowCall, StartVideo, StopVideo, ReplaceDecoder, OpenPick,
              OpenSpawn, OpenSetId, OpenSetSlot, OpenReturn, SetDecode, SetCB,
              Fails
<1>2. ASSUME NEW t \in Threads, CloseStream(t) PROVE fault' # "nullSlot"
  BY <1>0, <1>2 DEF CloseStream, CloseLookup, StopClient, SeeEnded,
                    DeleteSession, ClearSlot, CloseDangling, Fails
<1>3. ASSUME NEW s \in Sessions, SessionThread(s) PROVE fault' # "nullSlot"
  BY <1>0, <1>3 DEF SessionThread, ThreadOpen, ThreadEnter, LoopPoll, LoopExit,
                    PollIdle, ThreadShutdown, ThreadFinish, ThreadDangling, Fails
<1>4. ASSUME NEW s \in Sessions, SessionEvent(s) PROVE NullSlotOk'
  <2>0. client[s].nID = 0 /\ ThreadOk(s) BY DEF TurnInv, FirstEntry
  <2>1. CASE FrameDecode(s)
    <3>1. s \in live /\ slot[0] = s /\ sess[s].decode = "current"
      BY <2>0, <2>1 DEF FrameDecode, ThreadOk, TurnInv, ObjectOk
    <3> QED BY <1>0, <2>0, <2>1, <3>1 DEF FrameDecode, NullSlotOk
  <2>2. CASE FrameArrives(s) /\ fault' = "nullSlot"
    <3>1. pc[s] = "poll" /\ s \in live /\ live = {s} /\ slot[0] \in {NULL, s}
      BY <2>0, <2>2, OneLive DEF FrameArrives, ThreadOk
    <3>2. slot[0] = NULL /\ Fails("nullSlot")
      BY <1>0, <2>0, <2>2, <3>1 DEF FrameArrives, Fails
    <3>3. ~Shown /\ ~Blank BY <3>1, <3>2, ThreadSets DEF Shown, Blank
    <3>4. PICK c \in Callers : pc[c] \notin {"idle", "close"}
      BY <3>3 DEF TurnInv, TableOk, Resting
    <3>5. pc[c] \in CallerPc /\ CallerOk(c) BY DEF TurnInv, IInv, TypeOK
    <3>6. pc[c] \in {"spawn", "setId", "setSlot"}
      BY <3>1, <3>3, <3>4, <3>5 DEF CallerPc, CallerOk
    <3>7. pc[c] # "spawn" BY <3>1, <3>5 DEF CallerOk, Opening
    <3> QED BY <3>2, <3>6, <3>7 DEF NullSlotOk, Fails
  <2>3. CASE AfterDescribe(s) \/ AfterSetup(s) \/ AfterPlay(s)
    BY <1>0, <2>3 DEF AfterDescribe, AfterSetup, AfterPlay, NullSlotOk
  <2>4. CASE SubsessionEnds(s) \/ StreamTimer(s)
    BY <1>0, <2>4 DEF SubsessionEnds, StreamTimer, NullSlotOk
  <2> QED BY <1>4, <2>1, <2>2, <2>3, <2>4 DEF SessionEvent, NullSlotOk
<1> QED BY <1>1, <1>2, <1>3, <1>4 DEF Next, Step, NullSlotOk

-----------------------------------------------------------------------------
(* The sessions as the abstract camera sees them.                          *)
RunningNow == {s \in Sessions : Running(s)}
ListedNow  == {slot[i] : i \in Slots} \ {NULL}

LEMMA ListedIsFirst ==
  ASSUME TurnInv
  PROVE  ListedNow = {slot[0]} \ {NULL}
BY ConstantsAssumption DEF ListedNow, TurnInv, FirstEntry, Slots

(* Outside of open, run, close and delete the abstract camera stutters.    *)
LEMMA RunningSame ==
  ASSUME TurnInv, NEW t \in Threads, NEW l, pc' = [pc EXCEPT ![t] = l],
         t \in Sessions => (l \in {"none", "done"} <=> pc[t] \in {"none", "done"})
  PROVE  RunningNow' = RunningNow
BY ThreadSets DEF TurnInv, IInv, TypeOK, RunningNow, Running

CameraSame == UNCHANGED <<live, RunningNow, ListedNow>>

LEMMA FailsCamera ==
  ASSUME NEW what, Fails(what)
  PROVE  CameraSame
BY DEF Fails, CameraSame, RunningNow, ListedNow, Running

LEMMA SessionThreadCamera ==
  ASSUME TurnInv, ~crossed, UNCHANGED crossed, NEW s \in Sessions, SessionThread(s)
  PROVE  OneAtATime!Next \/ CameraSame
<1>0. s \in Threads /\ pc \in [Threads -> CallerPc \cup SessionPc]
      /\ Sessions \subseteq Threads
  BY ThreadSets DEF TurnInv, IInv, TypeOK
<1>1. ThreadOk(s) BY DEF TurnInv
<1>2. ASSUME NEW from, NEW to, Goto(s, from, to),
             from \notin {"none", "done"}, to \notin {"none", "done"}
      PROVE  RunningNow' = RunningNow
  BY <1>0, <1>2, RunningSame DEF Goto
<1>3. CASE ThreadOpen(s) \/ ThreadEnter(s) \/ LoopPoll(s) \/ LoopExit(s)
           \/ PollIdle(s) \/ ThreadShutdown(s)
  <2>1. RunningNow' = RunningNow
    BY <1>2, <1>3 DEF ThreadOpen, ThreadEnter, LoopPoll, LoopExit, PollIdle,
                      ThreadShutdown
  <2>2. live' = live /\ ListedNow' = ListedNow
    BY <1>3 DEF ThreadOpen, ThreadEnter, LoopPoll, LoopExit, PollIdle,
                ThreadShutdown, ListedNow
  <2> QED BY <2>1, <2>2 DEF CameraSame
<1>4. CASE ThreadFinish(s)
  <2>1. pc[s] = "finish" /\ s \in live /\ Shown
    BY <1>1, <1>4, ClosingShown DEF ThreadFinish, Goto, ThreadOk
  <2>2. live = {s} /\ slot[0] = s BY <2>1 DEF Shown
  <2>3. ListedNow = {s} BY <2>2, ListedIsFirst, ThreadSets
  <2>4. \A r \in Sessions : Running(r) <=> r = s
    BY <2>1, <2>2 DEF TurnInv, ThreadOk, Running
  <2>5. RunningNow = {s} BY <2>4 DEF RunningNow
  <2>6. RunningNow' = {}
    BY <1>0, <1>4, <2>4 DEF ThreadFinish, Goto, RunningNow, Running
  <2>7. live' = live /\ ListedNow' = ListedNow
    BY <1>4 DEF ThreadFinish, ListedNow
  <2>8. OneAtATime!End(s)
    BY <2>2, <2>3, <2>5, <2>6, <2>7 DEF OneAtATime!End, RunningNow, ListedNow
  <2> QED BY <2>8 DEF OneAtATime!Next
<1>5. CASE ThreadDangling(s)
  BY <1>5, FailsCamera DEF ThreadDangling
<1> QED BY <1>3, <1>4, <1>5 DEF SessionThread

LEMMA SessionEventCamera ==
  ASSUME TurnInv, NEW s \in Sessions, SessionEvent(s)
  PROVE  CameraSame
<1>0. s \in Threads BY ThreadSets
<1>1. CASE \E what : Fails(what) BY <1>1, FailsCamera
<1>2. ASSUME NEW l \in {"loop", "close", "frame"}, pc[s] \in {"poll", "frame"},
             pc' = [pc EXCEPT ![s] = l], UNCHANGED <<live, slot>>
      PROVE  CameraSame
  <2>1. RunningNow' = RunningNow BY <1>0, <1>2, RunningSame
  <2> QED BY <1>2, <2>1 DEF CameraSame, ListedNow
<1>3. CASE AfterDescribe(s)
  BY <1>2, <1>3 DEF AfterDescribe, Handled, Goto, FatalShutdown
<1>4. CASE AfterSetup(s)
  BY <1>2, <1>4 DEF AfterSetup, Handled, Goto
<1>5. CASE AfterPlay(s)
  BY <1>2, <1>5 DEF AfterPlay, Handled, Goto, FatalShutdown
<1>6. CASE SubsessionEnds(s)
  BY <1>2, <1>6 DEF SubsessionEnds, Handled, Goto, FatalShutdown
<1>7. CASE StreamTimer(s)
  BY <1>2, <1>7 DEF StreamTimer, FatalShutdown
<1>8. CASE FrameArrives(s) BY <1>1, <1>2, <1>8 DEF FrameArrives
<1>9. CASE FrameDecode(s) BY <1>1, <1>2, <1>9 DEF FrameDecode
<1> QED BY <1>3, <1>4, <1>5, <1>6, <1>7, <1>8, <1>9 DEF SessionEvent

(* closeStream is seen only when the session is deleted and taken off.     *)
LEMMA CloseStreamCamera ==
  ASSUME TurnInv, ~crossed, UNCHANGED crossed, NEW t \in Threads, CloseStream(t)
  PROVE  OneAtATime!Next \/ CameraSame
<1>0. /\ 0 \in Slots /\ NULL \notin Sessions
      /\ slot \in [Slots -> Sessions \cup {NULL}]
      /\ Callers \cap Sessions = {} /\ Threads = Callers \cup Sessions
      /\ pc \in [Threads -> CallerPc \cup SessionPc]
  BY ThreadSets, ConstantsAssumption DEF TurnInv, IInv, TypeOK, Slots
<1>1. t \in Sessions => ThreadOk(t) BY DEF TurnInv
<1>2. t \in Callers => CallerOk(t) BY DEF TurnInv
<1>3. CASE CloseLookup(t)
  <2>1. PICK l \in {"stop", "loop", "decoder", "idle"} : Continue(t, l)
                   /\ (t \in Sessions => l \in {"stop", "loop"})
    BY <1>0, <1>3 DEF CloseLookup, AfterClose
  <2>2. RunningNow' = RunningNow
    BY <1>3, <2>1, RunningSame DEF CloseLookup, Continue
  <2> QED BY <1>3, <2>2 DEF CloseLookup, CameraSame, ListedNow
<1>4. CASE StopClient(t)
  <2>1. RunningNow' = RunningNow BY <1>4, RunningSame DEF StopClient, Goto
  <2> QED BY <1>4, <2>1 DEF StopClient, CameraSame, ListedNow
<1>5. CASE SeeEnded(t)
  <2>1. RunningNow' = RunningNow BY <1>5, RunningSame DEF SeeEnded, Goto
  <2> QED BY <1>5, <2>1 DEF SeeEnded, CameraSame, ListedNow
<1>6. CASE DeleteSession(t)
  <2>1. t \in Callers /\ pc[t] = "delete"
    BY <1>0, <1>1, <1>6 DEF DeleteSession, Goto, ThreadOk
  <2> DEFINE s == slot[0]
  <2>2. s \in Sessions /\ live = {s} /\ ptr[t] = s /\ pc[s] = "done"
    BY <1>2, <2>1 DEF CallerOk, Shown
  <2>3. ListedNow = {s} /\ ListedNow' = ListedNow
    BY <1>0, <1>6, <2>2, ListedIsFirst DEF DeleteSession, ListedNow
  <2>4. RunningNow' = RunningNow
    BY <1>6, <2>1, <1>0, RunningSame DEF DeleteSession, Goto
  <2>5. RunningNow = {}
    BY <2>2 DEF TurnInv, ThreadOk, RunningNow, Running
  <2>6. live' = {} BY <1>6, <2>2 DEF DeleteSession
  <2>7. OneAtATime!Delete(s)
    BY <2>2, <2>3, <2>4, <2>5, <2>6 DEF OneAtATime!Delete, RunningNow, ListedNow
  <2> QED BY <2>2, <2>7 DEF OneAtATime!Next
<1>7. CASE ClearSlot(t)
  <2>1. t \in Callers /\ pc[t] = "clear" /\ arg[t] = 0
    BY <1>0, <1>1, <1>7 DEF ClearSlot, ThreadOk, TurnInv, FirstEntry
  <2>0. slot[0] \in Sessions /\ live = {} BY <1>2, <2>1 DEF CallerOk
  <2>2. PICK s \in Sessions : s = slot[0] BY <2>0
  <2>3. ListedNow = {s} BY <1>0, <2>2, ListedIsFirst
  <2>4. slot' = [slot EXCEPT ![0] = NULL] BY <1>7, <2>1 DEF ClearSlot
  <2>5. ListedNow' = {}
    BY <1>0, <2>4 DEF TurnInv, FirstEntry, ListedNow
  <2>6. RunningNow' = RunningNow
    BY <1>0, <1>7, <2>1, RunningSame DEF ClearSlot, Continue
  <2>7. RunningNow = {} BY <2>0 DEF TurnInv, ThreadOk, RunningNow, Running
  <2>8. live' = live BY <1>7 DEF ClearSlot
  <2>9. OneAtATime!TakeOff(s)
    BY <2>0, <2>3, <2>5, <2>6, <2>7, <2>8
       DEF OneAtATime!TakeOff, RunningNow, ListedNow
  <2> QED BY <2>2, <2>9 DEF OneAtATime!Next
<1>8. CASE CloseDangling(t) BY <1>8, FailsCamera DEF CloseDangling
<1> QED BY <1>3, <1>4, <1>5, <1>6, <1>7, <1>8 DEF CloseStream

(* startVideo is seen when it allocates a session, starts its thread and   *)
(* lists it.                                                               *)
LEMMA WindowCallCamera ==
  ASSUME TurnInv, ~crossed, UNCHANGED crossed, NEW c \in Callers, WindowCall(c)
  PROVE  OneAtATime!Next \/ CameraSame
<1>0. /\ c \in Threads /\ c \notin Sessions /\ 0 \in Slots /\ NULL \notin Sessions
      /\ slot \in [Slots -> Sessions \cup {NULL}]
      /\ pc \in [Threads -> CallerPc \cup SessionPc]
      /\ Sessions \subseteq Threads
  BY ThreadSets, ConstantsAssumption DEF TurnInv, IInv, TypeOK, Slots
<1>1. CallerOk(c) /\ arg[c] = 0 BY <1>0 DEF TurnInv, FirstEntry
<1>2. \A d \in Callers : d # c /\ pc[c] # "idle" => pc[d] = "idle"
  BY DEF TurnInv, TakesTurns
<1>3. ASSUME NEW l, pc' = [pc EXCEPT ![c] = l] PROVE RunningNow' = RunningNow
  BY <1>0, <1>3, RunningSame
<1>4. CASE StartVideo(c)
  BY <1>3, <1>4 DEF StartVideo, Goto, CameraSame, ListedNow
<1>5. CASE StopVideo(c)
  BY <1>3, <1>5 DEF StopVideo, Goto, CameraSame, ListedNow
<1>6. CASE ReplaceDecoder(c) \/ OpenSetId(c) \/ OpenReturn(c) \/ SetDecode(c)
           \/ SetCB(c)
  BY <1>3, <1>6 DEF ReplaceDecoder, OpenSetId, OpenReturn, SetDecode, SetCB,
                    Goto, Continue, CameraSame, ListedNow
<1>7. CASE OpenPick(c)
  <2>1. CASE Fails("tableFull") BY <2>1, FailsCamera
  <2>2. CASE Goto(c, "pick", "spawn")
    <3>1. Blank BY <1>1, <2>2 DEF Goto, CallerOk
    <3>2. PICK s \in Sessions : live' = live \cup {s}
      BY <1>0, <1>7, <2>2 DEF OpenPick, Fails, Goto
    <3>3. UNCHANGED slot BY <1>7 DEF OpenPick, Fails
    <3>4. ListedNow = {} /\ ListedNow' = ListedNow
      BY <3>1, <3>3, ListedIsFirst DEF Blank, ListedNow
    <3>5. RunningNow = {} BY <3>1 DEF TurnInv, ThreadOk, Blank, RunningNow, Running
    <3>6. RunningNow' = RunningNow BY <1>3, <2>2 DEF Goto
    <3>7. OneAtATime!Open(s)
      BY <3>1, <3>2, <3>4, <3>5, <3>6
         DEF OneAtATime!Open, RunningNow, ListedNow, Blank
    <3> QED BY <3>7 DEF OneAtATime!Next
  <2> QED BY <1>7, <2>1, <2>2 DEF OpenPick
<1>8. CASE OpenSpawn(c)
  <2>1. CASE Fails("noThread") BY <2>1, FailsCamera
  <2>2. CASE pc' = [pc EXCEPT ![c] = "setId", ![ptr[c]] = "open"]
             /\ UNCHANGED <<op, arg, ptr, live, sess, client, slot, rtspId, fault>>
    <3> DEFINE s == ptr[c]
    <3>1. s \in Sessions /\ live = {s} /\ slot[0] = NULL
          /\ pc[s] \in {"none", "done"}
      BY <1>1, <1>8 DEF OpenSpawn, CallerOk, Opening
    <3>2. ListedNow = {} /\ ListedNow' = ListedNow
      BY <2>2, <3>1, ListedIsFirst DEF ListedNow
    <3>3. RunningNow = {} BY <3>1 DEF TurnInv, ThreadOk, RunningNow, Running
    <3>4. \A r \in Sessions : Running(r)' <=> r = s
      BY <1>0, <2>2, <3>1, <3>3 DEF RunningNow, Running
    <3>5. RunningNow' = {s} BY <3>1, <3>4 DEF RunningNow
    <3>6. OneAtATime!Start(s)
      BY <2>2, <3>1, <3>2, <3>3, <3>5 DEF OneAtATime!Start, RunningNow, ListedNow
    <3> QED BY <3>1, <3>6 DEF OneAtATime!Next
  <2> QED BY <1>8, <2>1, <2>2 DEF OpenSpawn
<1>9. CASE OpenSetSlot(c)
  <2>0. /\ ptr[c] \in Sessions /\ live = {ptr[c]} /\ slot[0] = NULL
        /\ pc[c] = "setSlot"
    BY <1>1, <1>9 DEF OpenSetSlot, Goto, CallerOk, Opening
  <2>1. PICK s \in Sessions : /\ s = ptr[c] /\ live = {s} /\ slot[0] = NULL
                              /\ pc[c] = "setSlot"
    BY <2>0
  <2>2. ~AtSpawn /\ ~Closing
    BY <1>2, <2>1, CallerLabel
  <2>3. Running(s) BY <2>1, <2>2 DEF TurnInv, ObjectOk, Running
  <2>4. RunningNow = {s} BY <2>1, <2>3 DEF TurnInv, ThreadOk, RunningNow, Running
  <2>5. RunningNow' = RunningNow /\ live' = live
    BY <1>3, <1>9 DEF OpenSetSlot, Goto
  <2>6. ListedNow = {} BY <2>1, ListedIsFirst
  <2>7. slot' = [slot EXCEPT ![0] = s] BY <1>1, <1>9, <2>1 DEF OpenSetSlot
  <2>8. ListedNow' = {s}
    BY <1>0, <2>1, <2>7 DEF TurnInv, FirstEntry, ListedNow
  <2>9. OneAtATime!List(s)
    BY <2>1, <2>4, <2>5, <2>6, <2>8 DEF OneAtATime!List, RunningNow, ListedNow
  <2> QED BY <2>1, <2>9 DEF OneAtATime!Next
<1>10. CASE SetThroughBadSlot(c)
  BY <1>10, FailsCamera DEF SetThroughBadSlot
<1> QED BY <1>4, <1>5, <1>6, <1>7, <1>8, <1>9, <1>10 DEF WindowCall

-----------------------------------------------------------------------------
(* What a window call waits for: the thread of its session has ended, or   *)
(* is on its way to its end.                                               *)
Stopping(s) ==
  \/ sess[s].status = 2
  \/ Running(s) /\ (sess[s].watch \/ pc[s] \in {"shutdown", "finish"})

(* A thread that has ended has said so, until its address is used again.   *)
EndedOk(s) == s \in live /\ pc[s] = "done" /\ ~AtSpawn => sess[s].status = 2

WaitInv ==
  /\ \A s \in Sessions : EndedOk(s)
  /\ \A c \in Callers : pc[c] = "wait" => Stopping(ptr[c])

LEMMA InitWaitInv == Init => WaitInv
BY ThreadSets DEF Init, WaitInv, EndedOk

LEMMA SameWaits ==
  ASSUME WaitInv, UNCHANGED <<pc, ptr, live, sess>>
  PROVE  WaitInv'
BY DEF WaitInv, EndedOk, AtSpawn, Stopping, Running

(* A step of the thread of s lets nobody wait in vain when it leaves s on  *)
(* its way to its end.                                                     *)
LEMMA SessionWaits ==
  ASSUME TurnInv, WaitInv, NEW s \in Sessions,
         NEW l, pc' = [pc EXCEPT ![s] = l],
         \A r \in Sessions : r # s => sess'[r] = sess[r],
         \A c \in Callers : ptr'[c] = ptr[c],
         UNCHANGED live,
         l = "done" => sess'[s].status = 2,
         Stopping(s) => Stopping(s)'
  PROVE  WaitInv'
<1>0. /\ Callers \cap Sessions = {}
      /\ Callers \subseteq Threads /\ Sessions \subseteq Threads
      /\ pc \in [Threads -> CallerPc \cup SessionPc]
  BY ThreadSets DEF TurnInv, IInv, TypeOK
<1>1. \A c \in Callers : pc'[c] = pc[c] BY <1>0
<1>2. pc'[s] = l /\ \A r \in Sessions : r # s => pc'[r] = pc[r] BY <1>0
<1>3. AtSpawn' <=> AtSpawn BY <1>1 DEF AtSpawn
<1>4. ASSUME NEW r \in Sessions PROVE EndedOk(r)'
  <2>1. CASE r = s BY <1>2, <2>1 DEF EndedOk
  <2>2. CASE r # s BY <1>2, <1>3, <2>2 DEF WaitInv, EndedOk
  <2> QED BY <2>1, <2>2
<1>5. ASSUME NEW r \in Sessions, Stopping(r) PROVE Stopping(r)'
  <2>1. CASE r # s BY <1>2, <1>5, <2>1 DEF Stopping, Running
  <2> QED BY <1>5, <2>1
<1>6. ASSUME NEW c \in Callers, pc'[c] = "wait" PROVE Stopping(ptr[c])'
  <2>1. pc[c] = "wait" /\ ptr'[c] = ptr[c] BY <1>1, <1>6
  <2>2. Shown /\ ptr[c] = slot[0] BY <2>1 DEF TurnInv, CallerOk
  <2>3. PICK r \in Sessions : r = ptr[c] BY <2>2 DEF Shown
  <2>4. Stopping(r)' BY <1>5, <2>1, <2>3 DEF WaitInv
  <2> QED BY <2>1, <2>3, <2>4 DEF Stopping, Running
<1>7. \A c \in Callers : pc'[c] = "wait" => Stopping(ptr[c])' BY <1>6
<1> QED BY <1>1, <1>4, <1>6 DEF WaitInv, Stopping, Running

(* A step inside of the event loop leaves the watch variable as it is.     *)
LEMMA LoopStepWaits ==
  ASSUME TurnInv, WaitInv, NEW s \in Sessions,
         NEW l \in SessionPc \ {"none", "done"}, pc' = [pc EXCEPT ![s] = l],
         pc[s] \notin {"none", "done", "shutdown", "finish"},
         UNCHANGED <<sess, live>>,
         \A c \in Callers : ptr'[c] = ptr[c]
  PROVE  WaitInv'
<1>1. pc'[s] = l BY ThreadSets DEF TurnInv, IInv, TypeOK
<1>2. Stopping(s) => Stopping(s)' BY <1>1 DEF Stopping, Running
<1> QED BY <1>2, SessionWaits

LEMMA SessionThreadWaits ==
  ASSUME TurnInv, WaitInv, NEW s \in Sessions, SessionThread(s)
  PROVE  WaitInv'
<1>0. /\ s \in Threads /\ sess \in [Sessions -> SessionObject]
      /\ pc \in [Threads -> CallerPc \cup SessionPc]
  BY ThreadSets DEF TurnInv, IInv, TypeOK
<1>1. CASE ThreadOpen(s) \/ LoopPoll(s) \/ PollIdle(s)
  <2>1. PICK l \in {"enter", "poll", "loop"} :
          /\ pc' = [pc EXCEPT ![s] = l] /\ pc[s] \in {"open", "loop", "poll"}
          /\ UNCHANGED <<ptr, live, sess>>
    BY <1>1 DEF ThreadOpen, LoopPoll, PollIdle, Goto
  <2>2. l \in SessionPc \ {"none", "done"} BY DEF SessionPc
  <2> QED BY <2>1, <2>2, LoopStepWaits
<1>2. CASE ThreadEnter(s)
  <2>1. /\ pc[s] = "enter" /\ pc' = [pc EXCEPT ![s] = "loop"]
        /\ sess' = [sess EXCEPT ![s] = [sess[s] EXCEPT !.status = 1]]
        /\ UNCHANGED <<ptr, live>>
    BY <1>2 DEF ThreadEnter, Goto
  <2>2. sess'[s].watch = sess[s].watch BY <1>0, <2>1, StatusField
  <2>3. Stopping(s) => Stopping(s)'
    <3>1. sess[s].status = 0 BY <2>1 DEF TurnInv, ThreadOk
    <3>2. pc'[s] = "loop" BY <1>0, <2>1
    <3> QED BY <2>1, <2>2, <3>1, <3>2 DEF Stopping, Running
  <2> QED BY <1>0, <2>1, <2>3, SessionWaits
<1>3. CASE LoopExit(s)
  <2>1. pc' = [pc EXCEPT ![s] = "shutdown"] /\ UNCHANGED <<ptr, live>>
    BY <1>3 DEF LoopExit, Goto
  <2>2. \A r \in Sessions : r # s => sess'[r] = sess[r]
    BY <1>0, <1>3 DEF LoopExit
  <2>3. Stopping(s)' BY <1>0, <2>1 DEF Stopping, Running
  <2> QED BY <2>1, <2>2, <2>3, SessionWaits
<1>4. CASE ThreadShutdown(s)
  <2>1. /\ pc' = [pc EXCEPT ![s] = "finish"] /\ UNCHANGED <<ptr, live, sess>>
    BY <1>4 DEF ThreadShutdown, Goto
  <2>2. Stopping(s)' BY <1>0, <2>1 DEF Stopping, Running
  <2> QED BY <2>1, <2>2, SessionWaits
<1>5. CASE ThreadFinish(s)
  <2>1. /\ pc' = [pc EXCEPT ![s] = "done"] /\ UNCHANGED <<ptr, live>>
        /\ sess' = [sess EXCEPT ![s] = [sess[s] EXCEPT !.status = 2]]
    BY <1>5 DEF ThreadFinish, Goto
  <2>2. sess'[s].status = 2 BY <1>0, <2>1, StatusField
  <2> QED BY <1>0, <2>1, <2>2, SessionWaits DEF Stopping
<1>6. CASE ThreadDangling(s) BY <1>6, SameWaits DEF ThreadDangling, Fails
<1> QED BY <1>1, <1>2, <1>3, <1>4, <1>5, <1>6 DEF SessionThread

LEMMA SessionEventWaits ==
  ASSUME TurnInv, WaitInv, NEW s \in Sessions, SessionEvent(s)
  PROVE  WaitInv'
<1>1. ASSUME NEW l \in {"loop", "close", "frame"}, pc[s] \in {"poll", "frame"},
             pc' = [pc EXCEPT ![s] = l], UNCHANGED <<ptr, live, sess>>
      PROVE  WaitInv'
  <2>1. l \in SessionPc \ {"none", "done"} BY DEF SessionPc
  <2> QED BY <1>1, <2>1, LoopStepWaits
<1>2. CASE \E what : Fails(what) BY <1>2, SameWaits DEF Fails
<1>3. CASE AfterDescribe(s)
  BY <1>1, <1>3 DEF AfterDescribe, Handled, Goto, FatalShutdown
<1>4. CASE AfterSetup(s)
  BY <1>1, <1>4 DEF AfterSetup, Handled, Goto
<1>5. CASE AfterPlay(s)
  BY <1>1, <1>5 DEF AfterPlay, Handled, Goto, FatalShutdown
<1>6. CASE SubsessionEnds(s)
  BY <1>1, <1>6 DEF SubsessionEnds, Handled, Goto, FatalShutdown
<1>7. CASE StreamTimer(s)
  BY <1>1, <1>7 DEF StreamTimer, FatalShutdown
<1>8. CASE FrameArrives(s) BY <1>1, <1>2, <1>8 DEF FrameArrives
<1>9. CASE FrameDecode(s) BY <1>1, <1>2, <1>9 DEF FrameDecode
<1> QED BY <1>3, <1>4, <1>5, <1>6, <1>7, <1>8, <1>9 DEF SessionEvent

(* closeStream of a session's own thread sets its watch variable and waits *)
(* for itself, as long as it does not find an empty table.                 *)
LEMMA SessionCloseWaits ==
  ASSUME TurnInv, WaitInv, NEW s \in Sessions, CloseStream(s)
  PROVE  WaitInv'
<1>0. /\ s \in Threads /\ sess \in [Sessions -> SessionObject]
      /\ pc \in [Threads -> CallerPc \cup SessionPc]
      /\ ptr \in [Threads -> Sessions \cup {NULL}]
      /\ Callers \cap Sessions = {} /\ Callers \subseteq Threads
  BY ThreadSets DEF TurnInv, IInv, TypeOK
<1>1. ThreadOk(s) BY DEF TurnInv
<1>2. CASE CloseLookup(s)
  <2>1. AfterClose(s) = "loop" BY <1>0 DEF AfterClose
  <2>2. PICK l \in {"loop", "stop"} : pc' = [pc EXCEPT ![s] = l]
    BY <1>2, <2>1 DEF CloseLookup, Continue
  <2>3. l \in SessionPc \ {"none", "done"} BY DEF SessionPc
  <2>4. \A c \in Callers : ptr'[c] = ptr[c] BY <1>0, <1>2 DEF CloseLookup
  <2> QED BY <1>2, <2>2, <2>3, <2>4, LoopStepWaits DEF CloseLookup
<1>3. CASE StopClient(s)
  <2>1. /\ pc[s] = "stop" /\ pc' = [pc EXCEPT ![s] = "wait"] /\ ptr[s] = s
        /\ sess[s].status # 2 /\ UNCHANGED <<ptr, live>>
    BY <1>1, <1>3 DEF StopClient, Goto, ThreadOk
  <2>2. sess' = [sess EXCEPT ![s].watch = sess[s].watch \/ sess[s].status # 2]
    BY <1>3, <2>1 DEF StopClient
  <2>3. sess'[s].watch BY <1>0, <2>1, <2>2 DEF SessionObject
  <2>4. Stopping(s)' BY <1>0, <2>1, <2>3 DEF Stopping, Running
  <2>5. \A r \in Sessions : r # s => sess'[r] = sess[r] BY <1>0, <2>2
  <2> QED BY <2>1, <2>4, <2>5, SessionWaits
<1>4. CASE SeeEnded(s)
  BY <1>1, <1>4 DEF SeeEnded, Goto, ThreadOk
<1>5. CASE DeleteSession(s) \/ ClearSlot(s)
  BY <1>1, <1>5 DEF DeleteSession, ClearSlot, Goto, ThreadOk
<1>6. CASE CloseDangling(s) BY <1>6, SameWaits DEF CloseDangling, Fails
<1> QED BY <1>2, <1>3, <1>4, <1>5, <1>6 DEF CloseStream

(* A window call that does not come to "wait" leaves nobody waiting.       *)
LEMMA CallerWaits ==
  ASSUME TurnInv, WaitInv, NEW c \in Callers,
         \A d \in Callers : d # c => pc[d] = "idle",
         pc[c] # "spawn",
         NEW l, l # "wait", pc' = [pc EXCEPT ![c] = l],
         \A s \in live' : s \in live /\ sess'[s].status = sess[s].status
  PROVE  WaitInv'
<1>1. /\ pc'[c] = l
      /\ \A d \in Callers : d # c => pc'[d] = "idle"
      /\ \A s \in Sessions : pc'[s] = pc[s]
  BY CallerMoves
<1>2. ~AtSpawn BY CallerLabel
<1>3. \A s \in Sessions : EndedOk(s)' BY <1>1, <1>2 DEF WaitInv, EndedOk
<1> QED BY <1>1, <1>3 DEF WaitInv

LEMMA CallerCloseWaits ==
  ASSUME TurnInv, WaitInv, NEW c \in Callers, CloseStream(c)
  PROVE  WaitInv'
<1>0. /\ c \in Threads /\ sess \in [Sessions -> SessionObject]
      /\ pc \in [Threads -> CallerPc \cup SessionPc]
      /\ live \in SUBSET Sessions
  BY ThreadSets DEF TurnInv, IInv, TypeOK
<1>1. CallerOk(c) BY DEF TurnInv
<1>2. \A d \in Callers : d # c => pc[d] = "idle"
  BY DEF CloseStream, CloseLookup, StopClient, SeeEnded, DeleteSession,
         ClearSlot, CloseDangling, Goto, TurnInv, TakesTurns
<1>3. CASE CloseLookup(c)
  <2>1. PICK l \in {"idle", "decoder", "stop"} : pc' = [pc EXCEPT ![c] = l]
    BY <1>3, CallerAfterClose DEF CloseLookup, Continue
  <2> QED BY <1>2, <1>3, <2>1, CallerWaits DEF CloseLookup
<1>4. CASE StopClient(c)
  <2> DEFINE s == ptr[c]
  <2>1. /\ pc[c] = "stop" /\ pc' = [pc EXCEPT ![c] = "wait"]
        /\ UNCHANGED <<ptr, live>>
        /\ sess' = [sess EXCEPT ![s].watch = sess[s].watch \/ sess[s].status # 2]
    BY <1>4 DEF StopClient, Goto
  <2>2. s \in Sessions /\ live = {s} BY <1>1, <2>1 DEF CallerOk, Shown
  <2>3. ~AtSpawn /\ ~Closing BY <1>2, <2>1, CallerLabel
  <2>4. Running(s) BY <2>2, <2>3 DEF TurnInv, ObjectOk, Running
  <2>5. sess[s].status # 2 BY <2>2, <2>4 DEF TurnInv, ThreadOk, Running
  <2>6. sess'[s].watch BY <1>0, <2>1, <2>2, <2>5 DEF SessionObject
  <2>7. /\ pc'[c] = "wait"
        /\ \A d \in Callers : d # c => pc'[d] = "idle"
        /\ \A r \in Sessions : pc'[r] = pc[r]
    BY <1>2, <2>1, CallerMoves
  <2>8. Stopping(s)' BY <2>1, <2>2, <2>4, <2>6, <2>7 DEF Stopping, Running
  <2>9. \A r \in Sessions : EndedOk(r)'
    BY <2>1, <2>2, <2>4, <2>7 DEF EndedOk, Running
  <2> QED BY <2>1, <2>7, <2>8, <2>9 DEF WaitInv, Stopping, Running
<1>5. CASE SeeEnded(c)
  <2>1. pc[c] = "wait" /\ pc' = [pc EXCEPT ![c] = "delete"]
        /\ UNCHANGED <<live, sess>>
    BY <1>5 DEF SeeEnded, Goto
  <2> QED BY <1>2, <2>1, CallerWaits
<1>6. CASE DeleteSession(c)
  <2>1. pc[c] = "delete" /\ pc' = [pc EXCEPT ![c] = "clear"]
    BY <1>6 DEF DeleteSession, Goto
  <2>2. live' = {} BY <1>1, <1>6, <2>1 DEF DeleteSession, CallerOk, Shown
  <2> QED BY <1>2, <2>1, <2>2, CallerWaits
<1>7. CASE ClearSlot(c)
  <2>1. PICK l \in {"idle", "decoder"} : pc' = [pc EXCEPT ![c] = l]
    BY <1>7, CallerAfterClose DEF ClearSlot, Continue
  <2> QED BY <1>2, <1>7, <2>1, CallerWaits DEF ClearSlot
<1>8. CASE CloseDangling(c) BY <1>8, SameWaits DEF CloseDangling, Fails
<1> QED BY <1>3, <1>4, <1>5, <1>6, <1>7, <1>8 DEF CloseStream

LEMMA WindowCallWaits ==
  ASSUME TurnInv, TakesTurns', WaitInv, NEW c \in Callers, WindowCall(c)
  PROVE  WaitInv'
<1>0. /\ c \in Threads /\ sess \in [Sessions -> SessionObject]
      /\ pc \in [Threads -> CallerPc \cup SessionPc]
      /\ live \in SUBSET Sessions /\ c \notin Sessions
      /\ Sessions \subseteq Threads
  BY ThreadSets DEF TurnInv, IInv, TypeOK
<1>1. CallerOk(c) /\ (pc[c] \in {"setDecode", "setCB"} => rtspId = 0)
  BY DEF TurnInv, CallerOk
<1>2. \A d \in Callers : d # c => pc[d] = "idle"
  BY CallerAlone
<1>3. CASE StartVideo(c) \/ StopVideo(c) \/ OpenSetSlot(c) \/ OpenReturn(c)
  <2>1. PICK l \in {"close", "decoder", "return", "setDecode"} :
          /\ pc' = [pc EXCEPT ![c] = l] /\ pc[c] \in {"idle", "setSlot", "return"}
          /\ UNCHANGED <<live, sess>>
    BY <1>3 DEF StartVideo, StopVideo, OpenSetSlot, OpenReturn, Goto
  <2> QED BY <1>2, <2>1, CallerWaits
<1>4. CASE ReplaceDecoder(c)
  <2>1. /\ pc[c] = "decoder" /\ pc' = [pc EXCEPT ![c] = "pick"]
        /\ UNCHANGED live
    BY <1>4 DEF ReplaceDecoder, Goto
  <2>2. live' = {} BY <1>1, <2>1 DEF CallerOk, Blank
  <2> QED BY <1>2, <2>1, <2>2, CallerWaits
<1>5. CASE OpenPick(c)
  <2>1. CASE Goto(c, "pick", "spawn")
    <3>1. pc' = [pc EXCEPT ![c] = "spawn"] BY <2>1 DEF Goto
    <3>2. AtSpawn' /\ \A d \in Callers : pc'[d] # "wait"
      BY <1>2, <3>1, CallerMoves
    <3> QED BY <3>2 DEF WaitInv, EndedOk
  <2>2. CASE Fails("tableFull") BY <2>2, SameWaits DEF Fails
  <2> QED BY <1>5, <2>1, <2>2 DEF OpenPick
<1>6. CASE OpenSpawn(c)
  <2>1. CASE Fails("noThread") BY <2>1, SameWaits DEF Fails
  <2>2. CASE /\ pc' = [pc EXCEPT ![c] = "setId", ![ptr[c]] = "open"]
             /\ UNCHANGED <<op, arg, ptr, live, sess, client, slot, rtspId, fault>>
    <3>1. ptr[c] \in Sessions /\ live = {ptr[c]}
      BY <1>1, <1>6 DEF OpenSpawn, CallerOk, Opening
    <3>2. pc'[ptr[c]] = "open" BY <1>0, <2>2, <3>1
    <3>3. \A d \in Callers : pc'[d] # "wait"
      BY <1>0, <1>2, <2>2, <3>1, ThreadSets
    <3> QED BY <2>2, <3>1, <3>2, <3>3 DEF WaitInv, EndedOk
  <2> QED BY <1>6, <2>1, <2>2 DEF OpenSpawn
<1>7. CASE OpenSetId(c) \/ SetDecode(c) \/ SetCB(c)
  <2>1. PICK l \in {"setSlot", "setCB", "idle"} :
          /\ pc' = [pc EXCEPT ![c] = l] /\ pc[c] \in {"setId", "setDecode", "setCB"}
          /\ UNCHANGED live
    BY <1>7 DEF OpenSetId, SetDecode, SetCB, Goto, Continue
  <2>2. \A s \in Sessions : sess'[s].status = sess[s].status
    <3>1. CASE OpenSetId(c)
      BY <1>0, <3>1 DEF OpenSetId, SessionObject
    <3>2. CASE SetDecode(c)
      BY <1>0, <3>2 DEF SetDecode, SessionObject
    <3>3. CASE SetCB(c)
      BY <1>0, <3>3 DEF SetCB, SessionObject
    <3> QED BY <1>7, <3>1, <3>2, <3>3
  <2> QED BY <1>0, <1>2, <2>1, <2>2, CallerWaits
<1>8. CASE SetThroughBadSlot(c) BY <1>8, SameWaits DEF SetThroughBadSlot, Fails
<1> QED BY <1>3, <1>4, <1>5, <1>6, <1>7, <1>8 DEF WindowCall

LEMMA NextWaitInv ==
  ASSUME TurnInv, TakesTurns', WaitInv, Next
  PROVE  WaitInv'
BY WindowCallWaits, SessionThreadWaits, SessionEventWaits, CallerCloseWaits,
   SessionCloseWaits, ThreadSets DEF Next, Step

-----------------------------------------------------------------------------
(* What holds until two window calls have crossed                          *)
UntilCrossed == crossed \/ (TurnInv /\ NullSlotOk /\ WaitInv)

(* Calls that have crossed stay so, and the step that crosses is seen.     *)
LEMMA CrossedSeen ==
  ASSUME TypeOK, Next
  PROVE  /\ crossed => crossed'
         /\ ~crossed' => TakesTurns'
BY DEF TypeOK, Next, Step

LEMMA NextUntilCrossed ==
  ASSUME TypeOK, UntilCrossed, [Next]_vars
  PROVE  UntilCrossed'
<1>1. CASE UNCHANGED vars
  <2>1. UNCHANGED <<pc, arg, ptr, live, sess, client, slot, rtspId, fault>>
        /\ crossed' = crossed
    BY <1>1 DEF vars
  <2>2. CASE crossed BY <2>1, <2>2 DEF UntilCrossed
  <2>3. CASE TurnInv /\ NullSlotOk /\ WaitInv
    <3>1. IInv' BY <2>3, NextIInv DEF TurnInv
    <3>2. TakesTurns' /\ FirstEntry' /\ TableOk'
      BY <2>1, <2>3 DEF TurnInv, TakesTurns, FirstEntry, TableOk, Resting,
                        Shown, Blank, FirstOpen
    <3>3. \A c \in Callers : CallerOk(c)'
      BY <2>1, <2>3 DEF TurnInv, CallerOk, Shown, Blank, Opening
    <3>4. \A s \in Sessions : ThreadOk(s)' /\ ObjectOk(s)'
      BY <2>1, <2>3 DEF TurnInv, ThreadOk, ObjectOk, AtSpawn, Closing
    <3>5. NullSlotOk' BY <2>1, <2>3 DEF NullSlotOk
    <3>6. WaitInv' BY <2>1, <2>3, SameWaits
    <3> QED BY <2>1, <2>3, <3>1, <3>2, <3>3, <3>4, <3>5, <3>6
            DEF TurnInv, UntilCrossed
  <2> QED BY <2>2, <2>3 DEF UntilCrossed
<1>2. CASE Next
  <2>1. CASE crossed' BY <2>1 DEF UntilCrossed
  <2>2. CASE ~crossed'
    <3>1. ~crossed /\ TakesTurns' BY <1>2, <2>2, CrossedSeen
    <3>2. TurnInv /\ NullSlotOk /\ WaitInv BY <3>1 DEF UntilCrossed
    <3> QED BY <1>2, <3>1, <3>2, NextTurnInv, NextNullSlotOk, NextWaitInv
            DEF UntilCrossed
  <2> QED BY <2>1, <2>2
<1> QED BY <1>1, <1>2

LEMMA UntilCrossedStays == Spec => [](TypeOK /\ UntilCrossed)
<1>1. Init => UntilCrossed
  BY InitTurnInv, InitWaitInv DEF UntilCrossed, NullSlotOk, Init
<1>2. TypeOK /\ UntilCrossed /\ [Next]_vars => UntilCrossed'
  BY NextUntilCrossed
<1>3. Spec => []TypeOK BY TypesStay
<1> QED BY <1>1, <1>2, <1>3, PTL DEF Spec

(* Memory is not misused before two window calls have crossed, except by   *)
(* a handler that overtakes openStream: no thread touches a deleted        *)
(* session or decoder, none is deleted twice, and a stream always finds a  *)
(* free slot, whatever the camera and its session's thread do in between.  *)
THEOREM MisuseNeedsCrossing == Spec => []MemorySafe
<1>1. UntilCrossed => MemorySafe
  BY DEF UntilCrossed, TurnInv, NullSlotOk, MemorySafe
<1> QED BY <1>1, UntilCrossedStays, PTL

(* Before two window calls have crossed, the index that a session's        *)
(* handlers were given leads them to their own session.                    *)
THEOREM OwnStreamUntilCrossed == Spec => [](~crossed => OwnStream)
<1>1. UntilCrossed => (~crossed => OwnStream)
  BY DEF UntilCrossed, TurnInv, OwnStream, ThreadOk, FirstEntry
<1> QED BY <1>1, UntilCrossedStays, PTL

(* No window call waits in vain before two of them have crossed: the       *)
(* session a startVideo or stopVideo waits for exists and has ended, or is *)
(* past its event loop, or will find its watch variable set; only a thread *)
(* that waits for itself can keep it from its end.                         *)
THEOREM WaitsEndUntilCrossed == Spec => []WaitEnds
<1>1. UntilCrossed => WaitEnds
  <2> SUFFICES ASSUME TurnInv, WaitInv, NEW c \in Callers, pc[c] = "wait"
               PROVE  /\ ptr[c] \in live
                      /\ Stopping(ptr[c])
                      /\ pc[ptr[c]] = "wait" => SelfWait(ptr[c])
    BY DEF UntilCrossed, WaitEnds, Stopping
  <2>1. Shown /\ ptr[c] = slot[0] BY DEF TurnInv, CallerOk
  <2>2. ptr[c] \in live BY <2>1 DEF Shown
  <2>3. PICK s \in Sessions : s = ptr[c] BY <2>1 DEF Shown
  <2>4. pc[s] = "wait" => ptr[s] = s BY DEF TurnInv, ThreadOk
  <2> QED BY <2>2, <2>3, <2>4 DEF WaitInv, SelfWait
<1> QED BY <1>1, UntilCrossedStays, PTL

(* Until two window calls have crossed, the sessions are the one camera of *)
(* the abstract specification: opened, run, listed, ended, deleted, taken  *)
(* off, and only then followed by the next one.                            *)
THEOREM OneCameraUntilCrossed == Spec => IsCamera
<1>1. Init => OneAtATime!Init
  BY ThreadSets DEF Init, OneAtATime!Init, Running
<1>2. TypeOK /\ UntilCrossed /\ [Next]_vars
        => [OneAtATime!Next]_(OneAtATime!vars)
  <2> SUFFICES ASSUME TypeOK, UntilCrossed, [Next]_vars
               PROVE  OneAtATime!Next \/ (CameraSame /\ UNCHANGED crossed)
    BY DEF CameraSame, OneAtATime!vars, RunningNow, ListedNow
  <2>1. CASE UNCHANGED vars
    BY <2>1 DEF vars, CameraSame, RunningNow, ListedNow, Running
  <2>2. CASE Next /\ crossed' BY <2>2 DEF OneAtATime!Next
  <2>3. CASE Next /\ ~crossed'
    <3>1. ~crossed BY <2>3, CrossedSeen
    <3>2. UNCHANGED crossed
      <4>1. crossed' \in BOOLEAN /\ crossed \in BOOLEAN
        BY <2>3 DEF Next, Step, TypeOK
      <4> QED BY <2>3, <3>1, <4>1
    <3>3. TurnInv BY <3>1 DEF UntilCrossed
    <3> QED BY <2>3, <3>1, <3>2, <3>3, WindowCallCamera, SessionThreadCamera,
               SessionEventCamera, CloseStreamCamera DEF Next, Step
  <2> QED BY <2>1, <2>2, <2>3
<1> QED BY <1>1, <1>2, UntilCrossedStays, PTL DEF Spec, IsCamera, OneAtATime!Spec

-----------------------------------------------------------------------------
(* Threads that wait for themselves                                        *)
SelfWaitKept(s) ==
  SelfWait(s) =>
    /\ SelfWait(s)' /\ s \in live'
    /\ \A c \in Callers : pc[c] = "wait" => pc'[c] = "wait"

LEMMA SelfWaitLive ==
  ASSUME TurnInv, NEW s \in Sessions, SelfWait(s)
  PROVE  /\ pc[s] = "wait" /\ ptr[s] = s /\ s \in live /\ slot[0] = s
         /\ sess[s].status = 1 /\ live = {s} /\ ~AtSpawn
<1>1. pc[s] = "wait" /\ ptr[s] = s BY DEF SelfWait
<1>2. s \in live /\ slot[0] = s /\ sess[s].status = 1
  BY <1>1 DEF TurnInv, ThreadOk
<1>3. live = {s} BY <1>2, OneLive
<1>4. ~AtSpawn
  BY <1>2, ThreadSets DEF AtSpawn, TurnInv, CallerOk, Opening
<1> QED BY <1>1, <1>2, <1>3, <1>4

(* A thread that stays where it is keeps waiting as long as its object is  *)
(* there and no window call leaves "wait".                                 *)
LEMMA SelfWaitFrame ==
  ASSUME TurnInv, NEW s \in Sessions, SelfWait(s),
         NEW t \in Threads, t # s, NEW l, pc' = [pc EXCEPT ![t] = l],
         ptr'[s] = ptr[s], s \in live',
         t \in Callers => pc[t] # "wait"
  PROVE  SelfWaitKept(s)
<1>0. /\ pc \in [Threads -> CallerPc \cup SessionPc]
      /\ Callers \subseteq Threads /\ Sessions \subseteq Threads
  BY ThreadSets DEF TurnInv, IInv, TypeOK
<1>1. pc'[s] = pc[s] BY <1>0
<1>2. \A c \in Callers : pc[c] = "wait" => pc'[c] = "wait" BY <1>0
<1> QED BY <1>1, <1>2 DEF SelfWait, SelfWaitKept

LEMMA SelfWaitSame ==
  ASSUME TurnInv, NEW s \in Sessions, UNCHANGED <<pc, ptr, live>>
  PROVE  SelfWaitKept(s)
BY SelfWaitLive DEF SelfWaitKept, SelfWait

LEMMA SelfWaitBySessions ==
  ASSUME TurnInv, NEW s \in Sessions, NEW r \in Sessions,
         SessionThread(r) \/ SessionEvent(r)
  PROVE  SelfWaitKept(s)
<1> SUFFICES ASSUME SelfWait(s) PROVE SelfWaitKept(s) BY DEF SelfWaitKept
<1>0. r \in Threads /\ r \notin Callers BY ThreadSets
<1>1. pc[s] = "wait" /\ s \in live BY SelfWaitLive
<1>2. CASE \E what : Fails(what) BY <1>2, SelfWaitSame DEF Fails
<1>3. ASSUME NEW l, pc' = [pc EXCEPT ![r] = l], pc[r] # "wait",
             UNCHANGED <<ptr, live>>
      PROVE  SelfWaitKept(s)
  BY <1>0, <1>1, <1>3, SelfWaitFrame
<1>4. CASE SessionThread(r)
  BY <1>2, <1>3, <1>4 DEF SessionThread, ThreadOpen, ThreadEnter, LoopPoll,
     LoopExit, PollIdle, ThreadShutdown, ThreadFinish, ThreadDangling, Goto
<1>5. CASE AfterDescribe(r) \/ AfterSetup(r) \/ AfterPlay(r)
  BY <1>3, <1>5 DEF AfterDescribe, AfterSetup, AfterPlay, Handled, Goto,
                    FatalShutdown
<1>6. CASE SubsessionEnds(r) \/ StreamTimer(r)
  BY <1>3, <1>6 DEF SubsessionEnds, StreamTimer, Handled, Goto, FatalShutdown
<1>7. CASE FrameArrives(r) \/ FrameDecode(r)
  BY <1>2, <1>3, <1>7 DEF FrameArrives, FrameDecode
<1> QED BY <1>4, <1>5, <1>6, <1>7 DEF SessionEvent

LEMMA SelfWaitByClosers ==
  ASSUME TurnInv, NEW s \in Sessions, NEW t \in Threads, CloseStream(t)
  PROVE  SelfWaitKept(s)
<1> SUFFICES ASSUME SelfWait(s) PROVE SelfWaitKept(s) BY DEF SelfWaitKept
<1>0. /\ Threads = Callers \cup Sessions /\ Callers \cap Sessions = {}
      /\ ptr \in [Threads -> Sessions \cup {NULL}]
  BY ThreadSets DEF TurnInv, IInv, TypeOK
<1>1. /\ pc[s] = "wait" /\ ptr[s] = s /\ s \in live /\ slot[0] = s
      /\ sess[s].status = 1 /\ live = {s}
  BY SelfWaitLive
<1>2. t \in Callers => CallerOk(t) BY DEF TurnInv
<1>3. t \in Sessions => ThreadOk(t) BY DEF TurnInv
<1>4. CASE CloseLookup(t)
  BY <1>0, <1>1, <1>4, SelfWaitFrame DEF CloseLookup, Continue
<1>5. CASE StopClient(t)
  BY <1>0, <1>1, <1>5, SelfWaitFrame DEF StopClient, Goto
<1>6. ~SeeEnded(t)
  <2>1. ASSUME SeeEnded(t) PROVE FALSE
    <3>1. pc[t] = "wait" /\ ptr[t] \in live /\ sess[ptr[t]].status = 2
      BY <2>1 DEF SeeEnded, Goto
    <3> QED BY <1>1, <3>1
  <2> QED BY <2>1
<1>7. ~DeleteSession(t)
  <2>1. ASSUME DeleteSession(t) PROVE FALSE
    <3>1. pc[t] = "delete" BY <2>1 DEF DeleteSession, Goto
    <3>2. CASE t \in Callers BY <1>1, <1>2, <3>1, <3>2 DEF CallerOk
    <3>3. CASE t \in Sessions BY <1>3, <3>1, <3>3 DEF ThreadOk
    <3> QED BY <1>0, <3>2, <3>3
  <2> QED BY <2>1
<1>8. CASE ClearSlot(t)
  BY <1>0, <1>1, <1>8, SelfWaitFrame DEF ClearSlot, Continue
<1>9. CASE CloseDangling(t) BY <1>9, SelfWaitSame DEF CloseDangling, Fails
<1> QED BY <1>4, <1>5, <1>6, <1>7, <1>8, <1>9 DEF CloseStream

LEMMA SelfWaitByCallers ==
  ASSUME TurnInv, NEW s \in Sessions, NEW c \in Callers, WindowCall(c)
  PROVE  SelfWaitKept(s)
<1> SUFFICES ASSUME SelfWait(s) PROVE SelfWaitKept(s) BY DEF SelfWaitKept
<1>0. /\ c \in Threads /\ c # s /\ s \in Threads
      /\ ptr \in [Threads -> Sessions \cup {NULL}]
  BY ThreadSets DEF TurnInv, IInv, TypeOK
<1>1. /\ pc[s] = "wait" /\ s \in live /\ slot[0] = s /\ live = {s} /\ ~AtSpawn
  BY SelfWaitLive
<1>2. CallerOk(c) BY DEF TurnInv
<1>3. ASSUME NEW l, pc' = [pc EXCEPT ![c] = l], pc[c] # "wait",
             ptr'[s] = ptr[s], live \subseteq live'
      PROVE  SelfWaitKept(s)
  BY <1>0, <1>1, <1>3, SelfWaitFrame
<1>4. CASE StartVideo(c) \/ StopVideo(c)
  BY <1>3, <1>4 DEF StartVideo, StopVideo, Goto
<1>5. CASE ReplaceDecoder(c) \/ OpenSetId(c) \/ OpenReturn(c) \/ SetDecode(c)
  BY <1>3, <1>5 DEF ReplaceDecoder, OpenSetId, OpenReturn, SetDecode, Goto
<1>6. CASE OpenPick(c)
  <2>1. CASE Goto(c, "pick", "spawn")
    BY <1>1, <1>2, <2>1 DEF Goto, CallerOk, Blank
  <2>2. CASE Fails("tableFull") BY <2>2, SelfWaitSame DEF Fails
  <2> QED BY <1>6, <2>1, <2>2 DEF OpenPick
<1>7. ~OpenSpawn(c) BY <1>1 DEF OpenSpawn, AtSpawn
<1>8. CASE OpenSetSlot(c)
  BY <1>0, <1>3, <1>8 DEF OpenSetSlot, Goto
<1>9. CASE SetCB(c) BY <1>3, <1>9 DEF SetCB, Continue
<1>10. CASE SetThroughBadSlot(c)
  BY <1>10, SelfWaitSame DEF SetThroughBadSlot, Fails
<1> QED BY <1>4, <1>5, <1>6, <1>7, <1>8, <1>9, <1>10 DEF WindowCall

(* For as long as no two window calls cross, a session's thread that waits *)
(* for itself does so for ever, its session stays, and so does a window    *)
(* call that waits for it: the fatal events of a camera lose the session   *)
(* for good and make the next startVideo or stopVideo hang.                *)
THEOREM SelfWaitStaysUntilCrossed == Spec => SelfWaitStays
<1>1. TypeOK /\ UntilCrossed /\ [Next]_vars =>
        [\A s \in Sessions : SelfWait(s) /\ ~crossed' =>
           /\ SelfWait(s)' /\ s \in live'
           /\ \A c \in Callers : pc[c] = "wait" => pc'[c] = "wait"]_vars
  <2> SUFFICES ASSUME TypeOK, UntilCrossed, Next, NEW s \in Sessions, ~crossed'
               PROVE  SelfWaitKept(s)
    BY DEF SelfWaitKept
  <2>1. TurnInv BY CrossedSeen DEF UntilCrossed
  <2> QED BY <2>1, SelfWaitByCallers, SelfWaitBySessions, SelfWaitByClosers
          DEF Next, Step
<1> QED BY <1>1, UntilCrossedStays, PTL DEF Spec, SelfWaitStays

-----------------------------------------------------------------------------
(* What follows from being one camera                                      *)
LEMMA CameraNextOne ==
  ASSUME OneAtATime!AtMostOne, [OneAtATime!Next]_(OneAtATime!vars)
  PROVE  OneAtATime!AtMostOne'
<1>1. CASE UNCHANGED OneAtATime!vars
  BY <1>1 DEF OneAtATime!vars, OneAtATime!AtMostOne
<1>2. ASSUME NEW s \in Sessions, OneAtATime!Open(s) \/ OneAtATime!Start(s)
      PROVE  OneAtATime!AtMostOne'
  BY <1>2 DEF OneAtATime!Open, OneAtATime!Start, OneAtATime!AtMostOne
<1>3. ASSUME NEW s \in Sessions, OneAtATime!List(s) \/ OneAtATime!End(s)
      PROVE  OneAtATime!AtMostOne'
  BY <1>3 DEF OneAtATime!List, OneAtATime!End, OneAtATime!AtMostOne
<1>4. ASSUME NEW s \in Sessions, OneAtATime!Delete(s) \/ OneAtATime!TakeOff(s)
      PROVE  OneAtATime!AtMostOne'
  BY <1>4 DEF OneAtATime!Delete, OneAtATime!TakeOff, OneAtATime!AtMostOne
<1>5. CASE crossed' BY <1>5 DEF OneAtATime!AtMostOne
<1> QED BY <1>1, <1>2, <1>3, <1>4, <1>5 DEF OneAtATime!Next

(* Until two window calls have crossed there is one session at most: the   *)
(* one that is allocated, the one whose thread runs and the one in the     *)
(* table are the same, and no thread runs without its session.             *)
THEOREM OneSessionUntilCrossed == Spec => []OneAtATime!AtMostOne
<1>1. Spec => OneAtATime!Spec BY OneCameraUntilCrossed DEF IsCamera
<1>2. OneAtATime!Init => OneAtATime!AtMostOne
  BY DEF OneAtATime!Init, OneAtATime!AtMostOne
<1>3. OneAtATime!Spec => []OneAtATime!AtMostOne
  BY <1>2, CameraNextOne, PTL DEF OneAtATime!Spec
<1> QED BY <1>1, <1>3
=============================================================================
