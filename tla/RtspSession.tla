---------------------------- MODULE RtspSession ----------------------------
(***************************************************************************)
(* The camera side of the client: the table of RTSP sessions (rtspAPI),    *)
(* one session object with its own event-loop thread (CRTSPSession), the   *)
(* response handlers that run on that thread (RTSPStream.cpp), and the     *)
(* video window's startVideo / stopVideo, which the user interface thread  *)
(* calls for a button and the SIP worker thread for a PLAY message.        *)
(*                                                                         *)
(* Nothing in this code is locked.  A step is one access to state another  *)
(* thread can see; what touches only locals is folded into it.  The        *)
(* undefined outcomes of the code (a member read through a null slot, a    *)
(* deleted session, a session without decoder) set "fault" and end the     *)
(* behaviour.                                                              *)
(***************************************************************************)
EXTENDS Integers, FiniteSets

CONSTANTS
  UI,        (* the user interface thread: startVideo and stopVideo        *)
  Workers,   (* SIP worker threads: startVideo, for a PLAY message         *)
  Sessions,  (* addresses a CRTSPSession object can be allocated at        *)
  MaxRtsp,   (* length of rtspAPI::m_rtsp, MAX_RTSP in the source          *)
  MaxSub,    (* bound: media lines in a camera's session description       *)
  NULL

ASSUME ConstantsAssumption ==
  /\ UI \notin Workers \cup Sessions
  /\ Workers \cap Sessions = {}
  /\ NULL \notin {UI} \cup Workers \cup Sessions
  /\ MaxRtsp \in Nat \ {0}
  /\ MaxSub \in Nat

VARIABLES
  pc,      (* where each thread is; a session's thread is named after it   *)
  op,      (* [Callers]: the window call in progress                       *)
  arg,     (* local of each thread: the slot index it works on             *)
  ptr,     (* local of each thread: pRtsp                                  *)
  live,    (* the sessions allocated and not deleted                       *)
  sess,    (* members of each session object                               *)
  client,  (* the ourRTSPClient of each session and its StreamClientState  *)
  slot,    (* rtspAPI::m_rtsp                                              *)
  rtspId,  (* CVideoWnd::m_nRtspID                                         *)
  fault,   (* the undefined behaviour met, if any                          *)
  crossed  (* history: were two window calls ever in progress at once?     *)

vars == <<pc, op, arg, ptr, live, sess, client, slot, rtspId, fault, crossed>>

Callers == {UI} \cup Workers
Threads == Callers \cup Sessions
Slots   == 0 .. MaxRtsp - 1
Subs    == 1 .. MaxSub

CallerPc  == {"idle", "close", "stop", "wait", "delete", "clear", "decoder",
              "pick", "spawn", "setId", "setSlot", "return", "setDecode",
              "setCB"}
SessionPc == {"none", "open", "enter", "loop", "poll", "frame", "close",
              "stop", "wait", "delete", "clear", "shutdown", "finish", "done"}
Faults    == {"none", "nullSlot", "tableFull", "noThread", "useAfterFree",
              "doubleDelete", "noDecoder", "staleDecoder"}

Phases == {"none", "describe", "setup", "play", "playing"}

SessionObject == [status : 0 .. 2, watch : BOOLEAN, nID : Slots,
                  decode : {"none", "current", "stale"}, cb : BOOLEAN]
ClientObject  == [nID : Slots, phase : Phases, nsub : 0 .. MaxSub,
                  cur : 0 .. MaxSub, sinks : SUBSET Subs, timer : BOOLEAN]

NewSession == [status |-> 0, watch |-> FALSE, nID |-> 0, decode |-> "none",
               cb |-> FALSE]
NoClient   == [nID |-> 0, phase |-> "none", nsub |-> 0, cur |-> 0,
               sinks |-> {}, timer |-> FALSE]

TypeOK ==
  /\ pc \in [Threads -> CallerPc \cup SessionPc]
  /\ \A c \in Callers : pc[c] \in CallerPc
  /\ \A s \in Sessions : pc[s] \in SessionPc
  /\ op \in [Callers -> {"none", "start", "stop"}]
  /\ arg \in [Threads -> Slots]
  /\ ptr \in [Threads -> Sessions \cup {NULL}]
  /\ live \in SUBSET Sessions
  /\ sess \in [Sessions -> SessionObject]
  /\ client \in [Sessions -> ClientObject]
  /\ slot \in [Slots -> Sessions \cup {NULL}]
  /\ rtspId \in -1 .. MaxRtsp - 1
  /\ fault \in Faults
  /\ crossed \in BOOLEAN

Init ==
  /\ pc = [t \in Threads |-> IF t \in Callers THEN "idle" ELSE "none"]
  /\ op = [c \in Callers |-> "none"]
  /\ arg = [t \in Threads |-> 0]
  /\ ptr = [t \in Threads |-> NULL]
  /\ live = {}
  /\ sess = [s \in Sessions |-> NewSession]
  /\ client = [s \in Sessions |-> NoClient]
  /\ slot = [i \in Slots |-> NULL]
  /\ rtspId = -1
  /\ fault = "none"
  /\ crossed = FALSE

-----------------------------------------------------------------------------
(* Thread t moves from one label to the next.                              *)
Goto(t, from, to) == pc[t] = from /\ pc' = [pc EXCEPT ![t] = to]

(* Thread t meets undefined behaviour; nothing after it is modelled.       *)
Fails(what) ==
  /\ fault' = what
  /\ UNCHANGED <<pc, op, arg, ptr, live, sess, client, slot, rtspId>>

(* Thread t goes on to label "to"; the locals end with a window call, and  *)
(* with closeStream for a session's thread.                                *)
Continue(t, to) ==
  /\ pc' = [pc EXCEPT ![t] = to]
  /\ op' = [c \in Callers |-> IF c = t /\ to = "idle" THEN "none" ELSE op[c]]
  /\ arg' = [arg EXCEPT ![t] = IF to = "stop" THEN @ ELSE 0]

(* Where closeStream returns to: startVideo goes on with its decoder, the  *)
(* handler of a session's thread returns to the event loop.                *)
AfterClose(t) ==
  CASE t \in Sessions    -> "loop"
    [] t \in Callers /\ op[t] = "start" -> "decoder"
    [] OTHER             -> "idle"

-----------------------------------------------------------------------------
(* rtspAPI::closeStream, called by a window call or by a session's thread  *)

CloseLookup(t) ==
  /\ pc[t] = "close"
  /\ ptr' = [ptr EXCEPT ![t] = slot[arg[t]]]
  /\ Continue(t, IF slot[arg[t]] = NULL THEN AfterClose(t) ELSE "stop")
  /\ UNCHANGED <<live, sess, client, slot, rtspId, fault>>

(* Mutation: the stop is only seen by a session that already runs.         *)
StopClientIfRunning(t) ==
  /\ Goto(t, "stop", "wait")
  /\ ptr[t] \in live
  /\ sess' = [sess EXCEPT ![ptr[t]].watch = @ \/ sess[ptr[t]].status = 1]
  /\ UNCHANGED <<op, arg, ptr, live, client, slot, rtspId, fault>>

(* stopRTSPClient: no flag for a session whose loop has already ended.     *)
StopClient(t) ==
  /\ Goto(t, "stop", "wait")
  /\ ptr[t] \in live
  /\ sess' = [sess EXCEPT ![ptr[t]].watch = @ \/ sess[ptr[t]].status # 2]
  /\ UNCHANGED <<op, arg, ptr, live, client, slot, rtspId, fault>>

(* Mutation: closeStream gives up on a thread that has not ended yet.      *)
SeeEndedOrGiveUp(t) ==
  /\ Goto(t, "wait", IF sess[ptr[t]].status = 2 THEN "delete" ELSE "clear")
  /\ ptr[t] \in live
  /\ UNCHANGED <<op, arg, ptr, live, sess, client, slot, rtspId, fault>>

(* One pass of while(1): CheckStatus() == 2.  Other passes are stutters.   *)
SeeEnded(t) ==
  /\ Goto(t, "wait", "delete")
  /\ ptr[t] \in live
  /\ sess[ptr[t]].status = 2
  /\ UNCHANGED <<op, arg, ptr, live, sess, client, slot, rtspId, fault>>

DeleteSession(t) ==
  /\ Goto(t, "delete", "clear")
  /\ ptr[t] \in live
  /\ live' = live \ {ptr[t]}
  /\ sess' = [sess EXCEPT ![ptr[t]] = NewSession]
  /\ ptr' = [ptr EXCEPT ![t] = NULL]
  /\ UNCHANGED <<op, arg, client, slot, rtspId, fault>>

ClearSlot(t) ==
  /\ pc[t] = "clear"
  /\ Continue(t, AfterClose(t))
  /\ slot' = [slot EXCEPT ![arg[t]] = NULL]
  /\ UNCHANGED <<ptr, live, sess, client, rtspId, fault>>

(* The session this closer still points to was deleted by another closer.  *)
CloseDangling(t) ==
  /\ pc[t] \in {"stop", "wait", "delete"}
  /\ ptr[t] \notin live
  /\ Fails(IF pc[t] = "delete" THEN "doubleDelete" ELSE "useAfterFree")

CloseStream(t) ==
  \/ CloseLookup(t) \/ StopClient(t) \/ SeeEnded(t)
  \/ DeleteSession(t) \/ ClearSlot(t) \/ CloseDangling(t)

-----------------------------------------------------------------------------
(* CVideoWnd::startVideo and stopVideo                                     *)

StartVideo(c) ==
  /\ Goto(c, "idle", IF rtspId >= 0 THEN "close" ELSE "decoder")
  /\ op' = [op EXCEPT ![c] = "start"]
  /\ arg' = [arg EXCEPT ![c] = IF rtspId >= 0 THEN rtspId ELSE @]
  /\ UNCHANGED <<ptr, live, sess, client, slot, rtspId, fault>>

StopVideo(c) ==
  /\ c = UI
  /\ rtspId >= 0
  /\ Goto(c, "idle", "close")
  /\ op' = [op EXCEPT ![c] = "stop"]
  /\ arg' = [arg EXCEPT ![c] = rtspId]
  /\ UNCHANGED <<ptr, live, sess, client, slot, rtspId, fault>>

(* delete m_pDecode; m_pDecode = new CFfmpegDecode: every session that     *)
(* still has the old one is left with a deleted decoder.                   *)
ReplaceDecoder(c) ==
  /\ Goto(c, "decoder", "pick")
  /\ sess' = [s \in Sessions |-> [sess[s] EXCEPT
                !.decode = IF @ = "current" THEN "stale" ELSE @]]
  /\ UNCHANGED <<op, arg, ptr, live, client, slot, rtspId, fault>>

(* openStream: the first free slot and a new session object.  With every   *)
(* slot taken it returns -1 and startVideo writes through m_rtsp[-1].      *)
OpenPick(c) ==
  LET free == {i \in Slots : slot[i] = NULL}
  IN \/ /\ Goto(c, "pick", "spawn")
        /\ \E i \in free, s \in Sessions \ live :
             /\ \A j \in free : i <= j
             /\ pc[s] \in {"none", "done"}
             /\ arg' = [arg EXCEPT ![c] = i]
             /\ ptr' = [ptr EXCEPT ![c] = s]
             /\ live' = live \cup {s}
             /\ sess' = [sess EXCEPT ![s] = NewSession]
        /\ UNCHANGED <<op, client, slot, rtspId, fault>>
     \/ /\ pc[c] = "pick" /\ free = {}
        /\ Fails("tableFull")

(* startRTSPClient: the thread runs before its session has id or slot.  A  *)
(* failing pthread_create makes openStream return -2, an index as well.    *)
OpenSpawn(c) ==
  \/ /\ pc[c] = "spawn"
     /\ pc' = [pc EXCEPT ![c] = "setId", ![ptr[c]] = "open"]
     /\ UNCHANGED <<op, arg, ptr, live, sess, client, slot, rtspId, fault>>
  \/ /\ pc[c] = "spawn"
     /\ Fails("noThread")

OpenSetId(c) ==
  /\ Goto(c, "setId", "setSlot")
  /\ sess' = [sess EXCEPT ![ptr[c]].nID = arg[c]]
  /\ UNCHANGED <<op, arg, ptr, live, client, slot, rtspId, fault>>

OpenSetSlot(c) ==
  /\ Goto(c, "setSlot", "return")
  /\ slot' = [slot EXCEPT ![arg[c]] = ptr[c]]
  /\ ptr' = [ptr EXCEPT ![c] = NULL]
  /\ UNCHANGED <<op, arg, live, sess, client, rtspId, fault>>

OpenReturn(c) ==
  /\ Goto(c, "return", "setDecode")
  /\ rtspId' = arg[c]
  /\ arg' = [arg EXCEPT ![c] = 0]
  /\ UNCHANGED <<op, ptr, live, sess, client, slot, fault>>

(* Mutation: the new session is not given the new decoder.                 *)
SetDecodeForgotten(c) ==
  /\ Goto(c, "setDecode", "setCB")
  /\ slot[rtspId] \in live
  /\ UNCHANGED <<op, arg, ptr, live, sess, client, slot, rtspId, fault>>

(* m_rtsp[m_nRtspID]->m_pDecode = m_pDecode, then ->m_pCB = this.          *)
SetDecode(c) ==
  /\ Goto(c, "setDecode", "setCB")
  /\ slot[rtspId] \in live
  /\ sess' = [sess EXCEPT ![slot[rtspId]].decode = "current"]
  /\ UNCHANGED <<op, arg, ptr, live, client, slot, rtspId, fault>>

SetCB(c) ==
  /\ pc[c] = "setCB"
  /\ Continue(c, "idle")
  /\ slot[rtspId] \in live
  /\ sess' = [sess EXCEPT ![slot[rtspId]].cb = TRUE]
  /\ UNCHANGED <<ptr, live, client, slot, rtspId, fault>>

SetThroughBadSlot(c) ==
  /\ pc[c] \in {"setDecode", "setCB"}
  /\ slot[rtspId] \notin live
  /\ Fails(IF slot[rtspId] = NULL THEN "nullSlot" ELSE "useAfterFree")

WindowCall(c) ==
  \/ StartVideo(c) \/ StopVideo(c) \/ ReplaceDecoder(c)
  \/ OpenPick(c) \/ OpenSpawn(c) \/ OpenSetId(c) \/ OpenSetSlot(c)
  \/ OpenReturn(c) \/ SetDecode(c) \/ SetCB(c) \/ SetThroughBadSlot(c)

-----------------------------------------------------------------------------
(* rtsp_fun, the thread of session s                                       *)

(* openURL copies m_nID into the RTSP client and sends DESCRIBE.           *)
ThreadOpen(s) ==
  /\ Goto(s, "open", "enter")
  /\ s \in live
  /\ client' = [client EXCEPT ![s] =
                  [NoClient EXCEPT !.nID = sess[s].nID, !.phase = "describe"]]
  /\ UNCHANGED <<op, arg, ptr, live, sess, slot, rtspId, fault>>

(* Mutation: the thread itself resets the watch variable when it starts.   *)
ThreadEnterResets(s) ==
  /\ Goto(s, "enter", "loop")
  /\ s \in live
  /\ sess' = [sess EXCEPT ![s].status = 1, ![s].watch = FALSE]
  /\ UNCHANGED <<op, arg, ptr, live, client, slot, rtspId, fault>>

ThreadEnter(s) ==
  /\ Goto(s, "enter", "loop")
  /\ s \in live
  /\ sess' = [sess EXCEPT ![s].status = 1]
  /\ UNCHANGED <<op, arg, ptr, live, client, slot, rtspId, fault>>

(* doEventLoop tests the watch variable before each SingleStep only.       *)
LoopPoll(s) ==
  /\ Goto(s, "loop", "poll")
  /\ s \in live /\ ~sess[s].watch
  /\ UNCHANGED <<op, arg, ptr, live, sess, client, slot, rtspId, fault>>

LoopExit(s) ==
  /\ Goto(s, "loop", "shutdown")
  /\ s \in live /\ sess[s].watch
  /\ sess' = [sess EXCEPT ![s].watch = FALSE]
  /\ UNCHANGED <<op, arg, ptr, live, client, slot, rtspId, fault>>

(* SingleStep returns without an event after the scheduler's granularity.  *)
PollIdle(s) ==
  /\ Goto(s, "poll", "loop")
  /\ UNCHANGED <<op, arg, ptr, live, sess, client, slot, rtspId, fault>>

(* shutdownStream(rtspClient, 0)                                           *)
ThreadShutdown(s) ==
  /\ Goto(s, "shutdown", "finish")
  /\ s \in live
  /\ client' = [client EXCEPT ![s] = NoClient]
  /\ UNCHANGED <<op, arg, ptr, live, sess, slot, rtspId, fault>>

ThreadFinish(s) ==
  /\ Goto(s, "finish", "done")
  /\ s \in live
  /\ sess' = [sess EXCEPT ![s].status = 2]
  /\ UNCHANGED <<op, arg, ptr, live, client, slot, rtspId, fault>>

(* The thread outlives its session object.                                 *)
ThreadDangling(s) ==
  /\ pc[s] \in {"open", "enter", "loop", "shutdown", "finish"}
  /\ s \notin live
  /\ Fails("useAfterFree")

-----------------------------------------------------------------------------
(* The response handlers, one event of SingleStep each                     *)

(* shutdownStream(rtspClient, exitCode # 0) on the thread of s: nothing    *)
(* but IPNC_CloseStream(m_nID) of the client.                              *)
FatalShutdown(s) ==
  /\ pc' = [pc EXCEPT ![s] = "close"]
  /\ arg' = [arg EXCEPT ![s] = client[s].nID]

(* Mutation: the iterator runs one past the last subsession.               *)
SetupNextPastEnd(k) ==
  {[k EXCEPT !.phase = "setup", !.cur = j] : j \in k.cur + 1 .. k.nsub + 1}
    \cup {[k EXCEPT !.phase = "play"]}

(* setupNextSubsession: the next subsession that can be initiated gets a   *)
(* SETUP; when none is left a PLAY is sent, whatever was set up.           *)
SetupNext(k) ==
  {[k EXCEPT !.phase = "setup", !.cur = j] : j \in k.cur + 1 .. k.nsub}
    \cup {[k EXCEPT !.phase = "play"]}

Handled(s) == Goto(s, "poll", "loop")

AfterDescribe(s) ==
  /\ client[s].phase = "describe"
  /\ \/ /\ Handled(s)
        /\ \E n \in Subs : \E k \in SetupNext([client[s] EXCEPT !.nsub = n]) :
             client' = [client EXCEPT ![s] = k]
        /\ UNCHANGED arg
     \/ /\ pc[s] = "poll"         (* error reply, no or an empty session *)
        /\ FatalShutdown(s)
        /\ client' = [client EXCEPT ![s].phase = "none"]
  /\ UNCHANGED <<op, ptr, live, sess, slot, rtspId, fault>>

(* Only an H.264 video subsession that was set up gets a sink; the others  *)
(* and the failed ones are skipped.                                        *)
AfterSetup(s) ==
  /\ client[s].phase = "setup"
  /\ Handled(s)
  /\ \E new \in {{}, {client[s].cur}} :
       \E k \in SetupNext([client[s] EXCEPT !.sinks = @ \cup new]) :
         client' = [client EXCEPT ![s] = k]
  /\ UNCHANGED <<op, arg, ptr, live, sess, slot, rtspId, fault>>

AfterPlay(s) ==
  /\ client[s].phase = "play"
  /\ \/ /\ Handled(s)
        /\ \E timed \in BOOLEAN :
             client' = [client EXCEPT ![s].phase = "playing", ![s].timer = timed]
        /\ UNCHANGED arg
     \/ /\ pc[s] = "poll"
        /\ FatalShutdown(s)
        /\ client' = [client EXCEPT ![s].phase = "none"]
  /\ UNCHANGED <<op, ptr, live, sess, slot, rtspId, fault>>

(* subsessionAfterPlaying, for a source that closed or an RTCP BYE.        *)
SubsessionEnds(s) ==
  /\ pc[s] = "poll"
  /\ \E j \in client[s].sinks :
       /\ client' = [client EXCEPT ![s].sinks = @ \ {j}]
       /\ IF client[s].sinks = {j} THEN FatalShutdown(s)
                                   ELSE Handled(s) /\ UNCHANGED arg
  /\ UNCHANGED <<op, ptr, live, sess, slot, rtspId, fault>>

StreamTimer(s) ==
  /\ pc[s] = "poll"
  /\ client[s].timer
  /\ client' = [client EXCEPT ![s].timer = FALSE]
  /\ FatalShutdown(s)
  /\ UNCHANGED <<op, ptr, live, sess, slot, rtspId, fault>>

(* DummySink::afterGettingFrame looks its session up by index: first the   *)
(* callback (which sends the frame as RTP), then the decoder.              *)
FrameArrives(s) ==
  LET p == slot[client[s].nID]
  IN /\ pc[s] = "poll"
     /\ client[s].sinks # {}
     /\ IF p \in live
        THEN /\ pc' = [pc EXCEPT ![s] = IF sess[p].cb THEN "frame" ELSE "loop"]
             /\ UNCHANGED <<op, arg, ptr, live, sess, client, slot, rtspId,
                            fault>>
        ELSE Fails(IF p = NULL THEN "nullSlot" ELSE "useAfterFree")

FrameDecode(s) ==
  LET p == slot[client[s].nID]
      badDecoder == [none |-> "noDecoder", stale |-> "staleDecoder"]
  IN /\ pc[s] = "frame"
     /\ IF p \in live /\ sess[p].decode = "current"
        THEN /\ pc' = [pc EXCEPT ![s] = "loop"]
             /\ UNCHANGED <<op, arg, ptr, live, sess, client, slot, rtspId,
                            fault>>
        ELSE Fails(IF p \in live THEN badDecoder[sess[p].decode]
                   ELSE IF p = NULL THEN "nullSlot" ELSE "useAfterFree")

SessionEvent(s) ==
  \/ AfterDescribe(s) \/ AfterSetup(s) \/ AfterPlay(s)
  \/ SubsessionEnds(s) \/ StreamTimer(s) \/ FrameArrives(s) \/ FrameDecode(s)

SessionThread(s) ==
  \/ ThreadOpen(s) \/ ThreadEnter(s) \/ LoopPoll(s) \/ LoopExit(s)
  \/ PollIdle(s) \/ ThreadShutdown(s) \/ ThreadFinish(s) \/ ThreadDangling(s)

-----------------------------------------------------------------------------
(* While window calls take turns there is never more than one in progress. *)
TakesTurns ==
  \A c, d \in Callers : pc[c] # "idle" /\ pc[d] # "idle" => c = d

(* No guard makes the calls take turns: the user interface and a SIP       *)
(* worker may enter whenever they like.  The step only records that one    *)
(* entered while another was inside.                                       *)
Step(A) == fault = "none" /\ A /\ crossed' = (crossed \/ ~TakesTurns')

Next ==
  \/ \E c \in Callers : Step(WindowCall(c))
  \/ \E s \in Sessions : Step(SessionThread(s) \/ SessionEvent(s))
  \/ \E t \in Threads : Step(CloseStream(t))

(* Every thread that can run does: the scheduler is preemptive, and a      *)
(* SingleStep ends by itself, so a session's loop keeps testing its flag.  *)
(* No user or server has to act: StartVideo, StopVideo and the handlers    *)
(* are not fair on their own.                                              *)
Fairness ==
  /\ \A c \in Callers :
       WF_vars(pc[c] # "idle" /\ Step(WindowCall(c) \/ CloseStream(c)))
  /\ \A s \in Sessions :
       WF_vars(Step(SessionThread(s) \/ CloseStream(s) \/ FrameDecode(s)))

Spec     == Init /\ [][Next]_vars
FairSpec == Spec /\ Fairness

-----------------------------------------------------------------------------
(* Properties.  What the calls promise ends when two of them cross, and    *)
(* each property says so; that they may cross is part of every run.        *)

Running(s) == pc[s] \notin {"none", "done"}

(* The thread of s waits, in closeStream, for its own status to become 2.  *)
SelfWait(s) == pc[s] = "wait" /\ ptr[s] = s

(* Memory is misused in one place only before two window calls have        *)
(* crossed: a handler that looks its entry up before openStream, which is  *)
(* still on its way from starting the thread to setting the entry, has     *)
(* written it (and a thread that could not be created).  No deleted        *)
(* session or decoder is used, none is deleted twice, and the table has a  *)
(* free entry whenever a stream is opened: startVideo closes the stream    *)
(* before it replaces the decoder, closeStream waits for status 2, and a   *)
(* new session gets its decoder before its callback.                       *)
MemorySafe ==
  ~crossed =>
    /\ fault \in {"none", "nullSlot", "noThread"}
    /\ fault = "nullSlot" => \E c \in Callers : pc[c] \in {"setId", "setSlot"}

(* Until two calls have crossed, the window has one camera at a time: no   *)
(* second session is opened while the previous one is being shut down (all *)
(* frames go to the one RTP stream of send_rtp), none is lost without a    *)
(* table entry, and the table keeps no deleted session.                    *)
OneAtATime == INSTANCE Camera WITH
                open    <- live,
                running <- {s \in Sessions : Running(s)},
                listed  <- {slot[i] : i \in Slots} \ {NULL}

IsCamera == OneAtATime!Spec

(* The index a session's handlers were given is the session's own: frames  *)
(* go to its callback and a fatal event closes this stream, not another.   *)
OwnStream ==
  \A s \in Sessions :
    pc[s] \in {"frame", "stop", "wait", "delete", "clear"} =>
      slot[client[s].nID] = s

(* A startVideo or stopVideo returns to its thread (the window, or the SIP *)
(* worker), unless a session's thread waits for itself, memory was already *)
(* misused or two calls have crossed.                                      *)
CallReturns ==
  \A c \in Callers :
    pc[c] # "idle" ~>
      \/ pc[c] = "idle"
      \/ fault # "none" \/ crossed \/ \E s \in Sessions : SelfWait(s)

(* Until two calls have crossed, a window call never waits in vain: the    *)
(* session it waits for still exists, and its thread has reported its end, *)
(* or is past its event loop, or finds its watch variable set when it next *)
(* tests it; and that thread waits for nobody but itself.                  *)
WaitEnds ==
  \A c \in Callers : ~crossed /\ pc[c] = "wait" =>
    LET s == ptr[c]
    IN /\ s \in live
       /\ \/ sess[s].status = 2
          \/ Running(s) /\ (sess[s].watch \/ pc[s] \in {"shutdown", "finish"})
       /\ pc[s] = "wait" => SelfWait(s)

(* A thread that waits for itself does so for as long as no two calls      *)
(* cross: nothing ends its wait, its session is never deleted, and a       *)
(* window call that waits for it as well, the user interface's too, does   *)
(* not return.                                                             *)
SelfWaitStays ==
  [][\A s \in Sessions : SelfWait(s) /\ ~crossed' =>
       /\ SelfWait(s)' /\ s \in live'
       /\ \A c \in Callers : pc[c] = "wait" => pc'[c] = "wait"]_vars

(* A stop request is not lost: the watch variable of an allocated session, *)
(* set by a closer even while the thread is still opening its URL, is      *)
(* cleared only by that thread when it leaves its event loop, whichever    *)
(* other calls are in progress.                                            *)
StopNotLost ==
  [][\A s \in live \cap live' :
       sess[s].watch => sess'[s].watch \/ pc'[s] = "shutdown"]_vars

(* "Used to shut down and close a stream (including its RTSPClient         *)
(* object)": once a handler has called shutdownStream the session's thread *)
(* comes to its end.                                                       *)
ShutdownCloses ==
  \A s \in Sessions : pc[s] = "close" ~> (pc[s] = "done" \/ fault # "none")
=============================================================================
