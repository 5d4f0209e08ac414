-------------------------- MODULE VideoPathProofs --------------------------
(***************************************************************************)
(* TypeOK, TransportSafe and OnlyFirstFrameMixed of VideoPath for every    *)
(* number of calls.  None of them is inductive: what they need besides is  *)
(* what m_bInitMedia and the place of the SIP worker say of the transport, *)
(* of the thread of the endpoint and of the call that it serves.           *)
(***************************************************************************)
EXTENDS VideoPath, TLAPS

(* m_bInitMedia follows the worker, and means that there is a transport    *)
(* until destroy_media has freed it.                                       *)
MediaInv ==
  /\ worker \in Tearing \cup {"attach"} => initMedia
  /\ worker \in {"create", "bind", "publish"} => ~initMedia
  /\ initMedia /\ worker # "clear" => transport = "open" \/ createFailed
  /\ worker = "publish" => transport = "open" \/ createFailed
  /\ worker = "bind" => endpoint # 0 \/ createFailed

(* send_rtp is inside its loop only while there is a transport.            *)
SenderInv ==
  sender = "loop" =>
    \/ createFailed \/ raced
    \/ transport = "open" /\ initMedia /\ worker \notin Tearing

(* Where the worker has no endpoint, the endpoint has no thread.           *)
ReceiverInv ==
  /\ worker \in {"free", "clear", "create"} => receiver = "none"
  /\ worker = "out" /\ ~initMedia => receiver = "none"
  /\ worker # "out" => call # 0

(* A call that has delivered a frame has only its own packets in outbuf;   *)
(* a call whose endpoint is still to be created has delivered none.        *)
FrameInv ==
  /\ frame.call <= call
  /\ worker \in Tearing \cup {"create"} => endpoint < call /\ frame.call < call
  /\ endpoint # 0 /\ frame.call = endpoint /\ receiver # "decode"
       => outbuf \subseteq {endpoint}

IInv ==
  /\ TypeOK /\ MediaInv /\ SenderInv /\ ReceiverInv /\ FrameInv
  /\ TransportSafe /\ OnlyFirstFrameMixed

-----------------------------------------------------------------------------
USE DEF Tearing, Setup, Faults

LEMMA InitHolds == Init => IInv
<1> SUFFICES ASSUME Init PROVE IInv
  OBVIOUS
<1>1. frame \in [call : 0 .. MaxCalls, nth : 0 .. 2, from : SUBSET (1 .. MaxCalls)]
  BY MaxCallsAssumption DEF Init
<1>2. TypeOK
  <2>1. call \in 0 .. MaxCalls /\ endpoint \in 0 .. call
    BY MaxCallsAssumption DEF Init
  <2>2. outbuf \subseteq 1 .. MaxCalls  BY DEF Init
  <2>3. worker = "out" /\ transport = "null" /\ sender = "out" /\ receiver = "none"
        /\ fault = "none"
    BY DEF Init
  <2>4. initMedia \in BOOLEAN /\ attach \in BOOLEAN /\ active \in BOOLEAN
        /\ hooked \in BOOLEAN /\ quit \in BOOLEAN /\ raced \in BOOLEAN
        /\ createFailed \in BOOLEAN
    BY DEF Init
  <2> QED BY <1>1, <2>1, <2>2, <2>3, <2>4 DEF TypeOK
<1>3. MediaInv /\ SenderInv /\ ReceiverInv /\ FrameInv
  BY DEF Init, MediaInv, SenderInv, ReceiverInv, FrameInv
<1> QED BY <1>2, <1>3 DEF Init, IInv, TransportSafe, OnlyFirstFrameMixed

(* The conjuncts about the media, for each of the groups of actions.       *)
LEMMA WorkerKeepsMedia ==
  ASSUME IInv, Step(InitLocalRtp \/ WorkerStep)
  PROVE  MediaInv' /\ SenderInv' /\ ReceiverInv' /\ TransportSafe'
<1> USE DEF IInv, Step, MediaInv, SenderInv, ReceiverInv, TransportSafe, Goes
<1>1. CASE InitLocalRtp  BY <1>1, MaxCallsAssumption DEF InitLocalRtp, stream, TypeOK
<1>2. CASE Detach
  BY <1>2 DEF Detach, Fails, TransportFault, media, stream, TypeOK
<1>3. CASE StopEndpoint    BY <1>3 DEF StopEndpoint, stream, TypeOK
<1>4. CASE JoinEndpoint    BY <1>4 DEF JoinEndpoint, stream, TypeOK
<1>5. CASE FreePools       BY <1>5 DEF FreePools, stream, TypeOK
<1>6. CASE ClearInitMedia  BY <1>6 DEF ClearInitMedia, stream, TypeOK
<1>7. CASE CreateEndpoint
  BY <1>7 DEF CreateEndpoint, Fails, media, stream, TypeOK
<1>8. CASE CreateTransport
  BY <1>8 DEF CreateTransport, Fails, media, stream, TypeOK
<1>9. CASE Publish         BY <1>9 DEF Publish, stream, TypeOK
<1>10. CASE InitRecvRtp
  BY <1>10 DEF InitRecvRtp, Fails, TransportFault, media, stream, TypeOK
<1> QED BY <1>1, <1>2, <1>3, <1>4, <1>5, <1>6, <1>7, <1>8, <1>9, <1>10 DEF WorkerStep

LEMMA StreamsKeepMedia ==
  ASSUME IInv, Step(SenderStep \/ ReceiverStep)
  PROVE  MediaInv' /\ SenderInv' /\ ReceiverInv' /\ TransportSafe'
<1> USE DEF IInv, Step, MediaInv, SenderInv, ReceiverInv, TransportSafe, media
<1>1. CASE SendRtp      BY <1>1 DEF SendRtp, stream, TypeOK
<1>2. CASE SendPacket
  BY <1>2 DEF SendPacket, Fails, TransportFault, stream, TypeOK
<1>3. CASE DecodeLocal  BY <1>3 DEF DecodeLocal, stream, TypeOK
<1>4. CASE TestQuit     BY <1>4 DEF TestQuit, TypeOK
<1>5. CASE PollNothing  BY <1>5 DEF PollNothing, TypeOK
<1>6. CASE OnRxRtp      BY <1>6 DEF OnRxRtp, TypeOK
<1>7. CASE DecodeRemote BY <1>7 DEF DecodeRemote, TypeOK
<1> QED BY <1>1, <1>2, <1>3, <1>4, <1>5, <1>6, <1>7 DEF SenderStep, ReceiverStep

(* A misuse changes nothing but fault.                                     *)
LEMMA FaultKeepsTypes ==
  ASSUME IInv, NEW what \in Faults, Fails(what), raced' \in BOOLEAN
  PROVE  TypeOK'
<1>1. fault' \in {"none"} \cup Faults  BY DEF Fails
<1> QED BY <1>1 DEF IInv, TypeOK, Fails, media, stream

(* A step of the worker that leaves the call, the two streams and the      *)
(* misuse alone keeps the types when what it changes keeps its own.        *)
LEMMA MediaStepTypes ==
  ASSUME IInv, Step(TRUE),
         worker' \in {"out"} \cup Tearing \cup Setup,
         endpoint' = endpoint \/ (endpoint' = 0 /\ receiver = "none"),
         initMedia' \in BOOLEAN, attach' \in BOOLEAN, active' \in BOOLEAN,
         transport' \in {"null", "open", "freed"},
         hooked' \in BOOLEAN, quit' \in BOOLEAN, createFailed' \in BOOLEAN,
         UNCHANGED <<call, sender, stream, fault>>
  PROVE  TypeOK'
<1>1. raced' \in BOOLEAN
  BY DEF IInv, TypeOK, Step
<1>2. call' \in 0 .. MaxCalls /\ endpoint' \in 0 .. call'
  BY MaxCallsAssumption DEF IInv, TypeOK
<1>3. /\ sender' \in {"out", "loop", "decode"}
      /\ receiver' \in {"none", "test", "poll", "decode"}
      /\ receiver' # "none" => endpoint' # 0
  BY DEF IInv, TypeOK, stream
<1>4. /\ outbuf' \subseteq 1 .. MaxCalls
      /\ frame' \in [call : 0 .. MaxCalls, nth : 0 .. 2, from : SUBSET (1 .. MaxCalls)]
      /\ fault' \in {"none"} \cup Faults
  BY DEF IInv, TypeOK, stream
<1> QED BY <1>1, <1>2, <1>3, <1>4 DEF TypeOK

(* The types.                                                             *)
LEMMA WorkerKeepsTypes ==
  ASSUME IInv, Step(InitLocalRtp \/ WorkerStep)
  PROVE  TypeOK'
<1>1. CASE InitLocalRtp
  <2>1. worker' \in {"out"} \cup Tearing \cup Setup
    BY <1>1 DEF InitLocalRtp, Goes, Tearing, Setup
  <2>2. /\ call' \in 0 .. MaxCalls /\ endpoint' \in 0 .. call'
        /\ receiver' # "none" => endpoint' # 0
    BY <1>1, MaxCallsAssumption DEF InitLocalRtp, IInv, TypeOK, stream
  <2>3. raced' \in BOOLEAN  BY DEF IInv, TypeOK, Step
  <2> QED BY <1>1, <2>1, <2>2, <2>3 DEF InitLocalRtp, IInv, TypeOK, stream
<1>2. CASE Detach
  <2>1. CASE Goes("detach", "stop")
    <3>1. worker' \in Tearing  BY <2>1 DEF Goes, Tearing
    <3>2. UNCHANGED <<call, initMedia, active, transport, endpoint, quit,
                      createFailed, sender, stream, fault>>
      BY <1>2, <2>1 DEF Detach, Goes, Fails
    <3>3. hooked' \in BOOLEAN /\ attach' \in BOOLEAN
      BY <1>2, <2>1 DEF Detach, Goes, Fails, IInv, TypeOK
    <3> QED BY <3>1, <3>2, <3>3, MediaStepTypes DEF Step, IInv, TypeOK
  <2>2. CASE Fails(TransportFault)
    <3>1. TransportFault \in Faults  BY DEF TransportFault, Faults
    <3>2. raced' \in BOOLEAN  BY DEF IInv, TypeOK, Step
    <3> QED BY <2>2, <3>1, <3>2, FaultKeepsTypes
  <2> QED BY <1>2, <2>1, <2>2 DEF Detach
<1>3. CASE StopEndpoint
  <2>1. worker' \in Tearing  BY <1>3 DEF StopEndpoint, Goes, Tearing
  <2> QED BY <1>3, <2>1, MediaStepTypes DEF StopEndpoint, Step, IInv, TypeOK
<1>4. CASE JoinEndpoint
  <2>1. worker' \in Tearing  BY <1>4 DEF JoinEndpoint, Goes, Tearing
  <2> QED BY <1>4, <2>1, MediaStepTypes DEF JoinEndpoint, Step, IInv, TypeOK
<1>5. CASE FreePools
  <2>1. worker' \in Tearing  BY <1>5 DEF FreePools, Goes, Tearing
  <2> QED BY <1>5, <2>1, MediaStepTypes DEF FreePools, Step, IInv, TypeOK
<1>6. CASE ClearInitMedia
  <2>1. worker' \in Setup  BY <1>6 DEF ClearInitMedia, Goes, Setup
  <2> QED BY <1>6, <2>1, MediaStepTypes DEF ClearInitMedia, Step, IInv, TypeOK
<1>7. CASE CreateEndpoint
  <2>1. CASE Goes("create", "bind")
    <3>1. worker' \in Setup  BY <2>1 DEF Goes, Setup
    <3>2. /\ UNCHANGED <<call, initMedia, attach, active, transport, hooked,
                         sender, outbuf, frame, fault>>
          /\ \/ /\ endpoint' = call /\ receiver' = "test" /\ quit' = FALSE
                /\ UNCHANGED createFailed
             \/ /\ UNCHANGED <<endpoint, receiver, quit>>
                /\ createFailed' = TRUE
      BY <1>7, <2>1 DEF CreateEndpoint, Goes, Fails
    <3>3. call # 0  BY <2>1 DEF IInv, ReceiverInv, Goes
    <3>4. endpoint' \in 0 .. call' /\ (receiver' # "none" => endpoint' # 0)
      BY <3>2, <3>3, MaxCallsAssumption DEF IInv, TypeOK
    <3>5. raced' \in BOOLEAN  BY DEF IInv, TypeOK, Step
    <3>6. /\ receiver' \in {"none", "test", "poll", "decode"}
          /\ quit' \in BOOLEAN /\ createFailed' \in BOOLEAN
      BY <3>2 DEF IInv, TypeOK
    <3>7. UNCHANGED <<call, initMedia, attach, active, transport, hooked,
                      sender, outbuf, frame, fault>>
      BY <3>2
    <3> QED BY <3>1, <3>4, <3>5, <3>6, <3>7 DEF IInv, TypeOK
  <2>2. CASE Fails("secondReceiver")
    <3>1. raced' \in BOOLEAN  BY DEF IInv, TypeOK, Step
    <3>2. "secondReceiver" \in Faults  BY DEF Faults
    <3> QED BY <2>2, <3>1, <3>2, FaultKeepsTypes
  <2> QED BY <1>7, <2>1, <2>2 DEF CreateEndpoint
<1>8. CASE CreateTransport
  <2>1. CASE Goes("bind", "publish")
    <3>1. worker' \in Setup  BY <2>1 DEF Goes, Setup
    <3>2. /\ UNCHANGED <<call, initMedia, attach, active, hooked, endpoint, quit,
                         sender, stream, fault>>
          /\ transport' \in {"null", "open", "freed"} /\ createFailed' \in BOOLEAN
      BY <1>8, <2>1 DEF CreateTransport, Goes, Fails, IInv, TypeOK
    <3> QED BY <3>1, <3>2, MediaStepTypes DEF Step, IInv, TypeOK
  <2>2. CASE Fails("freedEndpoint")
    <3>1. raced' \in BOOLEAN  BY DEF IInv, TypeOK, Step
    <3>2. "freedEndpoint" \in Faults  BY DEF Faults
    <3> QED BY <2>2, <3>1, <3>2, FaultKeepsTypes
  <2> QED BY <1>8, <2>1, <2>2 DEF CreateTransport
<1>9. CASE Publish
  <2>1. worker' \in Setup  BY <1>9 DEF Publish, Goes, Setup
  <2> QED BY <1>9, <2>1, MediaStepTypes DEF Publish, Step, IInv, TypeOK
<1>10. CASE InitRecvRtp
  <2>1. CASE Goes("attach", "out")
    <3>1. worker' = "out"  BY <2>1 DEF Goes
    <3>2. UNCHANGED <<call, initMedia, active, transport, endpoint, quit,
                      createFailed, sender, stream, fault>>
      BY <1>10, <2>1 DEF InitRecvRtp, Goes, Fails
    <3>3. hooked' \in BOOLEAN /\ attach' \in BOOLEAN
      BY <1>10, <2>1 DEF InitRecvRtp, Goes, Fails, IInv, TypeOK
    <3> QED BY <3>1, <3>2, <3>3, MediaStepTypes DEF Step, IInv, TypeOK
  <2>2. CASE Fails(TransportFault)
    <3>1. TransportFault \in Faults  BY DEF TransportFault, Faults
    <3>2. raced' \in BOOLEAN  BY DEF IInv, TypeOK, Step
    <3> QED BY <2>2, <3>1, <3>2, FaultKeepsTypes
  <2> QED BY <1>10, <2>1, <2>2 DEF InitRecvRtp
<1> QED BY <1>1, <1>2, <1>3, <1>4, <1>5, <1>6, <1>7, <1>8, <1>9, <1>10
        DEF Step, WorkerStep

LEMMA StreamsKeepTypes ==
  ASSUME IInv, Step(SenderStep \/ ReceiverStep)
  PROVE  TypeOK'
<1> USE MaxCallsAssumption DEF IInv, Step, TypeOK, media
<1>1. CASE SendRtp
  BY <1>1 DEF SendRtp, stream
<1>2. CASE SendPacket
  <2>1. CASE Fails(TransportFault)
    <3>1. TransportFault \in Faults  BY DEF TransportFault
    <3>2. raced' \in BOOLEAN  OBVIOUS
    <3> QED BY <2>1, <3>1, <3>2, FaultKeepsTypes
  <2>2. CASE sender' \in {"loop", "decode"} /\ UNCHANGED <<worker, media, stream, fault>>
    BY <2>2 DEF stream
  <2> QED BY <1>2, <2>1, <2>2 DEF SendPacket
<1>3. CASE DecodeLocal
  BY <1>3 DEF DecodeLocal, stream
<1>4. CASE TestQuit
  BY <1>4 DEF TestQuit
<1>5. CASE PollNothing
  BY <1>5 DEF PollNothing
<1>6. CASE OnRxRtp
  <2>1. outbuf' \subseteq 1 .. MaxCalls
    BY <1>6 DEF OnRxRtp
  <2>2. frame' \in [call : 0 .. MaxCalls, nth : 0 .. 2, from : SUBSET (1 .. MaxCalls)]
    <3>1. CASE UNCHANGED frame  BY <3>1
    <3>2. CASE frame' = [call |-> endpoint, from |-> outbuf',
                         nth |-> IF frame.call # endpoint THEN 1 ELSE 2]
      <4>1. endpoint \in 0 .. MaxCalls  OBVIOUS
      <4>2. (IF frame.call # endpoint THEN 1 ELSE 2) \in 0 .. 2  OBVIOUS
      <4> QED BY <2>1, <3>2, <4>1, <4>2
    <3> QED BY <1>6, <3>1, <3>2 DEF OnRxRtp
  <2>3. receiver' \in {"test", "decode"}  BY <1>6 DEF OnRxRtp
  <2> QED BY <1>6, <2>1, <2>2, <2>3 DEF OnRxRtp
<1>7. CASE DecodeRemote
  BY <1>7 DEF DecodeRemote
<1> QED BY <1>1, <1>2, <1>3, <1>4, <1>5, <1>6, <1>7 DEF SenderStep, ReceiverStep

(* The conjuncts about frames.                                            *)
LEMMA WorkerKeepsFrames ==
  ASSUME IInv, Step(InitLocalRtp \/ WorkerStep)
  PROVE  FrameInv' /\ OnlyFirstFrameMixed'
<1> USE MaxCallsAssumption DEF IInv, Step, TypeOK, FrameInv, OnlyFirstFrameMixed, Goes
<1>1. CASE InitLocalRtp
  BY <1>1 DEF InitLocalRtp, stream
<1>2. CASE Detach
  BY <1>2 DEF Detach, Fails, TransportFault, media, stream
<1>3. CASE StopEndpoint
  BY <1>3 DEF StopEndpoint, stream
<1>4. CASE JoinEndpoint
  BY <1>4 DEF JoinEndpoint, stream
<1>5. CASE FreePools
  BY <1>5 DEF FreePools, stream
<1>6. CASE ClearInitMedia
  BY <1>6 DEF ClearInitMedia, stream
<1>7. CASE CreateEndpoint
  <2>1. CASE worker' = "bind"
    <3>1. /\ endpoint' = call \/ UNCHANGED <<endpoint, receiver>>
          /\ frame.call < call /\ UNCHANGED <<frame, outbuf, call>>
      BY <1>7, <2>1 DEF CreateEndpoint, Fails
    <3>2. CASE endpoint' = call
      <4>1. frame'.call # endpoint'  BY <3>1, <3>2
      <4> QED BY <2>1, <3>1, <4>1
    <3>3. CASE UNCHANGED <<endpoint, receiver>>
      BY <2>1, <3>1, <3>3
    <3> QED BY <3>1, <3>2, <3>3
  <2>2. CASE Fails("secondReceiver")
    BY <2>2 DEF Fails, media, stream
  <2> QED BY <1>7, <2>1, <2>2 DEF CreateEndpoint
<1>8. CASE CreateTransport
  BY <1>8 DEF CreateTransport, Fails, media, stream
<1>9. CASE Publish
  BY <1>9 DEF Publish, stream
<1>10. CASE InitRecvRtp
  BY <1>10 DEF InitRecvRtp, Fails, TransportFault, media, stream
<1> QED BY <1>1, <1>2, <1>3, <1>4, <1>5, <1>6, <1>7, <1>8, <1>9, <1>10 DEF WorkerStep

LEMMA StreamsKeepFrames ==
  ASSUME IInv, Step(SenderStep \/ ReceiverStep)
  PROVE  FrameInv' /\ OnlyFirstFrameMixed'
<1> USE DEF IInv, Step, TypeOK, FrameInv, OnlyFirstFrameMixed, media
<1>1. CASE SendRtp
  BY <1>1 DEF SendRtp, stream
<1>2. CASE SendPacket
  BY <1>2 DEF SendPacket, Fails, TransportFault, stream
<1>3. CASE DecodeLocal
  BY <1>3 DEF DecodeLocal, stream
<1>4. CASE TestQuit
  BY <1>4 DEF TestQuit
<1>5. CASE PollNothing
  BY <1>5 DEF PollNothing
<1>6. CASE OnRxRtp
  <2>1. endpoint # 0 /\ receiver # "decode"
        /\ UNCHANGED <<worker, call, endpoint>> /\ outbuf' = outbuf \cup {endpoint}
    BY <1>6 DEF OnRxRtp
  <2>2. CASE UNCHANGED frame
    BY <2>1, <2>2
  <2>3. CASE receiver' = "decode"
             /\ frame' = [call |-> endpoint, from |-> outbuf',
                          nth |-> IF frame.call # endpoint THEN 1 ELSE 2]
    <3>1. frame'.call = endpoint /\ frame'.from = outbuf'
          /\ frame'.nth = IF frame.call # endpoint THEN 1 ELSE 2
      BY <2>3
    <3>2. FrameInv'  BY <2>1, <2>3, <3>1
    <3>3. ASSUME frame'.nth = 2 PROVE frame'.from = {frame'.call}
      <4>1. frame.call = endpoint  BY <3>1, <3>3
      <4>2. outbuf \subseteq {endpoint}  BY <2>1, <4>1
      <4> QED BY <2>1, <3>1, <4>2
    <3>4. OnlyFirstFrameMixed'  BY <3>3
    <3> QED BY <3>2, <3>4
  <2> QED BY <1>6, <2>2, <2>3 DEF OnRxRtp
<1>7. CASE DecodeRemote
  BY <1>7 DEF DecodeRemote
<1> QED BY <1>1, <1>2, <1>3, <1>4, <1>5, <1>6, <1>7 DEF SenderStep, ReceiverStep

LEMMA NextKeeps == IInv /\ [Next]_vars => IInv'
<1> SUFFICES ASSUME IInv, [Next]_vars PROVE IInv'
  OBVIOUS
<1>1. CASE UNCHANGED vars
  BY <1>1 DEF vars, media, stream, IInv, TypeOK, MediaInv, SenderInv, ReceiverInv,
              FrameInv, TransportSafe, OnlyFirstFrameMixed
<1>2. CASE Step(InitLocalRtp) \/ Step(WorkerStep)
  <2>1. Step(InitLocalRtp \/ WorkerStep)  BY <1>2 DEF Step
  <2> QED BY <2>1, WorkerKeepsMedia, WorkerKeepsTypes, WorkerKeepsFrames DEF IInv
<1>3. CASE Step(SenderStep) \/ Step(ReceiverStep)
  <2>1. Step(SenderStep \/ ReceiverStep)  BY <1>3 DEF Step
  <2> QED BY <2>1, StreamsKeepMedia, StreamsKeepTypes, StreamsKeepFrames DEF IInv
<1> QED BY <1>1, <1>2, <1>3 DEF Next

LEMMA IInvHolds == Spec => []IInv
  BY InitHolds, NextKeeps, PTL DEF Spec

(* Every variable keeps its type, and the thread of an endpoint lives no   *)
(* longer than the endpoint.                                               *)
THEOREM PathTypesStay == Spec => []TypeOK
<1>1. IInv => TypeOK  BY DEF IInv
<1> QED BY <1>1, IInvHolds, PTL

(* For every number of calls: no call of the transport or of the endpoint  *)
(* meets NULL or freed memory unless the creation of one of them failed or *)
(* send_rtp ran into destroy_media, and on_rx_rtp never runs on two        *)
(* threads.                                                                *)
THEOREM TransportStaysSafe == Spec => []TransportSafe
<1>1. IInv => TransportSafe  BY DEF IInv
<1> QED BY <1>1, IInvHolds, PTL

(* For every number of calls: what a call leaves in outbuf spoils at most  *)
(* the first frame of a later one.                                         *)
THEOREM LeftoversSpoilOneFrame == Spec => []OnlyFirstFrameMixed
<1>1. IInv => OnlyFirstFrameMixed  BY DEF IInv
<1> QED BY <1>1, IInvHolds, PTL

-----------------------------------------------------------------------------
(* The end of init_local_rtp                                               *)

(* The endpoint was told to quit before it is joined, and nothing takes    *)
(* that back as long as its thread is there.                               *)
QuitInv == worker = "join" => quit

LEMMA NextKeepsQuit == QuitInv /\ [Next]_vars => QuitInv'
<1> SUFFICES ASSUME QuitInv, [Next]_vars PROVE QuitInv'
  OBVIOUS
<1> USE DEF QuitInv, Goes, media
<1>1. CASE UNCHANGED vars  BY <1>1 DEF vars
<1>2. CASE Step(InitLocalRtp)  BY <1>2 DEF Step, InitLocalRtp
<1>3. CASE Step(WorkerStep)
  BY <1>3 DEF Step, WorkerStep, Detach, StopEndpoint, JoinEndpoint, FreePools,
              ClearInitMedia, CreateEndpoint, CreateTransport, Publish,
              InitRecvRtp, Fails
<1>4. CASE Step(SenderStep)
  BY <1>4 DEF Step, SenderStep, SendRtp, SendPacket, DecodeLocal, Fails
<1>5. CASE Step(ReceiverStep)
  BY <1>5 DEF Step, ReceiverStep, TestQuit, PollNothing, OnRxRtp, DecodeRemote
<1> QED BY <1>1, <1>2, <1>3, <1>4, <1>5 DEF Next

LEMMA FourTimes ==
  ASSUME NEW a \in Nat, NEW b \in Nat, b + 1 = a, NEW r \in 0 .. 3
  PROVE  4 * b + r < 4 * a /\ 4 * b < 4 * a + r
OBVIOUS

LEMMA AddLess ==
  ASSUME NEW a \in Nat, NEW r \in Nat, NEW q \in Nat, q < r
  PROVE  4 * a + q < 4 * a + r /\ 4 * a + q \in Nat /\ 4 * a + r \in Nat
OBVIOUS

(* One step of the worker through init_local_rtp.                          *)
Moves(from, to) ==
  /\ Goes(from, to)
  /\ \/ from = "detach" /\ to = "stop"
     \/ from = "stop" /\ to = "join"
     \/ from = "join" /\ to = "free"
     \/ from = "free" /\ to = "clear"
     \/ from = "clear" /\ to = "create"
     \/ from = "create" /\ to = "bind"
     \/ from = "bind" /\ to = "publish"
     \/ from = "publish" /\ to = "attach"
     \/ from = "attach" /\ to = "out"
  /\ to # "bind" => UNCHANGED receiver

(* The place of the worker counts four times a place of the thread.        *)
LEMMA WorkerNearer ==
  ASSUME IInv, NEW from, NEW to, Moves(from, to)
  PROVE  StepsLeft' < StepsLeft
<1>1. WorkerLeft \in Nat /\ WorkerLeft' + 1 = WorkerLeft
  BY DEF Moves, Goes, WorkerLeft
<1>2. ReceiverLeft \in 0 .. 3 BY DEF IInv, TypeOK, ReceiverLeft
<1>3. to # "bind" => ReceiverLeft' = ReceiverLeft BY DEF Moves, ReceiverLeft
<1>4. worker' = to /\ worker = from BY DEF Moves, Goes
<1>5. WorkerLeft' \in Nat BY DEF Moves, Goes, WorkerLeft
<1>6. CASE to = "join"
  <2>1. StepsLeft' = 4 * WorkerLeft' + ReceiverLeft BY <1>3, <1>4, <1>6 DEF StepsLeft
  <2>2. StepsLeft = 4 * WorkerLeft BY <1>1, <1>4, <1>6 DEF Moves, StepsLeft
  <2> QED BY <1>1, <1>2, <1>5, <2>1, <2>2, FourTimes
<1>7. CASE to # "join"
  <2>1. StepsLeft' = 4 * WorkerLeft' BY <1>4, <1>5, <1>7 DEF StepsLeft
  <2>2. PICK r \in 0 .. 3 : StepsLeft = 4 * WorkerLeft + r
    BY <1>1, <1>2 DEF StepsLeft
  <2> QED BY <1>1, <1>5, <2>1, <2>2, FourTimes
<1> QED BY <1>6, <1>7

(* A step that leaves the worker and the endpoint's thread where they are. *)
LEMMA StepsSame ==
  ASSUME IInv, UNCHANGED <<worker, receiver>>
  PROVE  StepsLeft' = StepsLeft /\ StepsLeft \in Nat
<1>1. WorkerLeft \in Nat /\ ReceiverLeft \in Nat
  BY DEF IInv, TypeOK, WorkerLeft, ReceiverLeft
<1> QED BY <1>1 DEF StepsLeft, WorkerLeft, ReceiverLeft

(* The thread of an endpoint that was told to quit comes nearer to its end *)
(* with each step, also when a packet is there.                            *)
LEMMA ReceiverNearer ==
  ASSUME IInv, QuitInv, Step(ReceiverStep)
  PROVE  /\ worker' = worker
         /\ StepsLeft' <= StepsLeft
         /\ worker = "join" => StepsLeft' < StepsLeft
<1>1. worker' = worker
  BY DEF Step, ReceiverStep, TestQuit, PollNothing, OnRxRtp, DecodeRemote
<1>2. WorkerLeft' = WorkerLeft /\ WorkerLeft \in Nat
  BY <1>1 DEF IInv, TypeOK, WorkerLeft
<1>3. CASE worker # "join"
  BY <1>1, <1>2, <1>3 DEF StepsLeft
<1>4. CASE worker = "join"
  <2>1. \/ receiver = "test" /\ receiver' = "none"
        \/ receiver = "poll" /\ receiver' \in {"test", "decode"}
        \/ receiver = "decode" /\ receiver' = "test"
    BY <1>4 DEF Step, ReceiverStep, TestQuit, PollNothing, OnRxRtp,
                DecodeRemote, QuitInv
  <2>2. /\ ReceiverLeft \in Nat /\ ReceiverLeft' \in Nat
        /\ ReceiverLeft' < ReceiverLeft
    BY <2>1 DEF ReceiverLeft
  <2>3. StepsLeft = 4 * WorkerLeft + ReceiverLeft
        /\ StepsLeft' = 4 * WorkerLeft' + ReceiverLeft'
    BY <1>1, <1>4 DEF StepsLeft
  <2>4. StepsLeft' < StepsLeft BY <1>2, <2>2, <2>3, AddLess
  <2>5. StepsLeft' \in Nat /\ StepsLeft \in Nat BY <1>2, <2>2, <2>3, AddLess
  <2> QED BY <1>1, <2>4, <2>5
<1> QED BY <1>1, <1>3, <1>4

(* For every number of calls: init_local_rtp only ever comes nearer to its *)
(* return, with each step of its own and with each step of the thread that *)
(* destroy_media joins, however many packets still arrive.                 *)
THEOREM InitOnlyComesNearer == Spec => InitComesNearer
<1>1. Init => QuitInv  BY DEF Init, QuitInv
<1>2. IInv /\ QuitInv /\ [Next]_vars =>
        [worker # "out" =>
           /\ StepsLeft' <= StepsLeft
           /\ worker' # worker => StepsLeft' < StepsLeft
           /\ worker = "join" /\ receiver' # receiver => StepsLeft' < StepsLeft]_vars
  <2> SUFFICES ASSUME IInv, QuitInv, [Next]_vars, worker # "out"
               PROVE  /\ StepsLeft' <= StepsLeft
                      /\ worker' # worker => StepsLeft' < StepsLeft
                      /\ worker = "join" /\ receiver' # receiver
                           => StepsLeft' < StepsLeft
    OBVIOUS
  <2>1. CASE UNCHANGED <<worker, receiver>>  BY <2>1, StepsSame
  <2>2. CASE Step(ReceiverStep)  BY <2>2, ReceiverNearer
  <2>3. ASSUME Step(WorkerStep), ~UNCHANGED <<worker, receiver>>
        PROVE  StepsLeft' < StepsLeft
    <3>1. \E from, to : Moves(from, to)
      <4>1. /\ ~Fails("secondReceiver") /\ ~Fails("freedEndpoint")
            /\ ~Fails(TransportFault)
        BY <2>3 DEF Fails, stream
      <4>2. CASE Detach  BY <4>1, <4>2 DEF Detach, Moves, Goes, stream
      <4>3. CASE StopEndpoint  BY <4>3 DEF StopEndpoint, Moves, Goes, stream
      <4>4. CASE JoinEndpoint  BY <4>4 DEF JoinEndpoint, Moves, Goes, stream
      <4>5. CASE FreePools  BY <4>5 DEF FreePools, Moves, Goes, stream
      <4>6. CASE ClearInitMedia  BY <4>6 DEF ClearInitMedia, Moves, Goes, stream
      <4>7. CASE CreateEndpoint  BY <4>1, <4>7 DEF CreateEndpoint, Moves, Goes
      <4>8. CASE CreateTransport  BY <4>1, <4>8 DEF CreateTransport, Moves, Goes, stream
      <4>9. CASE Publish  BY <4>9 DEF Publish, Moves, Goes, stream
      <4>10. CASE InitRecvRtp  BY <4>1, <4>10 DEF InitRecvRtp, Moves, Goes, stream
      <4> QED BY <2>3, <4>2, <4>3, <4>4, <4>5, <4>6, <4>7, <4>8, <4>9, <4>10
              DEF Step, WorkerStep
    <3> QED BY <3>1, WorkerNearer
  <2>4. CASE Step(SenderStep)
    BY <2>1, <2>4 DEF Step, SenderStep, SendRtp, SendPacket, DecodeLocal, Fails,
                      stream
  <2>5. ~Step(InitLocalRtp)  BY DEF Step, InitLocalRtp, Goes
  <2>6. StepsLeft \in Nat  BY DEF IInv, TypeOK, StepsLeft, WorkerLeft, ReceiverLeft
  <2>7. CASE Next
    <3>1. CASE Step(WorkerStep) /\ ~UNCHANGED <<worker, receiver>>
      <4>1. StepsLeft' < StepsLeft BY <2>3, <3>1
      <4>2. StepsLeft' \in Nat
        BY <4>1, NextKeeps DEF IInv, TypeOK, StepsLeft, WorkerLeft, ReceiverLeft
      <4> QED BY <2>6, <4>1, <4>2
    <3> QED BY <2>1, <2>2, <2>4, <2>5, <2>7, <3>1 DEF Next
  <2> QED BY <2>1, <2>7 DEF vars, stream
<1> QED BY <1>1, <1>2, IInvHolds, NextKeepsQuit, PTL DEF Spec, InitComesNearer
=============================================================================
