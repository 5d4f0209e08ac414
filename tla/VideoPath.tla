----------------------------- MODULE VideoPath -----------------------------
(***************************************************************************)
(* The life of the RTP transport of one client (pjsua_app.cpp): the SIP    *)
(* worker runs init_local_rtp, and in it destroy_media, for each confirmed *)
(* call; the camera session gives its frames to send_rtp on its own        *)
(* thread; the worker thread of the media endpoint runs on_rx_rtp and the  *)
(* decoder.  They share video, m_bInitMedia and m_bAttach without a lock.  *)
(*                                                                         *)
(* pjmedia (external): pjmedia_endpt_create starts a thread that polls     *)
(* until it is told to quit; pjmedia_endpt_destroy tells it and joins it;  *)
(* pj_caching_pool_destroy frees the memory of the transport.  The socket  *)
(* is never closed (no pjmedia_transport_close), so a later                *)
(* pjmedia_transport_udp_create on the port may fail.  A failing create    *)
(* leaves the pointer that it should set as it was.                        *)
(***************************************************************************)
EXTENDS Naturals

CONSTANT MaxCalls   (* bound: confirmed calls                              *)

ASSUME MaxCallsAssumption == MaxCalls \in Nat

VARIABLES
  worker,      (* where the SIP worker is in init_local_rtp                *)
  call,        (* the confirmed calls so far                               *)
  initMedia,   (* m_bInitMedia                                             *)
  attach,      (* m_bAttach                                                *)
  active,      (* video.active                                             *)
  transport,   (* video.transport: "null", "open", or "freed" memory       *)
  hooked,      (* the transport reports its packets to on_rx_rtp           *)
  endpoint,    (* the call that created med_endpt, 0 when it is destroyed  *)
  quit,        (* the endpoint told its thread to quit                     *)
  sender,      (* where the thread of the camera is                        *)
  receiver,    (* where the thread of the endpoint is; "none": no thread   *)
  outbuf,      (* the calls whose payloads are in outbuf                   *)
  frame,       (* history: the last frame given to the data callback       *)
  raced,       (* history: send_rtp and destroy_media ran together         *)
  createFailed,(* history: an endpoint or a transport was not created      *)
  fault        (* the misuse met, if any                                   *)

media  == <<call, initMedia, attach, active, transport, hooked, endpoint, quit,
            createFailed>>
stream == <<receiver, outbuf, frame>>
vars   == <<worker, media, sender, stream, raced, fault>>

Tearing == {"detach", "stop", "join", "free", "clear"}
Setup   == {"create", "bind", "publish", "attach"}
Faults  == {"nullTransport", "freedTransport", "freedEndpoint", "secondReceiver"}

TypeOK ==
  /\ worker \in {"out"} \cup Tearing \cup Setup
  /\ call \in 0 .. MaxCalls
  /\ initMedia \in BOOLEAN /\ attach \in BOOLEAN /\ active \in BOOLEAN
  /\ transport \in {"null", "open", "freed"} /\ hooked \in BOOLEAN
  /\ endpoint \in 0 .. call /\ quit \in BOOLEAN
  /\ sender \in {"out", "loop", "decode"}
  /\ receiver \in {"none", "test", "poll", "decode"}
  /\ receiver # "none" => endpoint # 0
  /\ outbuf \subseteq 1 .. MaxCalls
  /\ frame \in [call : 0 .. MaxCalls, nth : 0 .. 2, from : SUBSET (1 .. MaxCalls)]
  /\ raced \in BOOLEAN /\ createFailed \in BOOLEAN
  /\ fault \in {"none"} \cup Faults

Init ==
  /\ worker = "out" /\ call = 0
  /\ initMedia = FALSE /\ attach = FALSE /\ active = FALSE
  /\ transport = "null" /\ hooked = FALSE
  /\ endpoint = 0 /\ quit = FALSE
  /\ sender = "out" /\ receiver = "none"
  /\ outbuf = {} /\ frame = [call |-> 0, nth |-> 0, from |-> {}]
  /\ raced = FALSE /\ createFailed = FALSE /\ fault = "none"

Fails(what) ==
  /\ fault' = what
  /\ UNCHANGED <<worker, media, sender, stream>>

(* A call of a function of the transport whose memory is not there.        *)
TransportFault == IF transport = "null" THEN "nullTransport" ELSE "freedTransport"

-----------------------------------------------------------------------------
(* init_local_rtp and destroy_media, on the SIP worker                     *)

Goes(from, to) == worker = from /\ worker' = to

(* A call is confirmed; media of an earlier call is destroyed first.       *)
InitLocalRtp ==
  /\ Goes("out", IF initMedia THEN "detach" ELSE "create")
  /\ call < MaxCalls /\ call' = call + 1
  /\ UNCHANGED <<initMedia, attach, active, transport, hooked, endpoint, quit,
                 createFailed, sender, stream, fault>>

Detach ==
  \/ /\ Goes("detach", "stop")
     /\ attach => transport = "open"
     /\ hooked' = (hooked /\ ~attach) /\ attach' = FALSE
     /\ UNCHANGED <<call, initMedia, active, transport, endpoint, quit,
                    createFailed, sender, stream, fault>>
  \/ /\ worker = "detach" /\ attach /\ transport # "open"
     /\ Fails(TransportFault)

(* pjmedia_endpt_destroy tells its thread to quit ...                      *)
StopEndpoint ==
  /\ Goes("stop", "join")
  /\ quit' = TRUE
  /\ UNCHANGED <<call, initMedia, attach, active, transport, hooked, endpoint,
                 createFailed, sender, stream, fault>>

(* Mutation: the endpoint does not wait for its thread.                    *)
LeaveEndpoint ==
  /\ Goes("join", "free")
  /\ endpoint' = 0
  /\ UNCHANGED <<call, initMedia, attach, active, transport, hooked, quit,
                 createFailed, sender, stream, fault>>

(* ... and joins it.                                                       *)
JoinEndpoint ==
  /\ Goes("join", "free")
  /\ receiver = "none"
  /\ endpoint' = 0
  /\ UNCHANGED <<call, initMedia, attach, active, transport, hooked, quit,
                 createFailed, sender, stream, fault>>

FreePools ==
  /\ Goes("free", "clear")
  /\ transport' = IF transport = "open" THEN "freed" ELSE transport
  /\ UNCHANGED <<call, initMedia, attach, active, hooked, endpoint, quit,
                 createFailed, sender, stream, fault>>

(* Mutation: destroy_media leaves m_bInitMedia as it is.                   *)
KeepInitMedia ==
  /\ Goes("clear", "create")
  /\ UNCHANGED <<media, sender, stream, fault>>

ClearInitMedia ==
  /\ Goes("clear", "create")
  /\ initMedia' = FALSE
  /\ UNCHANGED <<call, attach, active, transport, hooked, endpoint, quit,
                 createFailed, sender, stream, fault>>

(* The results of pjmedia_endpt_create and pjmedia_transport_udp_create    *)
(* are not looked at.                                                      *)
CreateEndpoint ==
  \/ /\ Goes("create", "bind")
     /\ receiver = "none"
     /\ \/ /\ endpoint' = call /\ quit' = FALSE /\ receiver' = "test"
           /\ UNCHANGED createFailed
        \/ /\ createFailed' = TRUE
           /\ UNCHANGED <<endpoint, quit, receiver>>
     /\ UNCHANGED <<call, initMedia, attach, active, transport, hooked,
                    sender, outbuf, frame, fault>>
  \/ /\ worker = "create" /\ receiver # "none"
     /\ Fails("secondReceiver")

(* Without an endpoint med_endpt is NULL in the first call, and refused;   *)
(* later it is the endpoint that destroy_media has destroyed.              *)
CreateTransport ==
  \/ /\ Goes("bind", "publish")
     /\ \/ endpoint # 0 /\ transport' = "open" /\ UNCHANGED createFailed
        \/ /\ endpoint # 0 \/ call = 1
           /\ createFailed' = TRUE /\ UNCHANGED transport
     /\ UNCHANGED <<call, initMedia, attach, active, hooked, endpoint, quit,
                    sender, stream, fault>>
  \/ /\ worker = "bind" /\ endpoint = 0 /\ call > 1
     /\ Fails("freedEndpoint")

Publish ==
  /\ Goes("publish", "attach")
  /\ initMedia' = TRUE /\ active' = TRUE
  /\ UNCHANGED <<call, attach, transport, hooked, endpoint, quit, createFailed,
                 sender, stream, fault>>

(* init_recv_rtp: attaches only initialised, active media.                 *)
InitRecvRtp ==
  LET attaches == initMedia /\ active
  IN \/ /\ Goes("attach", "out")
        /\ attaches => transport = "open"
        /\ attach' = (attach \/ attaches) /\ hooked' = (hooked \/ attaches)
        /\ UNCHANGED <<call, initMedia, active, transport, endpoint, quit,
                       createFailed, sender, stream, fault>>
     \/ /\ worker = "attach" /\ attaches /\ transport # "open"
        /\ Fails(TransportFault)

WorkerStep ==
  \/ Detach \/ StopEndpoint \/ JoinEndpoint \/ FreePools \/ ClearInitMedia
  \/ CreateEndpoint \/ CreateTransport \/ Publish \/ InitRecvRtp

-----------------------------------------------------------------------------
(* A frame of the camera: rtspDataCB, then the decoder of the local window *)

SendRtp ==
  /\ sender = "out"
  /\ sender' = IF initMedia /\ transport # "null" THEN "loop" ELSE "decode"
  /\ UNCHANGED <<worker, media, stream, fault>>

(* One packet of the frame; it may be the last one, or its header may not  *)
(* be encoded.                                                             *)
SendPacket ==
  \/ /\ sender = "loop" /\ transport = "open"
     /\ sender' \in {"loop", "decode"}
     /\ UNCHANGED <<worker, media, stream, fault>>
  \/ /\ sender = "loop" /\ transport # "open"
     /\ Fails(TransportFault)

DecodeLocal ==
  /\ sender = "decode" /\ sender' = "out"
  /\ UNCHANGED <<worker, media, stream, fault>>

SenderStep == SendRtp \/ SendPacket \/ DecodeLocal

-----------------------------------------------------------------------------
(* The thread of the endpoint                                              *)

(* Mutation: the thread does not look whether it has to quit.              *)
TestNothing ==
  /\ receiver = "test" /\ receiver' = "poll"
  /\ UNCHANGED <<worker, media, sender, outbuf, frame, fault>>

TestQuit ==
  /\ receiver = "test"
  /\ receiver' = IF quit THEN "none" ELSE "poll"
  /\ UNCHANGED <<worker, media, sender, outbuf, frame, fault>>

(* No packet, or one that is not an RTP packet or comes while the stream   *)
(* is not active.                                                          *)
PollNothing ==
  /\ receiver = "poll" /\ receiver' = "test"
  /\ UNCHANGED <<worker, media, sender, outbuf, frame, fault>>

(* on_rx_rtp up to the data callback: the payload is appended to outbuf,   *)
(* and a packet with the marker bit ends the frame.                        *)
OnRxRtp ==
  /\ receiver = "poll" /\ hooked /\ active
  /\ outbuf' = outbuf \cup {endpoint}
  /\ \/ receiver' = "test" /\ UNCHANGED frame
     \/ /\ receiver' = "decode"
        /\ frame' = [call |-> endpoint, from |-> outbuf',
                     nth |-> IF frame.call # endpoint THEN 1 ELSE 2]
  /\ UNCHANGED <<worker, media, sender, fault>>

(* Mutation: the buffer of the delivered frame is kept for the next one.   *)
DecodeRemoteAndKeep ==
  /\ receiver = "decode" /\ receiver' = "test"
  /\ UNCHANGED <<worker, media, sender, outbuf, frame, fault>>

(* The data callback decodes the frame, and outbuf is freed.               *)
DecodeRemote ==
  /\ receiver = "decode" /\ receiver' = "test"
  /\ outbuf' = {}
  /\ UNCHANGED <<worker, media, sender, frame, fault>>

ReceiverStep == TestQuit \/ PollNothing \/ OnRxRtp \/ DecodeRemote

-----------------------------------------------------------------------------
(* A step of one of the threads, as long as nothing was misused.           *)
Step(A) ==
  /\ fault = "none" /\ A
  /\ raced' = (raced \/ (worker' \in Tearing /\ sender' = "loop"))

Next ==
  \/ Step(InitLocalRtp) \/ Step(WorkerStep) \/ Step(SenderStep)
  \/ Step(ReceiverStep)

(* The threads of the process are scheduled.  No call, packet or frame of  *)
(* the camera has to come.                                                 *)
Fairness == WF_vars(Step(WorkerStep)) /\ WF_vars(Step(ReceiverStep))

Spec     == Init /\ [][Next]_vars
FairSpec == Spec /\ Fairness

-----------------------------------------------------------------------------
(* Properties                                                              *)

(* The transport and the endpoint are there for everybody who calls them,  *)
(* unless the creation of one of them failed or send_rtp ran together with *)
(* destroy_media: with the rest of init_local_rtp send_rtp may run         *)
(* together, because m_bInitMedia is set only when the transport exists.   *)
(* And there is never a second thread in on_rx_rtp, which owns outbuf      *)
(* without a lock.                                                         *)
TransportSafe ==
  /\ fault \in {"nullTransport", "freedTransport", "freedEndpoint"}
       => createFailed \/ raced
  /\ fault # "secondReceiver"

(* The packets that a call leaves in outbuf do no more harm than spoil the *)
(* first frame of the next call whose packets arrive: every later frame    *)
(* consists of packets of its own call.                                    *)
OnlyFirstFrameMixed == frame.nth = 2 => frame.from = {frame.call}

(* init_local_rtp returns to the SIP worker: the thread that destroy_media *)
(* waits for sees that it has to quit, however many packets still arrive.  *)
InitReturns == worker # "out" ~> worker = "out" \/ fault # "none"

(* How far the SIP worker is from the end of init_local_rtp, counting the  *)
(* steps of the endpoint's thread while the worker waits for it: a packet  *)
(* on its way to the data callback makes that one step more.               *)
WorkerLeft ==
  [out |-> 0, attach |-> 1, publish |-> 2, bind |-> 3, create |-> 4,
   clear |-> 5, free |-> 6, join |-> 7, stop |-> 8, detach |-> 9][worker]
ReceiverLeft == [none |-> 0, test |-> 1, decode |-> 2, poll |-> 3][receiver]
StepsLeft    == 4 * WorkerLeft + (IF worker = "join" THEN ReceiverLeft ELSE 0)

(* Once init_local_rtp runs, no step of any thread takes it further from   *)
(* its end; each step of its own, and each step of a thread it waits for,  *)
(* brings it nearer.  So the wait for the thread is bounded, whatever the  *)
(* packets and frames, and never starts anew.                              *)
InitComesNearer ==
  [][worker # "out" =>
       /\ StepsLeft' <= StepsLeft
       /\ worker' # worker => StepsLeft' < StepsLeft
       /\ worker = "join" /\ receiver' # receiver => StepsLeft' < StepsLeft]_vars
=============================================================================
