------------------------------ MODULE Intercom ------------------------------
(***************************************************************************)
(* The dialog of the video intercom (sipclientDlg.cpp) and what it drives  *)
(* in pjsua_app.cpp: the call, the list of schools and cameras that        *)
(* clients ask of the proxy in SIP MESSAGEs (KSLP), and the RTP transport  *)
(* that is created when a call is confirmed.  The role of an instance is   *)
(* its appType setting: a client calls, hangs up and has the tree; a proxy *)
(* answers at once and has the cameras.  The buttons that the resource     *)
(* file leaves invisible (Answer, Hungup2, Getlist, ...) cannot be used.   *)
(*                                                                         *)
(* The handlers of the dialog run on the UI thread, UpdateStatus and       *)
(* OnRecvMsg on the threads of pjsip.  A handler is one step, except that  *)
(* a reply may come between send_message and the store to m_MsgState.      *)
(***************************************************************************)
EXTENDS Naturals, Sequences

CONSTANTS
  Clients, Proxy,   (* instances of the program                            *)
  MaxUses           (* bound: calls and double clicks in trees, together   *)

ASSUME IntercomAssumption ==
  /\ Proxy \notin Clients
  /\ MaxUses \in Nat

Nodes  == Clients \cup {Proxy}
NoCall == 0         (* call_id = -1                                        *)
NoMsgState == 9     (* no store to m_MsgState is due                       *)
CLIENT_RTP_PORT == 6060
PROXY_RTP_PORT  == 6070

VARIABLES
  calls,       (* the calls made so far: caller and state of each leg      *)
  net,         (* the SIP messages under way                               *)
  callId,      (* call_id                                                  *)
  nOp,         (* m_nOp: 0 idle, 1 call out, 2 call in                     *)
  localPort,   (* g_local_port                                             *)
  remote,      (* g_remote_ip and g_remote_port                            *)
  transport,   (* video.transport: "null", "live", or "freed" memory       *)
  attached,    (* where the transport sends                                *)
  bound,       (* the ports of the sockets that the process has open       *)
  msgState,    (* m_MsgState: 0 idle, 1 waits for schools, 2 for cameras   *)
  pending,     (* the value that the UI thread is about to store to it     *)
  tree,        (* m_Tree                                                   *)
  schoolName,  (* what m_szScoolName is the name of                        *)
  requests,    (* the double clicks so far                                 *)
  overlapped,  (* history: nodes that had two calls at a time              *)
  hung,        (* history: calls during which the caller pressed Hungup    *)
  unmade,      (* history: clients whose last press of Call made no call,  *)
               (* until they hang up or see a call end                     *)
  raced        (* history: clients that asked again before they had the    *)
               (* reply, or had a reply before the store to m_MsgState     *)

callVars  == <<calls, callId, nOp, localPort, remote, overlapped, hung,
               unmade>>
mediaVars == <<transport, attached, bound>>
msgVars   == <<msgState, pending, tree, schoolName, requests, raced>>
vars      == <<net, callVars, mediaVars, msgVars>>

Address == [node : Nodes, port : {0, CLIENT_RTP_PORT, PROXY_RTP_PORT}]
Nowhere == [node |-> Proxy, port |-> 0]
Items   == {"none", "school", "camera"}

Call == [from : Clients,
         uac  : {"calling", "confirmed", "ending", "ended"},
         uas  : {"none", "connecting", "confirmed", "ended"}]

Message ==
  [kind : {"INVITE", "OK"}, call : 1 .. MaxUses, sdp : Address]
  \cup [kind : {"ACK", "BYE", "BYEOK"}, call : 1 .. MaxUses]
  \cup [kind : {"LIST", "REPLY"}, call : 0 .. MaxUses, to : Nodes,
        asker : Nodes, of : {"city", "school", "camera"}, id : Nat]
  \cup [kind : {"PLAY"}, call : 0 .. MaxUses, to : Nodes, id : Nat]

TypeOK ==
  /\ calls \in Seq(Call) /\ Len(calls) <= MaxUses
  /\ net \subseteq Message
  /\ callId \in [Nodes -> 0 .. MaxUses] /\ nOp \in [Nodes -> 0 .. 2]
  /\ localPort \in [Nodes -> {0, CLIENT_RTP_PORT, PROXY_RTP_PORT}]
  /\ remote \in [Nodes -> Address]
  /\ transport \in [Nodes -> {"null", "live", "freed"}]
  /\ attached \in [Nodes -> Address]
  /\ bound \in [Nodes -> SUBSET {CLIENT_RTP_PORT, PROXY_RTP_PORT}]
  /\ msgState \in [Nodes -> 0 .. 2]
  /\ pending \in [Nodes -> 0 .. 2 \cup {NoMsgState}]
  /\ tree \in [Nodes -> [place : 0 .. 2, list : Items, label : Items]]
  /\ schoolName \in [Nodes -> Items]
  /\ requests \in 0 .. MaxUses
  /\ overlapped \subseteq Nodes /\ raced \subseteq Nodes
  /\ hung \subseteq 1 .. MaxUses /\ unmade \subseteq Clients

Init ==
  /\ calls = <<>> /\ net = {}
  /\ callId = [n \in Nodes |-> NoCall] /\ nOp = [n \in Nodes |-> 0]
  /\ localPort = [n \in Nodes |-> 0] /\ remote = [n \in Nodes |-> Nowhere]
  /\ transport = [n \in Nodes |-> "null"]
  /\ attached = [n \in Nodes |-> Nowhere] /\ bound = [n \in Nodes |-> {}]
  /\ msgState = [n \in Nodes |-> 0]
  /\ pending = [n \in Nodes |-> NoMsgState]
  /\ tree = [n \in Nodes |-> [place |-> 0, list |-> "none", label |-> "none"]]
  /\ schoolName = [n \in Nodes |-> "none"]
  /\ requests = 0
  /\ overlapped = {} /\ hung = {} /\ unmade = {} /\ raced = {}

Leg(n, c)  == IF n = Proxy THEN calls[c].uas ELSE calls[c].uac
Party(n)   == {c \in DOMAIN calls : n \in {Proxy, calls[c].from}}
Peer(n, c) == IF n = Proxy THEN calls[c].from ELSE Proxy
Live(n)    == {c \in Party(n) : Leg(n, c) \notin {"none", "ended"}}

Uses == Len(calls) + requests

Idle(n) == pending[n] = NoMsgState   (* the UI thread is not in a handler  *)

-----------------------------------------------------------------------------
(* The RTP transport (pjsua_app.cpp)                                       *)

(* pjmedia_transport_udp_create (external) binds the port; without the     *)
(* socket option to share it that fails when the process has it open.      *)
UdpCreate(n) == localPort[n] \notin bound[n]

(* init_local_rtp.  destroy_media frees the pool in which the transport    *)
(* lives but does not close its socket; the results of the calls are       *)
(* ignored, so a failed bind leaves the pointer to the freed transport.    *)
InitLocalRtp(n) ==
  /\ transport' = [transport EXCEPT ![n] =
                     IF UdpCreate(n) THEN "live" ELSE "freed"]
  /\ bound' = [bound EXCEPT ![n] = @ \cup {localPort[n]}]
  /\ attached' = [attached EXCEPT ![n] = remote'[n]]

-----------------------------------------------------------------------------
(* What the dialog does when pjsua reports the state of a call             *)

(* Mutation: the comment for incoming calls without the code.              *)
ConfirmedOut(n, c) ==
  /\ callId' = [callId EXCEPT ![n] = c]
  /\ IF nOp[n] = 1 THEN InitLocalRtp(n) ELSE UNCHANGED mediaVars

Confirmed(n, c) ==
  /\ callId' = [callId EXCEPT ![n] = c]
  /\ IF nOp[n] \in {1, 2} THEN InitLocalRtp(n) ELSE UNCHANGED mediaVars

(* Mutation: the dialog forgets the operation but not the call.            *)
DisconnectedOp(n) ==
  /\ nOp' = [nOp EXCEPT ![n] = 0] /\ unmade' = unmade \ {n}
  /\ UNCHANGED callId

Disconnected(n) ==
  /\ nOp' = [nOp EXCEPT ![n] = 0] /\ unmade' = unmade \ {n}
  /\ callId' = [callId EXCEPT ![n] = NoCall]

-----------------------------------------------------------------------------
(* Calls.  What pjsua and the network do between the handlers is external: *)
(* INVITE, 200, ACK, BYE, 200, each delivered once and in any order.       *)

Overlap(n) == overlapped' = overlapped \cup IF Live(n) = {} THEN {} ELSE {n}

(* sip_call.  pjsua makes the call, and with it the offer                 *)
(* (on_call_sdp_created); or it makes none and reports nothing, for there  *)
(* is no account or the name in the dialog gives no valid URI.             *)
SipCall(n) ==
  \/ /\ calls' = Append(calls, [from |-> n, uac |-> "calling", uas |-> "none"])
     /\ net' = net \cup {[kind |-> "INVITE", call |-> Len(calls'),
                          sdp |-> [node |-> n, port |-> localPort'[n]]]}
     /\ Overlap(n)
     /\ unmade' = unmade \ {n}
  \/ /\ unmade' = unmade \cup {n}
     /\ UNCHANGED <<calls, net, overlapped>>

(* OnBnClickedButtonCall; it does not look at the result of sip_call.      *)
ButtonCall(n) ==
  /\ n \in Clients /\ Idle(n) /\ Uses < MaxUses
  /\ localPort' = [localPort EXCEPT ![n] = CLIENT_RTP_PORT]
  /\ nOp' = [nOp EXCEPT ![n] = 1]
  /\ SipCall(n)
  /\ UNCHANGED <<callId, remote, hung, mediaVars, msgVars>>

(* OnBnClickedButtonHungup; pjsua_call_hangup refuses -1, so a call that   *)
(* is not yet answered goes on.                                            *)
ButtonHungup(n) ==
  /\ n \in Clients /\ Idle(n)
  /\ nOp' = [nOp EXCEPT ![n] = 0]
  /\ hung' = hung \cup Live(n) /\ unmade' = unmade \ {n}
  /\ IF callId[n] # NoCall /\ calls[callId[n]].uac = "confirmed"
     THEN /\ calls' = [calls EXCEPT ![callId[n]].uac = "ending"]
          /\ net' = net \cup {[kind |-> "BYE", call |-> callId[n]]}
     ELSE UNCHANGED <<calls, net>>
  /\ UNCHANGED <<callId, localPort, remote, overlapped, mediaVars,
                 msgVars>>

(* An SDP in any message, requests and answers, sets g_remote_*            *)
(* (log_on_rx_msg).                                                        *)
LogOnRxMsg(n, m) == remote' = [remote EXCEPT ![n] = m.sdp]

(* log_on_rx_msg, on_incoming_call, UpdateStatus(INCOMING_CALL) and in it  *)
(* OnBnClickedButtonAnswer.  The SDP of the answer may be created before   *)
(* or after set_local_rtpport.                                             *)
IncomingCall(m) ==
  /\ m.kind = "INVITE"
  /\ LogOnRxMsg(Proxy, m)
  /\ callId' = [callId EXCEPT ![Proxy] = m.call]
  /\ localPort' = [localPort EXCEPT ![Proxy] = PROXY_RTP_PORT]
  /\ nOp' = [nOp EXCEPT ![Proxy] = 2]
  /\ calls' = [calls EXCEPT ![m.call].uas = "connecting"]
  /\ \E port \in {localPort[Proxy], PROXY_RTP_PORT} :
       net' = (net \ {m}) \cup
              {[kind |-> "OK", call |-> m.call,
                sdp |-> [node |-> Proxy, port |-> port]]}
  /\ Overlap(Proxy)
  /\ UNCHANGED <<hung, unmade, mediaVars, msgVars>>

(* The 200 reaches the caller: ACK, then UpdateStatus(CONFIRMED).          *)
CallerConfirmed(m) ==
  LET n == calls[m.call].from
  IN /\ m.kind = "OK"
     /\ LogOnRxMsg(n, m)
     /\ calls' = [calls EXCEPT ![m.call].uac = "confirmed"]
     /\ net' = (net \ {m}) \cup {[kind |-> "ACK", call |-> m.call]}
     /\ Confirmed(n, m.call)
     /\ UNCHANGED <<nOp, localPort, overlapped, hung, unmade, msgVars>>

(* The ACK reaches the proxy, unless the BYE was there before it.          *)
CalleeConfirmed(m) ==
  /\ m.kind = "ACK"
  /\ net' = net \ {m}
  /\ IF calls[m.call].uas = "ended"
     THEN UNCHANGED <<calls, callId, remote, mediaVars>>
     ELSE /\ calls' = [calls EXCEPT ![m.call].uas = "confirmed"]
          /\ UNCHANGED remote
          /\ Confirmed(Proxy, m.call)
  /\ UNCHANGED <<nOp, localPort, overlapped, hung, unmade, msgVars>>

(* on_call_state(DISCONNECTED) at the proxy and then at the caller.        *)
CalleeDisconnected(m) ==
  /\ m.kind = "BYE"
  /\ calls' = [calls EXCEPT ![m.call].uas = "ended"]
  /\ net' = (net \ {m}) \cup {[kind |-> "BYEOK", call |-> m.call]}
  /\ Disconnected(Proxy)
  /\ UNCHANGED <<localPort, remote, overlapped, hung, mediaVars, msgVars>>

CallerDisconnected(m) ==
  /\ m.kind = "BYEOK"
  /\ calls' = [calls EXCEPT ![m.call].uac = "ended"]
  /\ net' = net \ {m}
  /\ Disconnected(calls[m.call].from)
  /\ UNCHANGED <<localPort, remote, overlapped, hung, mediaVars, msgVars>>

-----------------------------------------------------------------------------
(* Lists of schools and cameras                                            *)

(* Mutation: the number of the call is used as the user.                   *)
SendToCall(n, dest) == IF callId[n] # NoCall THEN callId[n] ELSE dest

(* send_message: within the call if there is one, whoever is to have the   *)
(* message, else to the user dest.                                         *)
SendTo(n, dest) == IF callId[n] # NoCall THEN Peer(n, callId[n]) ELSE dest

(* The messages of the double clicks.                                      *)
List(n, of) ==
  [kind |-> "LIST", asker |-> n, of |-> of,
   call |-> callId[n], to |-> SendTo(n, Proxy), id |-> requests + 1]

PlayMessage(n) ==
  [kind |-> "PLAY",
   call |-> callId[n], to |-> SendTo(n, Proxy), id |-> requests + 1]

(* A double click sends m, and then the state is to be stored.             *)
Ask(n, m, state) ==
  /\ n \in Clients /\ Idle(n) /\ Uses < MaxUses
  /\ requests' = requests + 1
  /\ net' = net \cup {m}
  /\ pending' = [pending EXCEPT ![n] = state]
  /\ raced' = raced \cup
       IF \E q \in net : q.kind \in {"LIST", "REPLY"} /\ q.asker = n
       THEN {n} ELSE {}
  /\ UNCHANGED <<callVars, mediaVars, msgState, tree, schoolName>>

(* OnNMDblclkTree1 on the city: GetSchoolList.                             *)
GetSchoolList(n) == Ask(n, List(n, "city"), 1)

(* The text of the items below the city.                                   *)
SchoolItem(n) == IF tree[n].place = 1 THEN tree[n].list ELSE tree[n].label

(* Mutation: the state that the schools are waited for in.                 *)
GetCameraListAsSchools(n) ==
  /\ tree[n].place # 0
  /\ Ask(n, List(n, SchoolItem(n)), 1)

(* OnNMDblclkTree1 on an item below the city.                              *)
GetCameraList(n) ==
  /\ tree[n].place # 0
  /\ Ask(n, List(n, SchoolItem(n)), 2)

(* OnNMDblclkTree1 on an item below a school; the index is left out, for   *)
(* StartRtsp does not use it.                                              *)
Play(n) ==
  /\ tree[n].place = 2
  /\ Ask(n, PlayMessage(n), 0)

(* The store to m_MsgState that ends the handlers of a double click.       *)
StoreMsgState(n) ==
  /\ ~Idle(n)
  /\ msgState' = [msgState EXCEPT ![n] = pending[n]]
  /\ pending' = [pending EXCEPT ![n] = NoMsgState]
  /\ UNCHANGED <<net, callVars, mediaVars, tree, schoolName,
                 requests, raced>>

(* The lists that a node in state 0 answers with; to an item that is not   *)
(* a school it does not answer.                                            *)
ListOf == [city |-> "school", school |-> "camera"]

Reply(n, m) ==
  {[kind |-> "REPLY", asker |-> m.asker, of |-> ListOf[m.of], id |-> m.id,
    call |-> callId[n], to |-> SendTo(n, m.asker)] :
     of \in {m.of} \cap DOMAIN ListOf}

(* A reply in state 1 fills the tree with what it lists as the schools, in *)
(* state 2 as the cameras of m_szScoolName.  In either state the loop over *)
(* the lines leaves the last item in m_szScoolName.                        *)
ShowList(n, list) ==
  /\ tree' = [tree EXCEPT ![n] =
       [place |-> msgState[n], list |-> list,
        label |-> IF msgState[n] = 2 THEN schoolName[n] ELSE "none"]]
  /\ schoolName' = [schoolName EXCEPT ![n] = list]
  /\ msgState' = [msgState EXCEPT ![n] = 0]

(* OnRecvMsg; pjsua (external) gives it the messages of calls that live.   *)
(* What StartRtsp does on a PLAY in state 0 is in RtspSession.             *)
OnRecvMsg(m) ==
  LET n == m.to
      arrives == m.call = NoCall \/ m.call \in Live(n)
  IN /\ m.kind \in {"LIST", "REPLY", "PLAY"}
     /\ net' = (net \ {m}) \cup
          IF arrives /\ msgState[n] = 0 /\ m.kind = "LIST"
          THEN Reply(n, m) ELSE {}
     /\ IF arrives /\ msgState[n] \in {1, 2} /\ m.kind = "REPLY"
        THEN ShowList(n, m.of)
        ELSE UNCHANGED <<tree, schoolName, msgState>>
     /\ raced' = raced \cup
          IF arrives /\ m.kind = "REPLY" /\ ~Idle(n) THEN {n} ELSE {}
     /\ UNCHANGED <<callVars, mediaVars, pending, requests>>

Next ==
  \/ \E n \in Clients :
       \/ ButtonCall(n) \/ ButtonHungup(n)
       \/ GetSchoolList(n) \/ GetCameraList(n) \/ Play(n)
       \/ StoreMsgState(n)
  \/ \E m \in net :
       \/ IncomingCall(m) \/ CallerConfirmed(m) \/ CalleeConfirmed(m)
       \/ CalleeDisconnected(m) \/ CallerDisconnected(m)
       \/ OnRecvMsg(m)

Spec == Init /\ [][Next]_vars

-----------------------------------------------------------------------------
(* Properties                                                              *)

(* A client that was in no call, and whose requests and replies came one   *)
(* after the other, sees what it asked for: schools below the city,        *)
(* cameras below a school.  Every reply looks alike and goes to the call   *)
(* of the proxy if it has one; only m_MsgState says what it answers.       *)
TreeIsOfRequest ==
  \A n \in Clients \ raced :
    Party(n) = {} =>
      tree[n].list = <<"none", "school", "camera">>[tree[n].place + 1]

(* The first call of a proxy and a caller gets its video: while no other   *)
(* call reached either of them and the user did not hang up, both have a   *)
(* live transport when they see the call confirmed, and the proxy sends    *)
(* to the port that the caller has open.                                   *)
FirstCallHasVideo ==
  \A c \in DOMAIN calls :
    LET n == calls[c].from
    IN /\ calls[c].uac = "confirmed" /\ calls[c].uas = "confirmed"
       /\ c \notin hung
       /\ \A d \in DOMAIN calls \ {c} :
            calls[d].from # n /\ calls[d].uas = "none"
       => /\ transport[n] = "live" /\ transport[Proxy] = "live"
          /\ attached[Proxy].node = n /\ attached[Proxy].port \in bound[n]
          /\ attached[n].node = Proxy

(* The operation is of a live call that the user did not hang up, or of a  *)
(* press of Call that made none.                                           *)
OperationFits(n) ==
  LET forgotten == IF n = Proxy THEN {} ELSE hung
  IN /\ nOp[n] = 0 => Live(n) \subseteq forgotten
     /\ Live(n) \subseteq forgotten => nOp[n] = 0 \/ n \in unmade

(* The one call id and the one operation of the dialog are those of its    *)
(* call: the id never outlives the call that it names (pjsua may give the  *)
(* number to another call); and as long as the node never had two calls at *)
(* a time, a call that it sees confirmed is the one that Hungup reaches,   *)
(* the dialog is idle only while the node is in no call but one that the   *)
(* user hung up, and it has an operation only for another live call, or    *)
(* because the last press of Call made none: sip_call failed and nothing   *)
(* takes the operation back.                                               *)
DialogKnowsItsCall ==
  \A n \in Nodes :
    /\ callId[n] # NoCall => callId[n] \in Live(n)
    /\ n \notin overlapped =>
         /\ \A c \in Live(n) : Leg(n, c) = "confirmed" => callId[n] = c
         /\ OperationFits(n)

(* "Get the cameras of the school" (sipclientDlg.cpp:730): what a client   *)
(* asks the cameras of, when it waits for each reply, is a school.         *)
AsksSchools ==
  \A m \in net : m.kind = "LIST" /\ m.of = "camera" => m.asker \in raced
=============================================================================
