--------------------------- MODULE IntercomProofs ---------------------------
(***************************************************************************)
(* Proofs about Intercom, for any clients and any number of calls and      *)
(* double clicks.                                                          *)
(***************************************************************************)
EXTENDS Intercom, TLAPS

Seqs == INSTANCE SequenceTheorems

-----------------------------------------------------------------------------
(* The inductive invariant                                                 *)

CallKinds == {"INVITE", "OK", "ACK", "BYE", "BYEOK"}
ListKinds == {"LIST", "REPLY"}

(* What a message of a call under way says of the legs of the call.        *)
SaysOf(m, call) ==
  /\ m.kind = "INVITE" => call.uac = "calling" /\ call.uas = "none"
  /\ m.kind = "OK" => call.uac = "calling" /\ call.uas = "connecting"
  /\ m.kind = "ACK" => call.uac # "calling" /\ call.uas \in {"connecting", "ended"}
  /\ m.kind = "BYE" => call.uac = "ending" /\ call.uas \in {"connecting", "confirmed"}
  /\ m.kind = "BYEOK" => call.uac = "ending" /\ call.uas = "ended"

WireInv ==
  /\ \A m \in net : m.kind \in CallKinds =>
       m.call \in DOMAIN calls /\ SaysOf(m, calls[m.call])
  /\ \A m, q \in net : m.kind = q.kind /\ m.kind \in {"INVITE", "OK"} /\ m.call = q.call
                       => m = q

LegInv ==
  /\ \A c \in DOMAIN calls :
       /\ calls[c].uac = "confirmed" => calls[c].uas \in {"connecting", "confirmed"}
       /\ calls[c].uac \in {"ending", "ended"} => c \in hung
  /\ hung \subseteq DOMAIN calls

(* A node in an operation has a port for its video.                        *)
PortInv == \A n \in Nodes : nOp[n] # 0 => localPort[n] # 0

OneCall == \A n \in Nodes \ overlapped : \A c, d \in Live(n) : c = d

(* The first call of a proxy and a caller, step by step.                   *)
Fresh(n) == transport[n] = "null" /\ bound[n] = {}

Alone(c) ==
  /\ c \notin hung
  /\ \A d \in DOMAIN calls \ {c} :
       calls[d].from # calls[c].from /\ calls[d].uas = "none"

CallerMedia(n, c) ==
  /\ localPort[n] = CLIENT_RTP_PORT /\ nOp[n] = 1
  /\ calls[c].uac = "calling" => Fresh(n)
  /\ calls[c].uac = "confirmed" =>
       /\ transport[n] = "live" /\ bound[n] = {CLIENT_RTP_PORT}
       /\ attached[n].node = Proxy

CalleeMedia(n, c) ==
  /\ calls[c].uas \in {"connecting", "confirmed"} =>
       /\ nOp[Proxy] = 2 /\ localPort[Proxy] = PROXY_RTP_PORT
       /\ remote[Proxy] = [node |-> n, port |-> CLIENT_RTP_PORT]
  /\ calls[c].uas = "connecting" => Fresh(Proxy)
  /\ calls[c].uas = "confirmed" =>
       /\ transport[Proxy] = "live"
       /\ attached[Proxy] = [node |-> n, port |-> CLIENT_RTP_PORT]

MediaInv ==
  /\ \A n \in Clients : Party(n) = {} => Fresh(n)
  /\ (\A c \in DOMAIN calls : calls[c].uas = "none") => Fresh(Proxy)
  /\ \A m \in net :
       /\ m.kind = "INVITE" =>
            m.sdp = [node |-> calls[m.call].from, port |-> CLIENT_RTP_PORT]
       /\ m.kind = "OK" => m.sdp.node = Proxy
  /\ \A c \in DOMAIN calls : Alone(c) =>
       CallerMedia(calls[c].from, c) /\ CalleeMedia(calls[c].from, c)

(* The names in the tree, and where the messages about lists go.           *)
TreeInv ==
  /\ msgState[Proxy] = 0 /\ pending[Proxy] = NoMsgState
  /\ \A n \in Nodes :
       /\ tree[n].place # 0 => tree[n].list # "none" /\ schoolName[n] # "none"
       /\ tree[n].place = 2 => tree[n].label # "none"
       /\ 2 \in {msgState[n], pending[n]} => tree[n].place # 0
  /\ \A m \in net : m.kind = "REPLY" =>
       /\ m.of \in {"school", "camera"}
       /\ m.call = NoCall => m.to = m.asker

(* The state that n waits in once its double click is done.                *)
Awaits(n) == IF Idle(n) THEN msgState[n] ELSE pending[n]

(* A client outside of calls that asks one thing at a time.                *)
Orderly == {n \in Clients \ raced : Party(n) = {}}

AskInv ==
  \A n \in Orderly :
    /\ \A m \in net : m.kind \in ListKinds /\ m.asker = n =>
         Awaits(n) = IF m.of = (IF m.kind = "LIST" THEN "city" ELSE "school") THEN 1 ELSE 2
    /\ \A m, q \in net : /\ m.kind \in ListKinds /\ q.kind \in ListKinds
                         /\ m.asker = n /\ q.asker = n
                         => m = q
    /\ tree[n].list = <<"none", "school", "camera">>[tree[n].place + 1]

IInv ==
  /\ TypeOK /\ WireInv /\ LegInv /\ PortInv /\ OneCall /\ DialogKnowsItsCall
  /\ MediaInv /\ TreeInv /\ AskInv

-----------------------------------------------------------------------------
(* Types                                                                   *)

LEMMA CallFacts ==
  ASSUME TypeOK
  PROVE  /\ Len(calls) \in Nat /\ DOMAIN calls = 1 .. Len(calls)
         /\ NoCall \notin DOMAIN calls /\ DOMAIN calls \subseteq 1 .. MaxUses
         /\ \A c \in DOMAIN calls :
              /\ calls[c] \in Call
              /\ calls[c].from \in Clients /\ calls[c].from # Proxy
              /\ calls[c].from \in Nodes
              /\ calls[c].uac \in {"calling", "confirmed", "ending", "ended"}
              /\ calls[c].uas \in {"none", "connecting", "confirmed", "ended"}
<1>1. calls \in Seq(Call) /\ Len(calls) <= MaxUses
  BY DEF TypeOK
<1>2. Len(calls) \in Nat /\ DOMAIN calls = 1 .. Len(calls)
  BY <1>1
<1>3. \A c \in DOMAIN calls : calls[c] \in Call
  BY <1>1, <1>2, Seqs!ElementOfSeq
<1> QED
  BY <1>1, <1>2, <1>3, IntercomAssumption DEF Call, NoCall, Nodes

LEMMA MessageFacts ==
  ASSUME NEW m \in Message
  PROVE  /\ m.kind \in CallKinds \cup {"LIST", "REPLY", "PLAY"}
         /\ m.kind \in CallKinds => m.call \in 1 .. MaxUses
         /\ m.kind \in {"INVITE", "OK"} => m.sdp \in Address
         /\ m.kind \in {"LIST", "REPLY", "PLAY"} =>
              m.call \in 0 .. MaxUses /\ m.to \in Nodes /\ m.id \in Nat
         /\ m.kind \in {"LIST", "REPLY"} =>
              m.asker \in Nodes /\ m.of \in {"city", "school", "camera"}
  BY DEF Message, CallKinds

WithUac(c, s) == [calls EXCEPT ![c].uac = s]

LEMMA SetUac ==
  ASSUME TypeOK, NEW c \in DOMAIN calls,
         NEW s \in {"calling", "confirmed", "ending", "ended"},
         NEW next, next = WithUac(c, s)
  PROVE  /\ next \in Seq(Call) /\ Len(next) = Len(calls) /\ DOMAIN next = DOMAIN calls
         /\ \A d \in DOMAIN calls :
              next[d].from = calls[d].from /\ next[d].uas = calls[d].uas
         /\ \A d \in DOMAIN calls \ {c} : next[d] = calls[d]
         /\ next[c].uac = s
<1>1. calls \in Seq(Call) /\ \A d \in DOMAIN calls : calls[d] \in Call
  BY CallFacts DEF TypeOK
<1>2. [calls[c] EXCEPT !.uac = s] \in Call
  BY <1>1 DEF Call
<1>3. next = [calls EXCEPT ![c] = [calls[c] EXCEPT !.uac = s]]
  BY DEF WithUac
<1>4. c \in 1 .. Len(calls) /\ DOMAIN calls = 1 .. Len(calls)
  BY CallFacts
<1>5. next \in Seq(Call) /\ Len(next) = Len(calls)
  BY <1>1, <1>2, <1>3, <1>4, Seqs!ExceptSeq
<1>6. DOMAIN next = DOMAIN calls /\ \A d \in DOMAIN calls \ {c} : next[d] = calls[d]
  BY <1>3
<1>7. next[c] = [calls[c] EXCEPT !.uac = s]
  BY <1>3
<1>8. next[c].from = calls[c].from /\ next[c].uas = calls[c].uas /\ next[c].uac = s
  BY <1>1, <1>7 DEF Call
<1> QED
  BY <1>5, <1>6, <1>8

WithUas(c, s) == [calls EXCEPT ![c].uas = s]

LEMMA SetUas ==
  ASSUME TypeOK, NEW c \in DOMAIN calls,
         NEW s \in {"none", "connecting", "confirmed", "ended"},
         NEW next, next = WithUas(c, s)
  PROVE  /\ next \in Seq(Call) /\ Len(next) = Len(calls) /\ DOMAIN next = DOMAIN calls
         /\ \A d \in DOMAIN calls :
              next[d].from = calls[d].from /\ next[d].uac = calls[d].uac
         /\ \A d \in DOMAIN calls \ {c} : next[d] = calls[d]
         /\ next[c].uas = s
<1>1. calls \in Seq(Call) /\ \A d \in DOMAIN calls : calls[d] \in Call
  BY CallFacts DEF TypeOK
<1>2. [calls[c] EXCEPT !.uas = s] \in Call
  BY <1>1 DEF Call
<1>3. next = [calls EXCEPT ![c] = [calls[c] EXCEPT !.uas = s]]
  BY DEF WithUas
<1>4. c \in 1 .. Len(calls) /\ DOMAIN calls = 1 .. Len(calls)
  BY CallFacts
<1>5. next \in Seq(Call) /\ Len(next) = Len(calls)
  BY <1>1, <1>2, <1>3, <1>4, Seqs!ExceptSeq
<1>6. DOMAIN next = DOMAIN calls /\ \A d \in DOMAIN calls \ {c} : next[d] = calls[d]
  BY <1>3
<1>7. next[c] = [calls[c] EXCEPT !.uas = s]
  BY <1>3
<1>8. next[c].from = calls[c].from /\ next[c].uac = calls[c].uac /\ next[c].uas = s
  BY <1>1, <1>7 DEF Call
<1> QED
  BY <1>5, <1>6, <1>8

WithCall(n) == Append(calls, [from |-> n, uac |-> "calling", uas |-> "none"])

LEMMA NewCall ==
  ASSUME TypeOK, NEW n \in Clients, NEW next, next = WithCall(n)
  PROVE  /\ next \in Seq(Call) /\ Len(next) = Len(calls) + 1
         /\ DOMAIN next = DOMAIN calls \cup {Len(next)} /\ Len(next) \notin DOMAIN calls
         /\ next[Len(next)].from = n
         /\ next[Len(next)].uac = "calling" /\ next[Len(next)].uas = "none"
<1> DEFINE e == [from |-> n, uac |-> "calling", uas |-> "none"]
<1>1. calls \in Seq(Call) /\ e \in Call
  BY DEF TypeOK, Call
<1>2. Len(calls) \in Nat /\ DOMAIN calls = 1 .. Len(calls)
  BY CallFacts
<1>3. e.from = n /\ e.uac = "calling" /\ e.uas = "none"
  OBVIOUS
<1>4. next = Append(calls, e)
  BY DEF WithCall
<1> HIDE DEF e
<1>5. /\ next \in Seq(Call) /\ Len(next) = Len(calls) + 1
      /\ \A d \in 1 .. Len(calls) : next[d] = calls[d]
      /\ next[Len(calls) + 1] = e
  BY <1>1, <1>4, Seqs!AppendProperties
<1>6. DOMAIN next = 1 .. Len(calls) + 1
  BY <1>5
<1> QED
  BY <1>2, <1>3, <1>5, <1>6

LEMMA NewCallKeeps ==
  ASSUME TypeOK, NEW n \in Clients, NEW next, next = WithCall(n), NEW d \in DOMAIN calls
  PROVE  next[d] = calls[d]
<1>1. calls \in Seq(Call) /\ d \in 1 .. Len(calls)
  BY CallFacts DEF TypeOK
<1> QED
  BY <1>1, Seqs!AppendProperties DEF WithCall

LEMMA NodeFacts ==
  /\ Proxy \in Nodes /\ Clients \subseteq Nodes /\ Proxy \notin Clients
  /\ MaxUses \in Nat
  /\ \A n \in Nodes : n # Proxy => n \in Clients
  BY IntercomAssumption DEF Nodes

LEMMA InitInv == Init => IInv
<1> SUFFICES ASSUME Init PROVE IInv
  OBVIOUS
<1> USE DEF Init, NoCall, NoMsgState
<1>1. TypeOK
  BY NodeFacts DEF TypeOK, Address, Nowhere, Items
<1>2. DOMAIN calls = {} /\ net = {} /\ hung = {}
  OBVIOUS
<1>3. \A n \in Nodes : Live(n) = {} /\ Party(n) = {}
  BY <1>2 DEF Live, Party
<1>4. WireInv /\ LegInv /\ PortInv /\ OneCall /\ DialogKnowsItsCall
  BY <1>2, <1>3 DEF WireInv, LegInv, PortInv, OneCall, DialogKnowsItsCall, OperationFits
<1>5. MediaInv
  BY <1>2, NodeFacts DEF MediaInv, Fresh
<1>6. TreeInv
  BY <1>2, NodeFacts DEF TreeInv
<1>7. AskInv
  BY <1>2, NodeFacts DEF AskInv, Orderly
<1> QED
  BY <1>1, <1>4, <1>5, <1>6, <1>7 DEF IInv

(* What UpdateStatus(CONFIRMED) does to the node, and to no other.         *)
LEMMA ConfirmedFacts ==
  ASSUME TypeOK, PortInv, NEW n \in Nodes, NEW c \in 1 .. MaxUses, Confirmed(n, c),
         remote' \in [Nodes -> Address]
  PROVE  /\ callId' \in [Nodes -> 0 .. MaxUses] /\ callId'[n] = c
         /\ \A o \in Nodes \ {n} : callId'[o] = callId[o]
         /\ transport' \in [Nodes -> {"null", "live", "freed"}]
         /\ attached' \in [Nodes -> Address]
         /\ bound' \in [Nodes -> SUBSET {CLIENT_RTP_PORT, PROXY_RTP_PORT}]
         /\ \A o \in Nodes \ {n} :
              /\ transport'[o] = transport[o]
              /\ attached'[o] = attached[o] /\ bound'[o] = bound[o]
         /\ nOp[n] \in {1, 2} /\ Fresh(n) =>
              /\ transport'[n] = "live" /\ bound'[n] = {localPort[n]}
              /\ attached'[n] = remote'[n]
<1>1. callId' = [callId EXCEPT ![n] = c] /\ callId \in [Nodes -> 0 .. MaxUses]
  BY DEF Confirmed, TypeOK
<1>2. callId' \in [Nodes -> 0 .. MaxUses]
  BY <1>1, NodeFacts
<1>3. CASE nOp[n] \in {1, 2}
  <2>1. /\ transport' = [transport EXCEPT ![n] =
                           IF UdpCreate(n) THEN "live" ELSE "freed"]
        /\ bound' = [bound EXCEPT ![n] = @ \cup {localPort[n]}]
        /\ attached' = [attached EXCEPT ![n] = remote'[n]]
    BY <1>3 DEF Confirmed, InitLocalRtp
  <2>2. localPort[n] \in {CLIENT_RTP_PORT, PROXY_RTP_PORT}
    BY <1>3 DEF TypeOK, PortInv
  <2>3. /\ transport \in [Nodes -> {"null", "live", "freed"}]
        /\ attached \in [Nodes -> Address]
        /\ bound \in [Nodes -> SUBSET {CLIENT_RTP_PORT, PROXY_RTP_PORT}]
    BY DEF TypeOK
  <2>4. transport' \in [Nodes -> {"null", "live", "freed"}] /\ attached' \in [Nodes -> Address]
    BY <2>1, <2>3
  <2>5. bound' \in [Nodes -> SUBSET {CLIENT_RTP_PORT, PROXY_RTP_PORT}]
    BY <2>1, <2>2, <2>3
  <2>6. \A o \in Nodes \ {n} :
          /\ transport'[o] = transport[o]
          /\ attached'[o] = attached[o] /\ bound'[o] = bound[o]
    BY <2>1, <2>3
  <2>7. Fresh(n) => /\ transport'[n] = "live" /\ bound'[n] = {localPort[n]}
                    /\ attached'[n] = remote'[n]
    BY <2>1, <2>3 DEF Fresh, UdpCreate
  <2> QED
    BY <1>1, <1>2, <2>4, <2>5, <2>6, <2>7
<1>4. CASE nOp[n] \notin {1, 2}
  <2>1. UNCHANGED <<transport, attached, bound>>
    BY <1>4 DEF Confirmed, mediaVars
  <2> QED
    BY <1>1, <1>2, <1>4, <2>1 DEF TypeOK
<1> QED
  BY <1>3, <1>4

LEMMA DisconnectedFacts ==
  ASSUME TypeOK, NEW n \in Nodes, Disconnected(n)
  PROVE  /\ callId' \in [Nodes -> 0 .. MaxUses] /\ callId'[n] = NoCall
         /\ nOp' \in [Nodes -> 0 .. 2] /\ nOp'[n] = 0
         /\ \A o \in Nodes \ {n} : callId'[o] = callId[o] /\ nOp'[o] = nOp[o]
         /\ unmade' = unmade \ {n}
<1>1. NoCall \in 0 .. MaxUses
  BY NodeFacts DEF NoCall
<1> QED
  BY <1>1 DEF Disconnected, TypeOK

-----------------------------------------------------------------------------
(* What the actions do                                                     *)

LEMMA CallsOnWire ==
  ASSUME TypeOK, WireInv, NEW m \in net, m.kind \in CallKinds
  PROVE  /\ m \in Message /\ m.call \in DOMAIN calls /\ m.call \in 1 .. MaxUses
         /\ SaysOf(m, calls[m.call])
         /\ calls[m.call].from \in Clients /\ calls[m.call].from \in Nodes
         /\ calls[m.call].from # Proxy
<1>1. m \in Message
  BY DEF TypeOK
<1>2. m.call \in DOMAIN calls /\ SaysOf(m, calls[m.call])
  BY DEF WireInv
<1> QED
  BY <1>1, <1>2, CallFacts

(* The call is not made.                                                   *)
CallFails(n) ==
  /\ unmade' = unmade \cup {n}
  /\ localPort' = [localPort EXCEPT ![n] = CLIENT_RTP_PORT]
  /\ nOp' = [nOp EXCEPT ![n] = 1]
  /\ UNCHANGED <<calls, net, callId, remote, overlapped, hung, mediaVars, msgVars>>

(* Or it is.                                                               *)
LEMMA ButtonCallFacts ==
  ASSUME TypeOK, NEW n \in Clients, ButtonCall(n), ~CallFails(n)
  PROVE  \E c \in 1 .. MaxUses :
            /\ calls' \in Seq(Call) /\ Len(calls') = c
            /\ c \notin DOMAIN calls /\ DOMAIN calls' = DOMAIN calls \cup {c}
            /\ \A d \in DOMAIN calls : calls'[d] = calls[d]
            /\ calls'[c].from = n
            /\ calls'[c].uac = "calling" /\ calls'[c].uas = "none"
            /\ net' = net \cup {[kind |-> "INVITE", call |-> c,
                                 sdp |-> [node |-> n, port |-> CLIENT_RTP_PORT]]}
            /\ localPort' = [localPort EXCEPT ![n] = CLIENT_RTP_PORT]
            /\ nOp' = [nOp EXCEPT ![n] = 1]
            /\ overlapped' = overlapped \cup IF Live(n) = {} THEN {} ELSE {n}
            /\ unmade' = unmade \ {n}
            /\ UNCHANGED <<callId, remote, hung, mediaVars, msgVars>>
<1>1. PICK next : next = WithCall(n)
  OBVIOUS
<1>2. PICK c : c = Len(next)
  OBVIOUS
<1>3. /\ next \in Seq(Call) /\ Len(next) = Len(calls) + 1
      /\ DOMAIN next = DOMAIN calls \cup {Len(next)} /\ Len(next) \notin DOMAIN calls
      /\ next[Len(next)].from = n
      /\ next[Len(next)].uac = "calling" /\ next[Len(next)].uas = "none"
  BY <1>1, NewCall
<1>9. \A d \in DOMAIN calls : next[d] = calls[d]
  BY <1>1, NewCallKeeps
<1>10. /\ calls' = Append(calls, [from |-> n, uac |-> "calling", uas |-> "none"])
       /\ net' = net \cup {[kind |-> "INVITE", call |-> Len(calls'),
                            sdp |-> [node |-> n, port |-> localPort'[n]]]}
       /\ Overlap(n) /\ unmade' = unmade \ {n}
  BY DEF ButtonCall, SipCall, CallFails
<1>4. calls' = next
  BY <1>1, <1>10 DEF WithCall
<1>5. c \in 1 .. MaxUses
  <2>1. c = Len(calls) + 1 /\ Len(calls) + requests < MaxUses
    BY <1>2, <1>3 DEF ButtonCall, Uses
  <2> QED
    BY <2>1, CallFacts, NodeFacts DEF TypeOK
<1>6. localPort'[n] = CLIENT_RTP_PORT
  BY NodeFacts DEF ButtonCall, TypeOK
<1>7. /\ net' = net \cup {[kind |-> "INVITE", call |-> c,
                           sdp |-> [node |-> n, port |-> CLIENT_RTP_PORT]]}
      /\ localPort' = [localPort EXCEPT ![n] = CLIENT_RTP_PORT]
      /\ nOp' = [nOp EXCEPT ![n] = 1]
      /\ overlapped' = overlapped \cup IF Live(n) = {} THEN {} ELSE {n}
      /\ unmade' = unmade \ {n}
      /\ UNCHANGED <<callId, remote, hung, mediaVars, msgVars>>
  BY <1>2, <1>4, <1>6, <1>10 DEF ButtonCall, Overlap
<1>8. /\ next \in Seq(Call) /\ Len(next) = c
      /\ c \notin DOMAIN calls /\ DOMAIN next = DOMAIN calls \cup {c}
      /\ \A d \in DOMAIN calls : next[d] = calls[d]
      /\ next[c].from = n
      /\ next[c].uac = "calling" /\ next[c].uas = "none"
  BY <1>2, <1>3, <1>9
<1> QED
  BY <1>4, <1>5, <1>7, <1>8

(* Hungup either does nothing to the call or ends a confirmed one.         *)
LEMMA ButtonHungupFacts ==
  ASSUME TypeOK, DialogKnowsItsCall, NEW n \in Clients, ButtonHungup(n)
  PROVE  /\ nOp' = [nOp EXCEPT ![n] = 0] /\ hung' = hung \cup Live(n)
         /\ unmade' = unmade \ {n}
         /\ UNCHANGED <<callId, localPort, remote, overlapped, mediaVars, msgVars>>
         /\ \/ calls' = calls /\ net' = net
            \/ \E c \in DOMAIN calls :
                 /\ c \in Live(n) /\ calls[c].from = n /\ calls[c].uac = "confirmed"
                 /\ calls' \in Seq(Call) /\ Len(calls') = Len(calls)
                 /\ DOMAIN calls' = DOMAIN calls
                 /\ \A d \in DOMAIN calls :
                      calls'[d].from = calls[d].from /\ calls'[d].uas = calls[d].uas
                 /\ \A d \in DOMAIN calls \ {c} : calls'[d] = calls[d]
                 /\ calls'[c].uac = "ending"
                 /\ net' = net \cup {[kind |-> "BYE", call |-> c]}
<1>1. CASE ~(callId[n] # NoCall /\ calls[callId[n]].uac = "confirmed")
  BY <1>1 DEF ButtonHungup
<1>2. CASE callId[n] # NoCall /\ calls[callId[n]].uac = "confirmed"
  <2> DEFINE c == callId[n]
  <2>1. c \in Live(n)
    BY <1>2, NodeFacts DEF DialogKnowsItsCall
  <2>2. c \in DOMAIN calls /\ calls[c].from = n
    BY <2>1, NodeFacts DEF Live, Party
  <2>3. /\ calls' = WithUac(c, "ending")
        /\ net' = net \cup {[kind |-> "BYE", call |-> c]}
    BY <1>2 DEF ButtonHungup, WithUac
  <2> HIDE DEF c
  <2>4. /\ calls' \in Seq(Call) /\ Len(calls') = Len(calls) /\ DOMAIN calls' = DOMAIN calls
        /\ \A d \in DOMAIN calls :
             calls'[d].from = calls[d].from /\ calls'[d].uas = calls[d].uas
        /\ \A d \in DOMAIN calls \ {c} : calls'[d] = calls[d]
        /\ calls'[c].uac = "ending"
    BY <2>2, <2>3, SetUac
  <2>5. calls[c].uac = "confirmed"
    BY <1>2 DEF c
  <2> QED
    BY <2>1, <2>2, <2>3, <2>4, <2>5 DEF ButtonHungup
<1> QED
  BY <1>1, <1>2

LEMMA IncomingCallFacts ==
  ASSUME TypeOK, WireInv, NEW m \in net, IncomingCall(m)
  PROVE  LET c == m.call
         IN /\ m.kind = "INVITE" /\ m.kind \in CallKinds
            /\ remote' = [remote EXCEPT ![Proxy] = m.sdp]
            /\ callId' = [callId EXCEPT ![Proxy] = c]
            /\ localPort' = [localPort EXCEPT ![Proxy] = PROXY_RTP_PORT]
            /\ nOp' = [nOp EXCEPT ![Proxy] = 2]
            /\ calls' \in Seq(Call) /\ Len(calls') = Len(calls)
            /\ DOMAIN calls' = DOMAIN calls
            /\ \A d \in DOMAIN calls :
                 calls'[d].from = calls[d].from /\ calls'[d].uac = calls[d].uac
            /\ \A d \in DOMAIN calls \ {c} : calls'[d] = calls[d]
            /\ calls'[c].uas = "connecting"
            /\ \E port \in {0, CLIENT_RTP_PORT, PROXY_RTP_PORT} :
                 net' = (net \ {m}) \cup {[kind |-> "OK", call |-> c,
                                           sdp |-> [node |-> Proxy, port |-> port]]}
            /\ overlapped' = overlapped \cup IF Live(Proxy) = {} THEN {} ELSE {Proxy}
            /\ UNCHANGED <<hung, unmade, mediaVars, msgVars>>
<1>1. m.kind = "INVITE" /\ m.kind \in CallKinds
  BY DEF IncomingCall, CallKinds
<1>2. m.call \in DOMAIN calls
  BY <1>1, CallsOnWire
<1>3. calls' = WithUas(m.call, "connecting")
  BY DEF IncomingCall, WithUas
<1>4. /\ calls' \in Seq(Call) /\ Len(calls') = Len(calls) /\ DOMAIN calls' = DOMAIN calls
      /\ \A d \in DOMAIN calls :
           calls'[d].from = calls[d].from /\ calls'[d].uac = calls[d].uac
      /\ \A d \in DOMAIN calls \ {m.call} : calls'[d] = calls[d]
      /\ calls'[m.call].uas = "connecting"
  BY <1>2, <1>3, SetUas
<1>5. localPort[Proxy] \in {0, CLIENT_RTP_PORT, PROXY_RTP_PORT}
  BY NodeFacts DEF TypeOK
<1> QED
  BY <1>1, <1>4, <1>5 DEF IncomingCall, LogOnRxMsg, Overlap

LEMMA CallerConfirmedFacts ==
  ASSUME TypeOK, WireInv, NEW m \in net, CallerConfirmed(m)
  PROVE  LET c == m.call
             n == calls[c].from
         IN /\ m.kind = "OK" /\ m.kind \in CallKinds
            /\ remote' = [remote EXCEPT ![n] = m.sdp]
            /\ calls' \in Seq(Call) /\ Len(calls') = Len(calls)
            /\ DOMAIN calls' = DOMAIN calls
            /\ \A d \in DOMAIN calls :
                 calls'[d].from = calls[d].from /\ calls'[d].uas = calls[d].uas
            /\ \A d \in DOMAIN calls \ {c} : calls'[d] = calls[d]
            /\ calls'[c].uac = "confirmed"
            /\ net' = (net \ {m}) \cup {[kind |-> "ACK", call |-> c]}
            /\ Confirmed(n, c)
            /\ UNCHANGED <<nOp, localPort, overlapped, hung, unmade, msgVars>>
<1>1. m.kind = "OK" /\ m.kind \in CallKinds
  BY DEF CallerConfirmed, CallKinds
<1>2. m.call \in DOMAIN calls
  BY <1>1, CallsOnWire
<1>3. calls' = WithUac(m.call, "confirmed")
  BY DEF CallerConfirmed, WithUac
<1>4. /\ calls' \in Seq(Call) /\ Len(calls') = Len(calls) /\ DOMAIN calls' = DOMAIN calls
      /\ \A d \in DOMAIN calls :
           calls'[d].from = calls[d].from /\ calls'[d].uas = calls[d].uas
      /\ \A d \in DOMAIN calls \ {m.call} : calls'[d] = calls[d]
      /\ calls'[m.call].uac = "confirmed"
  BY <1>2, <1>3, SetUac
<1> QED
  BY <1>1, <1>4 DEF CallerConfirmed, LogOnRxMsg

(* The ACK of a call that has ended does nothing.                          *)
LEMMA CalleeConfirmedFacts ==
  ASSUME TypeOK, WireInv, NEW m \in net, CalleeConfirmed(m)
  PROVE  LET c == m.call
         IN /\ m.kind = "ACK" /\ m.kind \in CallKinds /\ net' = net \ {m}
            /\ UNCHANGED <<remote, nOp, localPort, overlapped, hung, unmade, msgVars>>
            /\ \/ /\ calls[c].uas = "ended"
                  /\ UNCHANGED <<calls, callId, mediaVars>>
               \/ /\ calls[c].uas = "connecting"
                  /\ calls' \in Seq(Call) /\ Len(calls') = Len(calls)
                  /\ DOMAIN calls' = DOMAIN calls
                  /\ \A d \in DOMAIN calls :
                       calls'[d].from = calls[d].from /\ calls'[d].uac = calls[d].uac
                  /\ \A d \in DOMAIN calls \ {c} : calls'[d] = calls[d]
                  /\ calls'[c].uas = "confirmed"
                  /\ Confirmed(Proxy, c)
<1>1. m.kind = "ACK" /\ m.kind \in CallKinds
  BY DEF CalleeConfirmed, CallKinds
<1>2. m.call \in DOMAIN calls /\ calls[m.call].uas \in {"connecting", "ended"}
  BY <1>1, CallsOnWire DEF SaysOf
<1>3. CASE calls[m.call].uas = "ended"
  BY <1>1, <1>3 DEF CalleeConfirmed
<1>4. CASE calls[m.call].uas = "connecting"
  <2>1. calls' = WithUas(m.call, "confirmed")
    BY <1>4 DEF CalleeConfirmed, WithUas
  <2>2. /\ calls' \in Seq(Call) /\ Len(calls') = Len(calls) /\ DOMAIN calls' = DOMAIN calls
        /\ \A d \in DOMAIN calls :
             calls'[d].from = calls[d].from /\ calls'[d].uac = calls[d].uac
        /\ \A d \in DOMAIN calls \ {m.call} : calls'[d] = calls[d]
        /\ calls'[m.call].uas = "confirmed"
    BY <1>2, <2>1, SetUas
  <2> QED
    BY <1>1, <1>4, <2>2 DEF CalleeConfirmed
<1> QED
  BY <1>2, <1>3, <1>4

LEMMA CalleeDisconnectedFacts ==
  ASSUME TypeOK, WireInv, NEW m \in net, CalleeDisconnected(m)
  PROVE  LET c == m.call
         IN /\ m.kind = "BYE" /\ m.kind \in CallKinds
            /\ calls' \in Seq(Call) /\ Len(calls') = Len(calls)
            /\ DOMAIN calls' = DOMAIN calls
            /\ \A d \in DOMAIN calls :
                 calls'[d].from = calls[d].from /\ calls'[d].uac = calls[d].uac
            /\ \A d \in DOMAIN calls \ {c} : calls'[d] = calls[d]
            /\ calls'[c].uas = "ended"
            /\ net' = (net \ {m}) \cup {[kind |-> "BYEOK", call |-> c]}
            /\ Disconnected(Proxy)
            /\ UNCHANGED <<localPort, remote, overlapped, hung, mediaVars, msgVars>>
<1>1. m.kind = "BYE" /\ m.kind \in CallKinds
  BY DEF CalleeDisconnected, CallKinds
<1>2. m.call \in DOMAIN calls
  BY <1>1, CallsOnWire
<1>3. calls' = WithUas(m.call, "ended")
  BY DEF CalleeDisconnected, WithUas
<1>4. /\ calls' \in Seq(Call) /\ Len(calls') = Len(calls) /\ DOMAIN calls' = DOMAIN calls
      /\ \A d \in DOMAIN calls :
           calls'[d].from = calls[d].from /\ calls'[d].uac = calls[d].uac
      /\ \A d \in DOMAIN calls \ {m.call} : calls'[d] = calls[d]
      /\ calls'[m.call].uas = "ended"
  BY <1>2, <1>3, SetUas
<1> QED
  BY <1>1, <1>4 DEF CalleeDisconnected

LEMMA CallerDisconnectedFacts ==
  ASSUME TypeOK, WireInv, NEW m \in net, CallerDisconnected(m)
  PROVE  LET c == m.call
         IN /\ m.kind = "BYEOK" /\ m.kind \in CallKinds
            /\ calls' \in Seq(Call) /\ Len(calls') = Len(calls)
            /\ DOMAIN calls' = DOMAIN calls
            /\ \A d \in DOMAIN calls :
                 calls'[d].from = calls[d].from /\ calls'[d].uas = calls[d].uas
            /\ \A d \in DOMAIN calls \ {c} : calls'[d] = calls[d]
            /\ calls'[c].uac = "ended"
            /\ net' = net \ {m}
            /\ Disconnected(calls[c].from)
            /\ UNCHANGED <<localPort, remote, overlapped, hung, mediaVars, msgVars>>
<1>1. m.kind = "BYEOK" /\ m.kind \in CallKinds
  BY DEF CallerDisconnected, CallKinds
<1>2. m.call \in DOMAIN calls
  BY <1>1, CallsOnWire
<1>3. calls' = WithUac(m.call, "ended")
  BY DEF CallerDisconnected, WithUac
<1>4. /\ calls' \in Seq(Call) /\ Len(calls') = Len(calls) /\ DOMAIN calls' = DOMAIN calls
      /\ \A d \in DOMAIN calls :
           calls'[d].from = calls[d].from /\ calls'[d].uas = calls[d].uas
      /\ \A d \in DOMAIN calls \ {m.call} : calls'[d] = calls[d]
      /\ calls'[m.call].uac = "ended"
  BY <1>2, <1>3, SetUac
<1> QED
  BY <1>1, <1>4 DEF CallerDisconnected
-----------------------------------------------------------------------------
(* What a step leaves alone                                                *)

(* The lists know nothing of the calls but that there are none.            *)
LEMMA ListsQuiet ==
  ASSUME TreeInv, AskInv, UNCHANGED msgVars,
         \A m : m.kind \in ListKinds => (m \in net' <=> m \in net),
         \A n \in Nodes : Party(n)' = {} => Party(n) = {}
  PROVE  TreeInv' /\ AskInv'
<1>1. UNCHANGED <<msgState, pending, tree, schoolName, requests, raced>>
  BY DEF msgVars
<1>2. TreeInv'
  BY <1>1 DEF TreeInv, ListKinds
<1>3. ASSUME NEW n \in Orderly'
      PROVE  n \in Orderly /\ Awaits(n)' = Awaits(n)
  BY <1>1, NodeFacts DEF Orderly, Awaits, Idle
<1>4. AskInv'
  BY <1>1, <1>3 DEF AskInv
<1> QED
  BY <1>2, <1>4

(* And the calls nothing of the lists.                                     *)
LEMMA CallsQuiet ==
  ASSUME WireInv, LegInv, PortInv, OneCall, DialogKnowsItsCall, MediaInv,
         UNCHANGED <<callVars, mediaVars>>,
         \A m : m.kind \in CallKinds => (m \in net' <=> m \in net)
  PROVE  /\ WireInv' /\ LegInv' /\ PortInv' /\ OneCall' /\ DialogKnowsItsCall'
         /\ MediaInv'
<1>1. /\ UNCHANGED <<calls, callId, nOp, localPort, remote, overlapped, hung, unmade>>
      /\ UNCHANGED <<transport, attached, bound>>
  BY DEF callVars, mediaVars
<1>2. \A n \in Nodes : Live(n)' = Live(n) /\ Party(n)' = Party(n)
  BY <1>1 DEF Live, Party, Leg
<1>3. WireInv'
  BY <1>1 DEF WireInv, CallKinds
<1>4. LegInv' /\ PortInv'
  BY <1>1 DEF LegInv, PortInv
<1>5. OneCall'
  BY <1>1, <1>2 DEF OneCall
<1>6. DialogKnowsItsCall'
  BY <1>1, <1>2 DEF DialogKnowsItsCall, OperationFits, Leg
<1>7. MediaInv'
  <2>1. \A n \in Clients : Party(n)' = {} => Fresh(n)'
    BY <1>1, <1>2, NodeFacts DEF MediaInv, Fresh
  <2>2. (\A c \in DOMAIN calls' : calls'[c].uas = "none") => Fresh(Proxy)'
    BY <1>1 DEF MediaInv, Fresh
  <2>3. \A m \in net' :
          /\ m.kind = "INVITE" =>
               m.sdp = [node |-> calls'[m.call].from, port |-> CLIENT_RTP_PORT]
          /\ m.kind = "OK" => m.sdp.node = Proxy
    BY <1>1 DEF MediaInv, CallKinds
  <2>4. ASSUME NEW c \in DOMAIN calls', Alone(c)'
        PROVE  CallerMedia(calls[c].from, c)' /\ CalleeMedia(calls[c].from, c)'
    <3>1. c \in DOMAIN calls /\ Alone(c)
      BY <1>1, <2>4 DEF Alone
    <3>2. CallerMedia(calls[c].from, c) /\ CalleeMedia(calls[c].from, c)
      BY <3>1 DEF MediaInv
    <3> QED
      BY <1>1, <3>2 DEF CallerMedia, CalleeMedia, Fresh
  <2> QED
    BY <2>1, <2>2, <2>3, <2>4 DEF MediaInv
<1> QED
  BY <1>3, <1>4, <1>5, <1>6, <1>7
-----------------------------------------------------------------------------
(* Every step keeps the types                                              *)

TypeOfCalls ==
  /\ calls \in Seq(Call) /\ Len(calls) <= MaxUses /\ net \subseteq Message
  /\ callId \in [Nodes -> 0 .. MaxUses] /\ nOp \in [Nodes -> 0 .. 2]
  /\ localPort \in [Nodes -> {0, CLIENT_RTP_PORT, PROXY_RTP_PORT}]
  /\ remote \in [Nodes -> Address]
  /\ overlapped \subseteq Nodes /\ hung \subseteq 1 .. MaxUses /\ unmade \subseteq Clients

TypeOfMedia ==
  /\ transport \in [Nodes -> {"null", "live", "freed"}]
  /\ attached \in [Nodes -> Address]
  /\ bound \in [Nodes -> SUBSET {CLIENT_RTP_PORT, PROXY_RTP_PORT}]

TypeOfLists ==
  /\ msgState \in [Nodes -> 0 .. 2]
  /\ pending \in [Nodes -> 0 .. 2 \cup {NoMsgState}]
  /\ tree \in [Nodes -> [place : 0 .. 2, list : Items, label : Items]]
  /\ schoolName \in [Nodes -> Items]
  /\ requests \in 0 .. MaxUses /\ raced \subseteq Nodes

LEMMA Types == TypeOK <=> TypeOfCalls /\ TypeOfMedia /\ TypeOfLists
  BY DEF TypeOK, TypeOfCalls, TypeOfMedia, TypeOfLists

LEMMA PrimedTypes ==
  TypeOK' <=> TypeOfCalls' /\ TypeOfMedia' /\ TypeOfLists'
  BY Types, PTL

LEMMA MediaTypesKept == ASSUME TypeOK, UNCHANGED mediaVars PROVE TypeOfMedia'
  BY Types DEF mediaVars, TypeOfMedia

LEMMA ListTypesKept == ASSUME TypeOK, UNCHANGED msgVars PROVE TypeOfLists'
  BY Types DEF msgVars, TypeOfLists

LEMMA SdpMessageTypes ==
  ASSUME NEW c \in 1 .. MaxUses, NEW n \in Nodes,
         NEW port \in {0, CLIENT_RTP_PORT, PROXY_RTP_PORT}, NEW kind \in {"INVITE", "OK"}
  PROVE  [kind |-> kind, call |-> c, sdp |-> [node |-> n, port |-> port]] \in Message
<1>1. [node |-> n, port |-> port] \in Address
  BY DEF Address
<1> QED
  BY <1>1 DEF Message

LEMMA CallMessageTypes ==
  ASSUME NEW c \in 1 .. MaxUses, NEW kind \in {"ACK", "BYE", "BYEOK"}
  PROVE  [kind |-> kind, call |-> c] \in Message
  BY DEF Message

LEMMA LiveIsInDomain ==
  ASSUME TypeOK, NEW n \in Nodes PROVE Live(n) \subseteq DOMAIN calls /\ Live(n) \subseteq 1 .. MaxUses
  BY CallFacts DEF Live, Party

LEMMA CallFailsTypes ==
  ASSUME TypeOK, NEW n \in Clients, CallFails(n) PROVE TypeOK'
<1>1. TypeOfMedia' /\ TypeOfLists'
  BY MediaTypesKept, ListTypesKept DEF CallFails
<1>2. TypeOfCalls'
  BY NodeFacts DEF CallFails, TypeOfCalls, TypeOK
<1> QED
  BY <1>1, <1>2, PrimedTypes

LEMMA ButtonCallTypes ==
  ASSUME TypeOK, NEW n \in Clients, ButtonCall(n), ~CallFails(n) PROVE TypeOK'
<1>1. TypeOfMedia' /\ TypeOfLists'
  BY ButtonCallFacts, MediaTypesKept, ListTypesKept
<1>2. PICK c \in 1 .. MaxUses :
        /\ calls' \in Seq(Call) /\ Len(calls') = c
        /\ net' = net \cup {[kind |-> "INVITE", call |-> c,
                             sdp |-> [node |-> n, port |-> CLIENT_RTP_PORT]]}
        /\ localPort' = [localPort EXCEPT ![n] = CLIENT_RTP_PORT]
        /\ nOp' = [nOp EXCEPT ![n] = 1]
        /\ overlapped' = overlapped \cup IF Live(n) = {} THEN {} ELSE {n}
        /\ callId' = callId /\ remote' = remote /\ hung' = hung
        /\ unmade' = unmade \ {n}
  BY ButtonCallFacts
<1>3. n \in Nodes
  BY NodeFacts
<1>4. net' \subseteq Message
  BY <1>2, <1>3, SdpMessageTypes DEF TypeOK
<1>5. TypeOfCalls'
  BY <1>2, <1>3, <1>4, NodeFacts DEF TypeOfCalls, TypeOK
<1> QED
  BY <1>1, <1>5, PrimedTypes

LEMMA ButtonHungupTypes ==
  ASSUME TypeOK, DialogKnowsItsCall, NEW n \in Clients, ButtonHungup(n) PROVE TypeOK'
<1>1. TypeOfMedia' /\ TypeOfLists'
  BY ButtonHungupFacts, MediaTypesKept, ListTypesKept
<1>2. n \in Nodes
  BY NodeFacts
<1>3. /\ nOp' = [nOp EXCEPT ![n] = 0] /\ hung' = hung \cup Live(n)
      /\ unmade' = unmade \ {n}
      /\ UNCHANGED <<callId, localPort, remote, overlapped>>
  BY ButtonHungupFacts
<1>4. /\ calls' \in Seq(Call) /\ Len(calls') <= MaxUses
      /\ net' \subseteq Message
  <2>1. CASE calls' = calls /\ net' = net
    BY <2>1 DEF TypeOK
  <2>2. CASE ~(calls' = calls /\ net' = net)
    <3>1. PICK c \in DOMAIN calls :
            /\ calls' \in Seq(Call) /\ Len(calls') = Len(calls)
            /\ net' = net \cup {[kind |-> "BYE", call |-> c]}
      BY <2>2, ButtonHungupFacts
    <3>2. c \in 1 .. MaxUses
      BY <3>1, CallFacts
    <3> QED
      BY <3>1, <3>2, <1>2, CallMessageTypes DEF TypeOK
  <2> QED
    BY <2>1, <2>2
<1>6. hung' \subseteq 1 .. MaxUses
  BY <1>2, <1>3, LiveIsInDomain DEF TypeOK
<1>7. nOp' \in [Nodes -> 0 .. 2]
  <2>1. nOp' = [nOp EXCEPT ![n] = 0] /\ nOp \in [Nodes -> 0 .. 2]
    BY <1>3 DEF TypeOK
  <2> QED
    BY <1>2, <2>1
<1>5. TypeOfCalls'
  BY <1>3, <1>4, <1>6, <1>7 DEF TypeOfCalls, TypeOK
<1> QED
  BY <1>1, <1>5, PrimedTypes

LEMMA IncomingCallTypes ==
  ASSUME TypeOK, WireInv, NEW m \in net, IncomingCall(m) PROVE TypeOK'
<1>1. TypeOfMedia' /\ TypeOfLists'
  BY IncomingCallFacts, MediaTypesKept, ListTypesKept
<1>2. m.kind = "INVITE" /\ m.call \in 1 .. MaxUses /\ m.sdp \in Address
  BY IncomingCallFacts, CallsOnWire, MessageFacts
<1>3. PICK port \in {0, CLIENT_RTP_PORT, PROXY_RTP_PORT} :
        net' = (net \ {m}) \cup {[kind |-> "OK", call |-> m.call,
                                  sdp |-> [node |-> Proxy, port |-> port]]}
  BY IncomingCallFacts
<1>4. [kind |-> "OK", call |-> m.call, sdp |-> [node |-> Proxy, port |-> port]] \in Message
  BY <1>2, NodeFacts, SdpMessageTypes
<1>9. net' \subseteq Message
  BY <1>3, <1>4 DEF TypeOK
<1>5. calls' \in Seq(Call) /\ Len(calls') <= MaxUses
  BY IncomingCallFacts DEF TypeOK
<1>6. /\ remote' = [remote EXCEPT ![Proxy] = m.sdp]
      /\ callId' = [callId EXCEPT ![Proxy] = m.call]
      /\ localPort' = [localPort EXCEPT ![Proxy] = PROXY_RTP_PORT]
      /\ nOp' = [nOp EXCEPT ![Proxy] = 2]
      /\ overlapped' = overlapped \cup IF Live(Proxy) = {} THEN {} ELSE {Proxy}
      /\ hung' = hung /\ unmade' = unmade
  BY IncomingCallFacts
<1>7. callId' \in [Nodes -> 0 .. MaxUses]
  BY <1>2, <1>6, NodeFacts DEF TypeOK
<1>8. TypeOfCalls'
  BY <1>2, <1>5, <1>6, <1>7, <1>9, NodeFacts DEF TypeOfCalls, TypeOK
<1> QED
  BY <1>1, <1>8, PrimedTypes

LEMMA CallerConfirmedTypes ==
  ASSUME TypeOK, WireInv, PortInv, NEW m \in net, CallerConfirmed(m) PROVE TypeOK'
<1>1. TypeOfLists'
  BY CallerConfirmedFacts, ListTypesKept
<1>2. m.kind = "OK" /\ m.call \in 1 .. MaxUses /\ m.sdp \in Address
  BY CallerConfirmedFacts, CallsOnWire, MessageFacts
<1>3. PICK n \in Nodes : n = calls[m.call].from
  BY CallerConfirmedFacts, CallsOnWire
<1>4. /\ remote' = [remote EXCEPT ![n] = m.sdp]
      /\ calls' \in Seq(Call) /\ Len(calls') = Len(calls)
      /\ net' = (net \ {m}) \cup {[kind |-> "ACK", call |-> m.call]}
      /\ Confirmed(n, m.call)
      /\ UNCHANGED <<nOp, localPort, overlapped, hung, unmade>>
  BY <1>3, CallerConfirmedFacts
<1>5. remote' \in [Nodes -> Address]
  BY <1>2, <1>4 DEF TypeOK
<1>6. TypeOfMedia' /\ callId' \in [Nodes -> 0 .. MaxUses]
  BY <1>2, <1>4, <1>5, ConfirmedFacts DEF TypeOfMedia
<1>7. net' \subseteq Message
  BY <1>2, <1>3, <1>4, CallMessageTypes DEF TypeOK
<1>8. TypeOfCalls'
  BY <1>4, <1>5, <1>6, <1>7 DEF TypeOfCalls, TypeOK
<1> QED
  BY <1>1, <1>6, <1>8, PrimedTypes

LEMMA CalleeConfirmedTypes ==
  ASSUME TypeOK, WireInv, PortInv, NEW m \in net, CalleeConfirmed(m) PROVE TypeOK'
<1>1. TypeOfLists'
  BY CalleeConfirmedFacts, ListTypesKept
<1>2. m.call \in 1 .. MaxUses
  BY CalleeConfirmedFacts, CallsOnWire
<1>3. /\ net' = net \ {m}
      /\ UNCHANGED <<remote, nOp, localPort, overlapped, hung, unmade>>
  BY CalleeConfirmedFacts
<1>4. CASE UNCHANGED <<calls, callId, mediaVars>>
  BY <1>1, <1>3, <1>4, MediaTypesKept, PrimedTypes DEF TypeOfCalls, TypeOK
<1>5. CASE ~UNCHANGED <<calls, callId, mediaVars>>
  <2>1. calls' \in Seq(Call) /\ Len(calls') = Len(calls) /\ Confirmed(Proxy, m.call)
    BY <1>5, CalleeConfirmedFacts
  <2>2. remote' \in [Nodes -> Address]
    BY <1>3 DEF TypeOK
  <2>3. TypeOfMedia' /\ callId' \in [Nodes -> 0 .. MaxUses]
    BY <1>2, <2>1, <2>2, ConfirmedFacts, NodeFacts DEF TypeOfMedia
  <2>4. TypeOfCalls'
    BY <1>3, <2>1, <2>2, <2>3 DEF TypeOfCalls, TypeOK
  <2> QED
    BY <1>1, <2>3, <2>4, PrimedTypes
<1> QED
  BY <1>4, <1>5

LEMMA CalleeDisconnectedTypes ==
  ASSUME TypeOK, WireInv, NEW m \in net, CalleeDisconnected(m) PROVE TypeOK'
<1>1. TypeOfLists' /\ TypeOfMedia'
  BY CalleeDisconnectedFacts, ListTypesKept, MediaTypesKept
<1>2. m.call \in 1 .. MaxUses
  BY CalleeDisconnectedFacts, CallsOnWire
<1>3. /\ calls' \in Seq(Call) /\ Len(calls') = Len(calls)
      /\ net' = (net \ {m}) \cup {[kind |-> "BYEOK", call |-> m.call]}
      /\ UNCHANGED <<localPort, remote, overlapped, hung>>
  BY CalleeDisconnectedFacts
<1>4. /\ callId' \in [Nodes -> 0 .. MaxUses] /\ nOp' \in [Nodes -> 0 .. 2]
      /\ unmade' \subseteq unmade
  BY CalleeDisconnectedFacts, DisconnectedFacts, NodeFacts
<1>5. net' \subseteq Message
  BY <1>2, <1>3, NodeFacts, CallMessageTypes DEF TypeOK
<1>6. TypeOfCalls'
  BY <1>3, <1>4, <1>5 DEF TypeOfCalls, TypeOK
<1> QED
  BY <1>1, <1>6, PrimedTypes

LEMMA CallerDisconnectedTypes ==
  ASSUME TypeOK, WireInv, NEW m \in net, CallerDisconnected(m) PROVE TypeOK'
<1>1. TypeOfLists' /\ TypeOfMedia'
  BY CallerDisconnectedFacts, ListTypesKept, MediaTypesKept
<1>2. PICK n \in Nodes : n = calls[m.call].from
  BY CallerDisconnectedFacts, CallsOnWire
<1>3. /\ calls' \in Seq(Call) /\ Len(calls') = Len(calls)
      /\ net' = net \ {m} /\ Disconnected(n)
      /\ UNCHANGED <<localPort, remote, overlapped, hung>>
  BY <1>2, CallerDisconnectedFacts
<1>4. /\ callId' \in [Nodes -> 0 .. MaxUses] /\ nOp' \in [Nodes -> 0 .. 2]
      /\ unmade' \subseteq unmade
  BY <1>3, DisconnectedFacts
<1>5. TypeOfCalls'
  BY <1>3, <1>4 DEF TypeOfCalls, TypeOK
<1> QED
  BY <1>1, <1>5, PrimedTypes
LEMMA CallTypesKept ==
  ASSUME TypeOK, UNCHANGED callVars, net' \subseteq Message PROVE TypeOfCalls'
  BY Types DEF callVars, TypeOfCalls

LEMMA SendToTypes ==
  ASSUME TypeOK, DialogKnowsItsCall, NEW n \in Nodes, NEW dest \in Nodes
  PROVE  SendTo(n, dest) \in Nodes
<1>1. CASE callId[n] = NoCall
  BY <1>1 DEF SendTo
<1>2. CASE callId[n] # NoCall
  <2>1. callId[n] \in DOMAIN calls
    BY <1>2, LiveIsInDomain DEF DialogKnowsItsCall
  <2> QED
    BY <1>2, <2>1, CallFacts, NodeFacts DEF SendTo, Peer
<1> QED
  BY <1>1, <1>2

LEMMA ListMessageTypes ==
  ASSUME NEW kind \in {"LIST", "REPLY"}, NEW asker \in Nodes, NEW to \in Nodes,
         NEW of \in {"city", "school", "camera"}, NEW id \in Nat, NEW c \in 0 .. MaxUses
  PROVE  /\ [kind |-> kind, asker |-> asker, of |-> of, call |-> c, to |-> to,
             id |-> id] \in Message
         /\ [kind |-> "PLAY", call |-> c, to |-> to, id |-> id] \in Message
  BY DEF Message

(* The messages of the double clicks.                                      *)
LEMMA AskedTypes ==
  ASSUME TypeOK, DialogKnowsItsCall, NEW n \in Clients,
         NEW of \in {"city", "school", "camera"}
  PROVE  List(n, of) \in Message /\ PlayMessage(n) \in Message
<1>1. n \in Nodes /\ callId[n] \in 0 .. MaxUses /\ requests + 1 \in Nat
  BY NodeFacts DEF TypeOK
<1>2. SendTo(n, Proxy) \in Nodes
  BY <1>1, NodeFacts, SendToTypes
<1> QED
  BY <1>1, <1>2, ListMessageTypes DEF List, PlayMessage

LEMMA SchoolItemIsListed ==
  ASSUME TypeOK, TreeInv, NEW n \in Clients, tree[n].place # 0
  PROVE  SchoolItem(n) \in {"school", "camera"}
<1>1. /\ n \in Nodes /\ tree[n].place \in 0 .. 2
      /\ tree[n].list \in Items /\ tree[n].label \in Items
  BY NodeFacts DEF TypeOK
<1>2. tree[n].list # "none" /\ (tree[n].place = 2 => tree[n].label # "none")
  BY <1>1 DEF TreeInv
<1>3. tree[n].place \in {1, 2}
  BY <1>1
<1> QED
  BY <1>1, <1>2, <1>3 DEF SchoolItem, Items

LEMMA AskTypes ==
  ASSUME TypeOK, NEW n \in Clients, NEW m \in Message, NEW state \in 0 .. 2,
         Ask(n, m, state)
  PROVE  TypeOK'
<1>1. n \in Nodes
  BY NodeFacts
<1>2. TypeOfMedia'
  BY MediaTypesKept DEF Ask
<1>3. net' \subseteq Message
  BY DEF Ask, TypeOK
<1>4. TypeOfCalls'
  BY <1>3, CallTypesKept DEF Ask
<1>5. requests' \in 0 .. MaxUses
  <2>1. requests' = requests + 1 /\ Len(calls) + requests < MaxUses
    BY DEF Ask, Uses
  <2> QED
    BY <2>1, CallFacts, NodeFacts DEF TypeOK
<1>6. pending' \in [Nodes -> 0 .. 2 \cup {NoMsgState}]
  BY <1>1 DEF Ask, TypeOK
<1>7. raced' \subseteq Nodes
  BY <1>1 DEF Ask, TypeOK
<1>8. TypeOfLists'
  BY <1>5, <1>6, <1>7 DEF Ask, TypeOfLists, TypeOK
<1> QED
  BY <1>2, <1>4, <1>8, PrimedTypes

LEMMA StoreMsgStateTypes ==
  ASSUME TypeOK, NEW n \in Clients, StoreMsgState(n) PROVE TypeOK'
<1>1. n \in Nodes
  BY NodeFacts
<1>2. TypeOfMedia'
  BY MediaTypesKept DEF StoreMsgState
<1>3. net' \subseteq Message
  BY DEF StoreMsgState, TypeOK
<1>4. TypeOfCalls'
  BY <1>3, CallTypesKept DEF StoreMsgState
<1>5. pending[n] \in 0 .. 2
  BY <1>1 DEF StoreMsgState, Idle, TypeOK
<1>6. msgState' \in [Nodes -> 0 .. 2]
  BY <1>1, <1>5 DEF StoreMsgState, TypeOK
<1>7. pending' \in [Nodes -> 0 .. 2 \cup {NoMsgState}]
  BY <1>1 DEF StoreMsgState, TypeOK
<1>8. TypeOfLists'
  BY <1>6, <1>7 DEF StoreMsgState, TypeOfLists, TypeOK
<1> QED
  BY <1>2, <1>4, <1>8, PrimedTypes

(* What OnRecvMsg answers: one list, about what it was asked.              *)
LEMMA ReplyFacts ==
  ASSUME TypeOK, DialogKnowsItsCall, NEW m \in net, m.kind = "LIST", NEW n \in Nodes,
         NEW r \in Reply(n, m)
  PROVE  /\ r \in Message /\ r.kind = "REPLY" /\ r.asker = m.asker
         /\ m.of \in {"city", "school"}
         /\ r.of = IF m.of = "city" THEN "school" ELSE "camera"
         /\ r.call = NoCall => r.to = r.asker
         /\ \A s \in Reply(n, m) : s = r
<1>1. m \in Message
  BY DEF TypeOK
<1>2. m.asker \in Nodes /\ m.id \in Nat /\ m.of \in {"city", "school", "camera"}
  BY <1>1, MessageFacts
<1>3. callId[n] \in 0 .. MaxUses /\ SendTo(n, m.asker) \in Nodes
  BY <1>2, SendToTypes DEF TypeOK
<1>4. DOMAIN ListOf = {"city", "school"} /\ ListOf.city = "school" /\ ListOf.school = "camera"
  BY DEF ListOf
<1>5. /\ m.of \in {"city", "school"}
      /\ r = [kind |-> "REPLY", asker |-> m.asker, of |-> ListOf[m.of], id |-> m.id,
              call |-> callId[n], to |-> SendTo(n, m.asker)]
      /\ \A s \in Reply(n, m) : s = r
  BY <1>4 DEF Reply
<1>6. ListOf[m.of] \in {"city", "school", "camera"}
      /\ (m.of = "city" => ListOf[m.of] = "school")
      /\ (m.of = "school" => ListOf[m.of] = "camera")
  BY <1>4, <1>5
<1>7. r \in Message
  <2> DEFINE of == ListOf[m.of]
             to == SendTo(n, m.asker)
  <2>1. of \in {"city", "school", "camera"} /\ to \in Nodes
    BY <1>3, <1>6
  <2>2. r = [kind |-> "REPLY", asker |-> m.asker, of |-> of, call |-> callId[n], to |-> to,
             id |-> m.id]
    BY <1>5
  <2> HIDE DEF of, to
  <2> QED
    BY <1>2, <1>3, <2>1, <2>2, ListMessageTypes
<1>8. r.call = NoCall => r.to = r.asker
  BY <1>5 DEF SendTo
<1>9. r.kind = "REPLY" /\ r.asker = m.asker /\ r.of = ListOf[m.of]
  BY <1>5
<1> QED
  BY <1>5, <1>6, <1>7, <1>8, <1>9

(* OnRecvMsg in its three parts: a list is answered, a reply is shown, or  *)
(* the message is lost.                                                    *)
Lost(m) ==
  /\ net' = net \ {m}
  /\ UNCHANGED <<callVars, mediaVars, msgState, pending, tree, schoolName, requests>>
  /\ raced \subseteq raced' /\ raced' \subseteq raced \cup {m.to}

Answered(m) ==
  /\ m.kind = "LIST" /\ net' = (net \ {m}) \cup Reply(m.to, m)
  /\ UNCHANGED <<callVars, mediaVars, msgState, pending, tree, schoolName, requests, raced>>

Shown(m) ==
  /\ m.kind = "REPLY" /\ net' = net \ {m}
  /\ m.call = NoCall \/ m.call \in Live(m.to)
  /\ msgState[m.to] \in {1, 2} /\ ShowList(m.to, m.of)
  /\ raced' = raced \cup IF Idle(m.to) THEN {} ELSE {m.to}
  /\ UNCHANGED <<callVars, mediaVars, pending, requests>>

LEMMA OnRecvMsgParts ==
  ASSUME NEW m \in net, OnRecvMsg(m)
  PROVE  /\ m.kind \in {"LIST", "REPLY", "PLAY"}
         /\ Lost(m) \/ Answered(m) \/ Shown(m)
<1> DEFINE arrives == m.call = NoCall \/ m.call \in Live(m.to)
<1>1. /\ m.kind \in {"LIST", "REPLY", "PLAY"}
      /\ net' = (net \ {m}) \cup
           IF arrives /\ msgState[m.to] = 0 /\ m.kind = "LIST" THEN Reply(m.to, m) ELSE {}
      /\ IF arrives /\ msgState[m.to] \in {1, 2} /\ m.kind = "REPLY"
         THEN ShowList(m.to, m.of)
         ELSE UNCHANGED <<tree, schoolName, msgState>>
      /\ raced' = raced \cup
           IF arrives /\ m.kind = "REPLY" /\ ~Idle(m.to) THEN {m.to} ELSE {}
      /\ UNCHANGED <<callVars, mediaVars, pending, requests>>
  BY DEF OnRecvMsg
<1> HIDE DEF arrives
<1>2. CASE arrives /\ msgState[m.to] = 0 /\ m.kind = "LIST"
  BY <1>1, <1>2 DEF Answered
<1>3. CASE arrives /\ msgState[m.to] \in {1, 2} /\ m.kind = "REPLY"
  BY <1>1, <1>3 DEF Shown, arrives
<1>4. CASE /\ ~(arrives /\ msgState[m.to] = 0 /\ m.kind = "LIST")
           /\ ~(arrives /\ msgState[m.to] \in {1, 2} /\ m.kind = "REPLY")
  BY <1>1, <1>4 DEF Lost
<1> QED
  BY <1>1, <1>2, <1>3, <1>4

(* What a reply does to the node that it reaches, and to no other.         *)
LEMMA ShowListFacts ==
  ASSUME TypeOK, NEW n \in Nodes, NEW list \in {"school", "camera"},
         msgState[n] \in {1, 2}, ShowList(n, list)
  PROVE  /\ msgState' \in [Nodes -> 0 .. 2] /\ msgState'[n] = 0
         /\ schoolName' \in [Nodes -> Items] /\ schoolName'[n] = list
         /\ tree' \in [Nodes -> [place : 0 .. 2, list : Items, label : Items]]
         /\ tree'[n].place = msgState[n] /\ tree'[n].list = list
         /\ msgState[n] = 2 => tree'[n].label = schoolName[n]
         /\ \A o \in Nodes \ {n} : /\ msgState'[o] = msgState[o] /\ tree'[o] = tree[o]
                                   /\ schoolName'[o] = schoolName[o]
<1> DEFINE item == [place |-> msgState[n], list |-> list,
                    label |-> IF msgState[n] = 2 THEN schoolName[n] ELSE "none"]
<1>1. /\ tree' = [tree EXCEPT ![n] = item]
      /\ schoolName' = [schoolName EXCEPT ![n] = list]
      /\ msgState' = [msgState EXCEPT ![n] = 0]
  BY DEF ShowList
<1>2. /\ item \in [place : 0 .. 2, list : Items, label : Items]
      /\ item.place = msgState[n] /\ item.list = list
      /\ msgState[n] = 2 => item.label = schoolName[n]
  BY DEF Items, TypeOK
<1> HIDE DEF item
<1>3. msgState' \in [Nodes -> 0 .. 2] /\ msgState'[n] = 0
  BY <1>1 DEF TypeOK
<1>4. schoolName' \in [Nodes -> Items] /\ schoolName'[n] = list
  BY <1>1 DEF TypeOK, Items
<1>5. tree' \in [Nodes -> [place : 0 .. 2, list : Items, label : Items]] /\ tree'[n] = item
  BY <1>1, <1>2 DEF TypeOK
<1>6. \A o \in Nodes \ {n} : /\ msgState'[o] = msgState[o] /\ tree'[o] = tree[o]
                             /\ schoolName'[o] = schoolName[o]
  BY <1>1 DEF TypeOK
<1> QED
  BY <1>2, <1>3, <1>4, <1>5, <1>6

LEMMA OnRecvMsgTypes ==
  ASSUME TypeOK, DialogKnowsItsCall, TreeInv, NEW m \in net, OnRecvMsg(m) PROVE TypeOK'
<1>1. m \in Message /\ m.kind \in {"LIST", "REPLY", "PLAY"}
  BY OnRecvMsgParts DEF TypeOK
<1>2. m.to \in Nodes
  BY <1>1, MessageFacts
<1>3. CASE Lost(m)
  <2>1. TypeOfMedia'
    BY <1>3, MediaTypesKept DEF Lost
  <2>2. net' \subseteq Message
    BY <1>3 DEF Lost, TypeOK
  <2>3. TypeOfCalls'
    BY <1>3, <2>2, CallTypesKept DEF Lost
  <2>4. TypeOfLists'
    BY <1>2, <1>3 DEF Lost, TypeOfLists, TypeOK
  <2> QED
    BY <2>1, <2>3, <2>4, PrimedTypes
<1>4. CASE Answered(m)
  <2>1. TypeOfMedia'
    BY <1>4, MediaTypesKept DEF Answered
  <2>2. Reply(m.to, m) \subseteq Message
    BY <1>2, <1>4, ReplyFacts DEF Answered
  <2>5. net' \subseteq Message
    BY <1>4, <2>2 DEF Answered, TypeOK
  <2>3. TypeOfCalls'
    BY <1>4, <2>5, CallTypesKept DEF Answered
  <2>4. TypeOfLists'
    BY <1>4 DEF Answered, TypeOfLists, TypeOK
  <2> QED
    BY <2>1, <2>3, <2>4, PrimedTypes
<1>5. CASE Shown(m)
  <2>1. TypeOfMedia'
    BY <1>5, MediaTypesKept DEF Shown
  <2>2. net' \subseteq Message
    BY <1>5 DEF Shown, TypeOK
  <2>3. TypeOfCalls'
    BY <1>5, <2>2, CallTypesKept DEF Shown
  <2>4. m.of \in {"school", "camera"} /\ msgState[m.to] \in {1, 2} /\ ShowList(m.to, m.of)
    BY <1>5 DEF Shown, TreeInv
  <2>5. /\ msgState' \in [Nodes -> 0 .. 2] /\ schoolName' \in [Nodes -> Items]
        /\ tree' \in [Nodes -> [place : 0 .. 2, list : Items, label : Items]]
    BY <1>2, <2>4, ShowListFacts
  <2>6. raced' \subseteq Nodes /\ UNCHANGED <<pending, requests>>
    BY <1>2, <1>5 DEF Shown, TypeOK
  <2>7. TypeOfLists'
    BY <2>5, <2>6 DEF TypeOfLists, TypeOK
  <2> QED
    BY <2>1, <2>3, <2>7, PrimedTypes
<1> QED
  BY <1>3, <1>4, <1>5, OnRecvMsgParts

-----------------------------------------------------------------------------
(* The lists                                                               *)

LEMMA AskLists ==
  ASSUME TypeOK, TreeInv, AskInv, NEW n \in Clients, NEW m \in Message, NEW state \in 0 .. 2,
         Ask(n, m, state), state = 2 => tree[n].place # 0,
         \/ m.kind = "PLAY"
         \/ /\ m.kind = "LIST" /\ m.asker = n
            /\ state = IF m.of = "city" THEN 1 ELSE 2
  PROVE  TreeInv' /\ AskInv'
<1>1. /\ n \in Nodes /\ n # Proxy /\ Idle(n) /\ net' = net \cup {m}
      /\ pending' = [pending EXCEPT ![n] = state]
      /\ UNCHANGED <<msgState, tree, schoolName, calls>>
  BY NodeFacts DEF Ask, callVars
<1>2. pending'[n] = state /\ \A o \in Nodes \ {n} : pending'[o] = pending[o]
  BY <1>1 DEF TypeOK
<1>3. TreeInv'
  BY <1>1, <1>2, NodeFacts DEF TreeInv
<1>4. ASSUME NEW o \in Orderly'
      PROVE  /\ o \in Orderly /\ o \in Nodes
             /\ o # n => Awaits(o)' = Awaits(o)
             /\ o = n => /\ Awaits(o)' = state
                         /\ \A q \in net : ~(q.kind \in ListKinds /\ q.asker = n)
  <2>1. o \in Clients /\ o \notin raced' /\ Party(o) = {}
    BY <1>1, <1>4 DEF Orderly, Party
  <2>2. o \in Orderly /\ o \in Nodes
    BY <2>1, NodeFacts DEF Orderly, Ask
  <2>3. o # n => Awaits(o)' = Awaits(o)
    BY <1>1, <1>2, <2>2 DEF Awaits, Idle
  <2>4. Awaits(n)' = state
    BY <1>2 DEF Awaits, Idle, NoMsgState
  <2>5. o = n => \A q \in net : ~(q.kind \in ListKinds /\ q.asker = n)
    BY <2>1 DEF Ask, ListKinds
  <2> QED
    BY <2>2, <2>3, <2>4, <2>5
<1>5. ASSUME NEW o \in Orderly'
      PROVE  \A q \in net' : q.kind \in ListKinds /\ q.asker = o =>
               Awaits(o)' = IF q.of = (IF q.kind = "LIST" THEN "city" ELSE "school") THEN 1 ELSE 2
  BY <1>1, <1>4 DEF AskInv, ListKinds
<1>6. ASSUME NEW o \in Orderly'
      PROVE  \A q, r \in net' : /\ q.kind \in ListKinds /\ r.kind \in ListKinds
                                /\ q.asker = o /\ r.asker = o
                                => q = r
  BY <1>1, <1>4 DEF AskInv, ListKinds
<1>7. ASSUME NEW o \in Orderly'
      PROVE  tree'[o].list = <<"none", "school", "camera">>[tree'[o].place + 1]
  BY <1>1, <1>4 DEF AskInv
<1>8. AskInv'
  BY <1>5, <1>6, <1>7 DEF AskInv
<1> QED
  BY <1>3, <1>8

LEMMA StoreMsgStateLists ==
  ASSUME TypeOK, TreeInv, AskInv, NEW n \in Clients, StoreMsgState(n)
  PROVE  TreeInv' /\ AskInv'
<1>1. /\ n \in Nodes /\ n # Proxy /\ ~Idle(n)
      /\ UNCHANGED <<net, tree, schoolName, calls, raced>>
  BY NodeFacts DEF StoreMsgState, callVars
<1>2. /\ pending'[n] = NoMsgState /\ msgState'[n] = pending[n]
      /\ \A o \in Nodes \ {n} : pending'[o] = pending[o] /\ msgState'[o] = msgState[o]
  BY <1>1 DEF StoreMsgState, TypeOK
<1>3. TreeInv'
  BY <1>1, <1>2, NodeFacts DEF TreeInv, NoMsgState
<1>4. ASSUME NEW o \in Orderly'
      PROVE  o \in Orderly /\ Awaits(o)' = Awaits(o)
  BY <1>1, <1>2, NodeFacts DEF Orderly, Party, Awaits, Idle
<1>5. AskInv'
  BY <1>1, <1>4 DEF AskInv
<1> QED
  BY <1>3, <1>5

LEMMA OrderlyFacts ==
  ASSUME UNCHANGED calls, raced \subseteq raced', NEW n \in Orderly'
  PROVE  n \in Orderly /\ n \in Nodes /\ n \notin raced' /\ Party(n) = {}
  BY NodeFacts DEF Orderly, Party

LEMMA LostLists ==
  ASSUME TreeInv, AskInv, NEW m \in net, Lost(m) PROVE TreeInv' /\ AskInv'
<1>1. /\ net' \subseteq net /\ raced \subseteq raced'
      /\ UNCHANGED <<calls, msgState, pending, tree, schoolName>>
  BY DEF Lost, callVars
<1>2. TreeInv'
  BY <1>1 DEF TreeInv
<1>3. AskInv'
  BY <1>1, OrderlyFacts DEF AskInv, Awaits, Idle
<1> QED
  BY <1>2, <1>3

LEMMA AnsweredLists ==
  ASSUME TypeOK, DialogKnowsItsCall, TreeInv, AskInv, NEW m \in net, Answered(m)
  PROVE  TreeInv' /\ AskInv'
<1>1. /\ m.kind = "LIST" /\ net' = (net \ {m}) \cup Reply(m.to, m)
      /\ UNCHANGED <<calls, msgState, pending, tree, schoolName, raced>>
  BY DEF Answered, callVars
<1>2. m.to \in Nodes
  BY <1>1, MessageFacts DEF TypeOK
<1>3. \A r \in Reply(m.to, m) :
        /\ r.kind = "REPLY" /\ r.asker = m.asker /\ m.of \in {"city", "school"}
        /\ r.of = IF m.of = "city" THEN "school" ELSE "camera"
        /\ r.call = NoCall => r.to = r.asker
        /\ \A s \in Reply(m.to, m) : s = r
  BY <1>1, <1>2, ReplyFacts
<1>4. TreeInv'
  <2>1. \A r \in Reply(m.to, m) : r.of \in {"school", "camera"}
    BY <1>3
  <2> QED
    BY <1>1, <1>3, <2>1 DEF TreeInv
<1>5. ASSUME NEW n \in Orderly'
      PROVE  n \in Orderly /\ Awaits(n)' = Awaits(n)
  BY <1>1, OrderlyFacts DEF Awaits, Idle
<1>6. ASSUME NEW n \in Orderly'
      PROVE  \A q \in net' : q.kind \in ListKinds /\ q.asker = n =>
               Awaits(n)' = IF q.of = (IF q.kind = "LIST" THEN "city" ELSE "school") THEN 1 ELSE 2
  <2>1. \A q \in net \ {m} : q.kind \in ListKinds /\ q.asker = n =>
          Awaits(n)' = IF q.of = (IF q.kind = "LIST" THEN "city" ELSE "school") THEN 1 ELSE 2
    BY <1>5 DEF AskInv
  <2>2. m.asker = n => Awaits(n)' = IF m.of = "city" THEN 1 ELSE 2
    BY <1>1, <1>5 DEF AskInv, ListKinds
  <2>3. \A q \in Reply(m.to, m) : q.kind \in ListKinds /\ q.asker = n =>
          Awaits(n)' = IF q.of = (IF q.kind = "LIST" THEN "city" ELSE "school") THEN 1 ELSE 2
    BY <1>3, <2>2
  <2> QED
    BY <1>1, <2>1, <2>3
<1>7. ASSUME NEW n \in Orderly'
      PROVE  \A q, r \in net' : /\ q.kind \in ListKinds /\ r.kind \in ListKinds
                                /\ q.asker = n /\ r.asker = n
                                => q = r
  <2>1. m.asker = n => \A q \in net \ {m} : ~(q.kind \in ListKinds /\ q.asker = n)
    BY <1>1, <1>5 DEF AskInv, ListKinds
  <2>2. \A q, r \in net : /\ q.kind \in ListKinds /\ r.kind \in ListKinds
                          /\ q.asker = n /\ r.asker = n
                          => q = r
    BY <1>5 DEF AskInv
  <2> QED
    BY <1>1, <1>3, <2>1, <2>2
<1>8. AskInv'
  BY <1>1, <1>5, <1>6, <1>7 DEF AskInv
<1> QED
  BY <1>4, <1>8

LEMMA ShownLists ==
  ASSUME TypeOK, TreeInv, AskInv, NEW m \in net, Shown(m)
  PROVE  TreeInv' /\ AskInv'
<1>1. /\ m.kind = "REPLY" /\ net' = net \ {m}
      /\ m.call = NoCall \/ m.call \in Live(m.to)
      /\ msgState[m.to] \in {1, 2} /\ ShowList(m.to, m.of)
      /\ raced' = raced \cup IF Idle(m.to) THEN {} ELSE {m.to}
      /\ UNCHANGED <<calls, pending>>
  BY DEF Shown, callVars
<1>2. PICK t \in Nodes : t = m.to
  BY <1>1, MessageFacts DEF TypeOK
<1>3. m.of \in {"school", "camera"} /\ t # Proxy
  BY <1>1, <1>2 DEF TreeInv
<1>4. /\ msgState'[t] = 0 /\ schoolName'[t] = m.of
      /\ tree'[t].place = msgState[t] /\ tree'[t].list = m.of
      /\ msgState[t] = 2 => tree'[t].label = schoolName[t]
      /\ \A o \in Nodes \ {t} : /\ msgState'[o] = msgState[o] /\ tree'[o] = tree[o]
                                /\ schoolName'[o] = schoolName[o]
  BY <1>1, <1>2, <1>3, ShowListFacts
<1>5. TreeInv'
  <2>1. msgState'[Proxy] = 0 /\ pending'[Proxy] = NoMsgState
    BY <1>1, <1>3, <1>4, NodeFacts DEF TreeInv
  <2>2. ASSUME NEW n \in Nodes, n # t
        PROVE  /\ tree'[n].place # 0 => tree'[n].list # "none" /\ schoolName'[n] # "none"
               /\ tree'[n].place = 2 => tree'[n].label # "none"
               /\ 2 \in {msgState'[n], pending'[n]} => tree'[n].place # 0
    BY <1>1, <1>4, <2>2 DEF TreeInv
  <2>3. /\ tree'[t].list # "none" /\ schoolName'[t] # "none" /\ tree'[t].place # 0
    BY <1>1, <1>2, <1>3, <1>4
  <2>4. tree'[t].place = 2 => tree'[t].label # "none"
    BY <1>4 DEF TreeInv
  <2>5. \A q \in net' : q.kind = "REPLY" =>
          q.of \in {"school", "camera"} /\ (q.call = NoCall => q.to = q.asker)
    BY <1>1 DEF TreeInv
  <2> QED
    BY <2>1, <2>2, <2>3, <2>4, <2>5 DEF TreeInv
<1>6. ASSUME NEW n \in Orderly'
      PROVE  n \in Orderly /\ n \in Nodes /\ n \notin raced' /\ Party(n) = {}
  BY <1>1, OrderlyFacts
<1>7. ASSUME NEW n \in Orderly', n # t
      PROVE  Awaits(n)' = Awaits(n) /\ tree'[n] = tree[n]
  BY <1>1, <1>4, <1>6, <1>7 DEF Awaits, Idle
(* The reply that reaches t is the one that t waits for.                   *)
<1>8. ASSUME t \in Orderly'
      PROVE  /\ tree'[t].list = <<"none", "school", "camera">>[tree'[t].place + 1]
             /\ \A q \in net' : ~(q.kind \in ListKinds /\ q.asker = t)
  <2>1. t \in Orderly /\ Idle(t) /\ Party(t) = {}
    BY <1>1, <1>2, <1>6, <1>8
  <2>2. m.call = NoCall /\ m.asker = t
    BY <1>1, <1>2, <2>1 DEF Live, TreeInv
  <2>3. msgState[t] = IF m.of = "school" THEN 1 ELSE 2
    BY <1>1, <2>1, <2>2 DEF AskInv, Awaits, ListKinds
  <2>4. \A q \in net \ {m} : ~(q.kind \in ListKinds /\ q.asker = t)
    BY <1>1, <2>1, <2>2 DEF AskInv, ListKinds
  <2> QED
    BY <1>1, <1>3, <1>4, <2>3, <2>4
<1>9. AskInv'
  BY <1>1, <1>6, <1>7, <1>8 DEF AskInv
<1> QED
  BY <1>5, <1>9

LEMMA OnRecvMsgLists ==
  ASSUME TypeOK, DialogKnowsItsCall, TreeInv, AskInv, NEW m \in net, OnRecvMsg(m)
  PROVE  TreeInv' /\ AskInv'
  BY OnRecvMsgParts, LostLists, AnsweredLists, ShownLists

-----------------------------------------------------------------------------
(* The calls                                                               *)

LEMMA ShortMessages ==
  ASSUME NEW m \in Message, NEW q \in Message, m.kind = q.kind,
         m.kind \in {"ACK", "BYE", "BYEOK"}, m.call = q.call
  PROVE  m = q
<1>1. /\ m \in [kind : {"ACK", "BYE", "BYEOK"}, call : 1 .. MaxUses]
      /\ q \in [kind : {"ACK", "BYE", "BYEOK"}, call : 1 .. MaxUses]
  BY DEF Message
<1> QED
  BY <1>1

(* The message that a handler consumes is the only one of its kind about   *)
(* its call.                                                               *)
LEMMA OtherMessages ==
  ASSUME TypeOK, WireInv, NEW m \in net, m.kind \in CallKinds,
         NEW q \in net \ {m}, q.kind \in CallKinds, q.call = m.call
  PROVE  q.kind # m.kind
  BY ShortMessages DEF WireInv, CallKinds, TypeOK

LEMMA WireStep ==
  ASSUME WireInv, NEW new, net' \subseteq net \cup {new},
         new.kind \in CallKinds,
         new.call \in DOMAIN calls', SaysOf(new, calls'[new.call]),
         DOMAIN calls \subseteq DOMAIN calls',
         \A m \in net' \ {new} : m.kind \in CallKinds => SaysOf(m, calls'[m.call]),
         \A m \in net' \ {new} : m.kind = new.kind /\ m.kind \in {"INVITE", "OK"}
                                 => m.call # new.call
  PROVE  WireInv'
  BY DEF WireInv

LEMMA WireShrinks ==
  ASSUME WireInv, net' \subseteq net,
         DOMAIN calls \subseteq DOMAIN calls',
         \A m \in net' : m.kind \in CallKinds => SaysOf(m, calls'[m.call])
  PROVE  WireInv'
  BY DEF WireInv

LEMMA ButtonCallCalls ==
  ASSUME TypeOK, WireInv, LegInv, PortInv, OneCall, DialogKnowsItsCall,
         NEW n \in Clients, ButtonCall(n), ~CallFails(n)
  PROVE  WireInv' /\ LegInv' /\ PortInv' /\ OneCall' /\ DialogKnowsItsCall'
<1>1. PICK c \in 1 .. MaxUses :
        /\ c \notin DOMAIN calls /\ DOMAIN calls' = DOMAIN calls \cup {c}
        /\ \A d \in DOMAIN calls : calls'[d] = calls[d]
        /\ calls'[c].from = n
        /\ calls'[c].uac = "calling" /\ calls'[c].uas = "none"
        /\ net' = net \cup {[kind |-> "INVITE", call |-> c,
                             sdp |-> [node |-> n, port |-> CLIENT_RTP_PORT]]}
        /\ localPort' = [localPort EXCEPT ![n] = CLIENT_RTP_PORT]
        /\ nOp' = [nOp EXCEPT ![n] = 1]
        /\ overlapped' = overlapped \cup IF Live(n) = {} THEN {} ELSE {n}
        /\ callId' = callId /\ hung' = hung /\ unmade' = unmade \ {n}
  BY ButtonCallFacts
<1>2. n \in Nodes /\ n # Proxy
  BY NodeFacts
<1>3. /\ localPort'[n] = CLIENT_RTP_PORT /\ nOp'[n] = 1
      /\ \A o \in Nodes \ {n} : localPort'[o] = localPort[o] /\ nOp'[o] = nOp[o]
  BY <1>1, <1>2 DEF TypeOK
<1>4. WireInv'
  <2> DEFINE new == [kind |-> "INVITE", call |-> c,
                     sdp |-> [node |-> n, port |-> CLIENT_RTP_PORT]]
  <2>1. new.kind = "INVITE" /\ new.call = c /\ net' = net \cup {new}
    BY <1>1
  <2> HIDE DEF new
  <2>2. \A m \in net : m.kind \in CallKinds => m.call # c /\ SaysOf(m, calls'[m.call])
    BY <1>1 DEF WireInv
  <2>3. SaysOf(new, calls'[new.call])
    BY <1>1, <2>1 DEF SaysOf
  <2> QED
    BY <1>1, <2>1, <2>2, <2>3, WireStep, Zenon DEF CallKinds
<1>5. LegInv' /\ c \notin hung
  BY <1>1 DEF LegInv
<1>6. PortInv'
  BY <1>3 DEF PortInv, CLIENT_RTP_PORT
<1>7. /\ Live(n)' = Live(n) \cup {c}
      /\ \A o \in Nodes \ {n} : Live(o)' = Live(o)
      /\ Leg(n, c)' = "calling"
      /\ \A o \in Nodes : \A d \in DOMAIN calls : Leg(o, d)' = Leg(o, d)
  BY <1>1, <1>2 DEF Live, Party, Leg
<1>8. n \notin overlapped' => Live(n) = {}
  BY <1>1
<1>9. OneCall'
  BY <1>1, <1>7, <1>8 DEF OneCall
<1>10. DialogKnowsItsCall'
  <2>1. \A o \in Nodes : callId'[o] # NoCall => callId'[o] \in Live(o)'
    BY <1>1, <1>7 DEF DialogKnowsItsCall
  <2>2. ASSUME NEW o \in Nodes \ {n}, o \notin overlapped'
        PROVE  /\ \A d \in Live(o)' : Leg(o, d)' = "confirmed" => callId'[o] = d
               /\ OperationFits(o)'
    BY <1>1, <1>3, <1>7, <2>2, LiveIsInDomain DEF DialogKnowsItsCall, OperationFits
  <2>3. ASSUME n \notin overlapped'
        PROVE  /\ \A d \in Live(n)' : Leg(n, d)' = "confirmed" => callId'[n] = d
               /\ OperationFits(n)'
    BY <1>1, <1>2, <1>3, <1>5, <1>7, <1>8, <2>3 DEF OperationFits
  <2> QED
    BY <2>1, <2>2, <2>3 DEF DialogKnowsItsCall
<1> QED
  BY <1>4, <1>5, <1>6, <1>9, <1>10

(* The lives of calls when one leg of c changes.                           *)
LEMMA CallerLeg ==
  ASSUME TypeOK, NEW c \in DOMAIN calls, NEW n \in Clients, calls[c].from = n,
         DOMAIN calls' = DOMAIN calls,
         \A d \in DOMAIN calls :
           calls'[d].from = calls[d].from /\ calls'[d].uas = calls[d].uas,
         \A d \in DOMAIN calls \ {c} : calls'[d] = calls[d]
  PROVE  /\ \A o \in Nodes \ {n} :
              Live(o)' = Live(o) /\ \A d \in Live(o) : Leg(o, d)' = Leg(o, d)
         /\ Live(n)' = IF calls'[c].uac \in {"none", "ended"} THEN Live(n) \ {c}
                       ELSE Live(n) \cup {c}
         /\ \A d \in Live(n) \ {c} : Leg(n, d)' = Leg(n, d)
         /\ Leg(n, c)' = calls'[c].uac
         /\ \A o \in Nodes : Party(o)' = Party(o)
<1>1. n \in Nodes /\ n # Proxy /\ Proxy \in Nodes
  BY NodeFacts
<1>2. \A o \in Nodes : Party(o)' = Party(o)
  BY DEF Party
<1>3. \A o \in Nodes \ {n} : \A d \in Party(o) : Leg(o, d)' = Leg(o, d)
  BY DEF Party, Leg
<1>4. \A d \in DOMAIN calls \ {c} : Leg(n, d)' = Leg(n, d)
  BY <1>1 DEF Leg
<1>5. Leg(n, c)' = calls'[c].uac /\ c \in Party(n)
  BY <1>1 DEF Leg, Party
<1>6. \A o \in Nodes \ {n} : Live(o)' = Live(o)
  BY <1>2, <1>3 DEF Live
<1>7. Live(n)' = IF calls'[c].uac \in {"none", "ended"} THEN Live(n) \ {c}
                 ELSE Live(n) \cup {c}
  <2>1. Party(n) \subseteq DOMAIN calls
    BY DEF Party
  <2> QED
    BY <1>1, <1>2, <1>4, <1>5, <2>1 DEF Live
<1> QED
  BY <1>2, <1>3, <1>4, <1>5, <1>6, <1>7, <1>1, LiveIsInDomain DEF Live

LEMMA CalleeLeg ==
  ASSUME TypeOK, NEW c \in DOMAIN calls,
         DOMAIN calls' = DOMAIN calls,
         \A d \in DOMAIN calls :
           calls'[d].from = calls[d].from /\ calls'[d].uac = calls[d].uac,
         \A d \in DOMAIN calls \ {c} : calls'[d] = calls[d]
  PROVE  /\ \A o \in Nodes \ {Proxy} :
              Live(o)' = Live(o) /\ \A d \in Live(o) : Leg(o, d)' = Leg(o, d)
         /\ Live(Proxy)' = IF calls'[c].uas \in {"none", "ended"} THEN Live(Proxy) \ {c}
                           ELSE Live(Proxy) \cup {c}
         /\ \A d \in Live(Proxy) \ {c} : Leg(Proxy, d)' = Leg(Proxy, d)
         /\ Leg(Proxy, c)' = calls'[c].uas
         /\ \A o \in Nodes : Party(o)' = Party(o)
<1>2. \A o \in Nodes : Party(o)' = Party(o)
  BY DEF Party
<1>3. \A o \in Nodes \ {Proxy} : \A d \in Party(o) : Leg(o, d)' = Leg(o, d)
  BY DEF Party, Leg
<1>4. \A d \in DOMAIN calls \ {c} : Leg(Proxy, d)' = Leg(Proxy, d)
  BY DEF Leg
<1>5. Leg(Proxy, c)' = calls'[c].uas /\ c \in Party(Proxy)
  BY DEF Leg, Party
<1>6. \A o \in Nodes \ {Proxy} : Live(o)' = Live(o)
  BY <1>2, <1>3 DEF Live
<1>7. Live(Proxy)' = IF calls'[c].uas \in {"none", "ended"} THEN Live(Proxy) \ {c}
                     ELSE Live(Proxy) \cup {c}
  <2>1. Party(Proxy) \subseteq DOMAIN calls
    BY DEF Party
  <2> QED
    BY <1>2, <1>4, <1>5, <2>1, NodeFacts DEF Live
<1> QED
  BY <1>2, <1>3, <1>4, <1>5, <1>6, <1>7, NodeFacts, LiveIsInDomain DEF Live

(* The dialogs of the other nodes.                                         *)
LEMMA OtherDialogs ==
  ASSUME DialogKnowsItsCall, OneCall, NEW n \in Nodes,
         \A o \in Nodes \ {n} :
           /\ Live(o)' = Live(o) /\ \A d \in Live(o) : Leg(o, d)' = Leg(o, d)
           /\ callId'[o] = callId[o] /\ nOp'[o] = nOp[o]
           /\ o \in unmade' <=> o \in unmade
           /\ o # Proxy => (Live(o) \subseteq hung' <=> Live(o) \subseteq hung),
         overlapped \subseteq overlapped',
         callId'[n] # NoCall => callId'[n] \in Live(n)',
         n \notin overlapped' =>
           /\ \A c, d \in Live(n)' : c = d
           /\ \A c \in Live(n)' : Leg(n, c)' = "confirmed" => callId'[n] = c
           /\ OperationFits(n)'
  PROVE  DialogKnowsItsCall' /\ OneCall'
<1>1. \A o \in Nodes \ {n} : callId'[o] # NoCall => callId'[o] \in Live(o)'
  BY DEF DialogKnowsItsCall
<1>2. ASSUME NEW o \in Nodes \ {n}, o \notin overlapped'
      PROVE  /\ \A c, d \in Live(o)' : c = d
             /\ \A c \in Live(o)' : Leg(o, c)' = "confirmed" => callId'[o] = c
             /\ OperationFits(o)'
  <2>1. o \in Nodes \ overlapped
    BY <1>2
  <2>2. /\ Live(o)' = Live(o) /\ \A d \in Live(o) : Leg(o, d)' = Leg(o, d)
        /\ callId'[o] = callId[o] /\ nOp'[o] = nOp[o]
        /\ o \in unmade' <=> o \in unmade
        /\ o # Proxy => (Live(o) \subseteq hung' <=> Live(o) \subseteq hung)
    BY <1>2
  <2>3. \A c, d \in Live(o) : c = d
    BY <2>1 DEF OneCall
  <2>4. /\ \A c \in Live(o) : Leg(o, c) = "confirmed" => callId[o] = c
        /\ OperationFits(o)
    BY <2>1 DEF DialogKnowsItsCall
  <2>5. OperationFits(o)'
    BY <2>2, <2>4 DEF OperationFits
  <2> QED
    BY <2>2, <2>3, <2>4, <2>5
<1>3. DialogKnowsItsCall'
  BY <1>1, <1>2 DEF DialogKnowsItsCall
<1>4. OneCall'
  BY <1>2 DEF OneCall
<1> QED
  BY <1>3, <1>4

(* A call that fails leaves an operation without a call.                   *)
LEMMA CallFailsCalls ==
  ASSUME TypeOK, WireInv, LegInv, PortInv, OneCall, DialogKnowsItsCall,
         NEW n \in Clients, CallFails(n)
  PROVE  WireInv' /\ LegInv' /\ PortInv' /\ OneCall' /\ DialogKnowsItsCall'
<1>1. n \in Nodes
  BY NodeFacts
<1>2. /\ localPort'[n] = CLIENT_RTP_PORT /\ nOp'[n] = 1 /\ n \in unmade'
      /\ \A o \in Nodes \ {n} :
           /\ localPort'[o] = localPort[o] /\ nOp'[o] = nOp[o]
           /\ o \in unmade' <=> o \in unmade
  BY <1>1 DEF CallFails, TypeOK
<1>3. UNCHANGED <<calls, net, callId, overlapped, hung>>
  BY DEF CallFails
<1>4. WireInv' /\ LegInv'
  BY <1>3 DEF WireInv, LegInv
<1>5. PortInv'
  BY <1>2 DEF PortInv, CLIENT_RTP_PORT
<1>6. \A o \in Nodes : Live(o)' = Live(o) /\ \A c \in Live(o) : Leg(o, c)' = Leg(o, c)
  BY <1>3 DEF Live, Party, Leg
<1>7. OperationFits(n)'
  BY <1>2 DEF OperationFits
<1>8. DialogKnowsItsCall' /\ OneCall'
  <2>1. callId'[n] # NoCall => callId'[n] \in Live(n)'
    BY <1>1, <1>3, <1>6 DEF DialogKnowsItsCall
  <2>2. n \notin overlapped' =>
          /\ \A c, d \in Live(n)' : c = d
          /\ \A c \in Live(n)' : Leg(n, c)' = "confirmed" => callId'[n] = c
    BY <1>1, <1>3, <1>6 DEF DialogKnowsItsCall, OneCall
  <2> QED
    BY <1>1, <1>2, <1>3, <1>6, <1>7, <2>1, <2>2, OtherDialogs
<1> QED
  BY <1>4, <1>5, <1>8

LEMMA ButtonHungupCalls ==
  ASSUME TypeOK, WireInv, LegInv, PortInv, OneCall, DialogKnowsItsCall,
         NEW n \in Clients, ButtonHungup(n)
  PROVE  WireInv' /\ LegInv' /\ PortInv' /\ OneCall' /\ DialogKnowsItsCall'
<1>1. /\ nOp' = [nOp EXCEPT ![n] = 0] /\ hung' = hung \cup Live(n)
      /\ unmade' = unmade \ {n}
      /\ UNCHANGED <<callId, localPort, overlapped>>
  BY ButtonHungupFacts
<1>2. n \in Nodes /\ n # Proxy
  BY NodeFacts
<1>3. nOp'[n] = 0 /\ \A o \in Nodes \ {n} : nOp'[o] = nOp[o]
  BY <1>1, <1>2 DEF TypeOK
<1>4. PortInv'
  BY <1>1, <1>3 DEF PortInv
<1>5. Live(n) \subseteq DOMAIN calls /\ hung \subseteq hung'
  BY <1>1, <1>2, LiveIsInDomain
<1>6. \A o \in Nodes \ {n} : o # Proxy => (Live(o) \subseteq hung' <=> Live(o) \subseteq hung)
  <2>1. \A o \in Nodes \ {n} : o # Proxy => Live(o) \cap Live(n) = {}
    BY <1>2 DEF Live, Party
  <2> QED
    BY <1>1, <2>1
<1>7. /\ WireInv' /\ LegInv'
      /\ \A o \in Nodes : Live(o)' = Live(o)
      /\ \A o \in Nodes \ {n} : \A d \in Live(o) : Leg(o, d)' = Leg(o, d)
      /\ \A d \in Live(n) : Leg(n, d)' = "confirmed" => Leg(n, d) = "confirmed"
  <2>1. CASE calls' = calls /\ net' = net
    <3>1. WireInv'
      BY <2>1 DEF WireInv
    <3>2. LegInv'
      BY <1>1, <1>5, <2>1 DEF LegInv
    <3> QED
      BY <2>1, <3>1, <3>2 DEF Live, Party, Leg
  <2>2. CASE ~(calls' = calls /\ net' = net)
    <3>1. PICK c \in DOMAIN calls :
            /\ c \in Live(n) /\ calls[c].from = n /\ calls[c].uac = "confirmed"
            /\ DOMAIN calls' = DOMAIN calls
            /\ \A d \in DOMAIN calls :
                 calls'[d].from = calls[d].from /\ calls'[d].uas = calls[d].uas
            /\ \A d \in DOMAIN calls \ {c} : calls'[d] = calls[d]
            /\ calls'[c].uac = "ending"
            /\ net' = net \cup {[kind |-> "BYE", call |-> c]}
      BY <2>2, ButtonHungupFacts
    <3>2. WireInv'
      <4> DEFINE new == [kind |-> "BYE", call |-> c]
      <4>1. new.kind = "BYE" /\ new.call = c /\ net' = net \cup {new}
        BY <3>1
      <4> HIDE DEF new
      <4>2. SaysOf(new, calls'[new.call])
        BY <3>1, <4>1 DEF SaysOf, LegInv
      <4>3. \A m \in net : m.kind \in CallKinds => SaysOf(m, calls'[m.call])
        <5> TAKE m \in net
        <5> HAVE m.kind \in CallKinds
        <5>1. m.call \in DOMAIN calls /\ SaysOf(m, calls[m.call])
          BY DEF WireInv
        <5> QED
          BY <3>1, <5>1 DEF SaysOf
      <4> QED
        BY <3>1, <4>1, <4>2, <4>3, WireStep, Zenon DEF CallKinds
    <3>3. LegInv'
      BY <1>1, <1>5, <3>1 DEF LegInv
    <3>4. /\ \A o \in Nodes \ {n} :
               Live(o)' = Live(o) /\ \A d \in Live(o) : Leg(o, d)' = Leg(o, d)
          /\ Live(n)' = IF calls'[c].uac \in {"none", "ended"} THEN Live(n) \ {c}
                        ELSE Live(n) \cup {c}
          /\ \A d \in Live(n) \ {c} : Leg(n, d)' = Leg(n, d)
          /\ Leg(n, c)' = calls'[c].uac
      BY <3>1, CallerLeg
    <3> QED
      BY <3>1, <3>2, <3>3, <3>4
  <2> QED
    BY <2>1, <2>2
<1>8. DialogKnowsItsCall' /\ OneCall'
  <2>1. callId'[n] # NoCall => callId'[n] \in Live(n)'
    BY <1>1, <1>2, <1>7 DEF DialogKnowsItsCall
  <2>2. ASSUME n \notin overlapped'
        PROVE  /\ \A c, d \in Live(n)' : c = d
               /\ \A c \in Live(n)' : Leg(n, c)' = "confirmed" => callId'[n] = c
               /\ OperationFits(n)'
    BY <1>1, <1>2, <1>3, <1>7, <2>2 DEF DialogKnowsItsCall, OneCall, OperationFits
  <2> QED
    BY <1>1, <1>2, <1>3, <1>6, <1>7, <2>1, <2>2, OtherDialogs
<1> QED
  BY <1>4, <1>7, <1>8

LEMMA IncomingCallCalls ==
  ASSUME TypeOK, WireInv, LegInv, PortInv, OneCall, DialogKnowsItsCall,
         NEW m \in net, IncomingCall(m)
  PROVE  WireInv' /\ LegInv' /\ PortInv' /\ OneCall' /\ DialogKnowsItsCall'
<1>1. PICK c : c = m.call
  OBVIOUS
<1>2. /\ m.kind = "INVITE" /\ m.kind \in CallKinds /\ c \in DOMAIN calls
      /\ c \in 1 .. MaxUses
      /\ calls[c].uac = "calling" /\ calls[c].uas = "none"
  BY <1>1, IncomingCallFacts, CallsOnWire DEF SaysOf
<1>3. /\ callId' = [callId EXCEPT ![Proxy] = c]
      /\ localPort' = [localPort EXCEPT ![Proxy] = PROXY_RTP_PORT]
      /\ nOp' = [nOp EXCEPT ![Proxy] = 2]
      /\ overlapped' = overlapped \cup IF Live(Proxy) = {} THEN {} ELSE {Proxy}
      /\ hung' = hung /\ unmade' = unmade
  BY <1>1, IncomingCallFacts
<1>4. /\ DOMAIN calls' = DOMAIN calls
      /\ \A d \in DOMAIN calls :
           calls'[d].from = calls[d].from /\ calls'[d].uac = calls[d].uac
      /\ \A d \in DOMAIN calls \ {c} : calls'[d] = calls[d]
      /\ calls'[c].uas = "connecting"
  BY <1>1, IncomingCallFacts
<1>5. /\ callId'[Proxy] = c /\ localPort'[Proxy] = PROXY_RTP_PORT /\ nOp'[Proxy] = 2
      /\ \A o \in Nodes \ {Proxy} :
           callId'[o] = callId[o] /\ localPort'[o] = localPort[o] /\ nOp'[o] = nOp[o]
  BY <1>3, NodeFacts DEF TypeOK
<1>6. WireInv'
  <2>1. PICK new : /\ new.kind = "OK" /\ new.call = c
                   /\ net' = (net \ {m}) \cup {new}
    BY <1>1, IncomingCallFacts
  <2>2. ASSUME NEW q \in net \ {m}, q.kind \in CallKinds
        PROVE  SaysOf(q, calls'[q.call]) /\ (q.kind = "OK" => q.call # c)
    <3>1. q.call \in DOMAIN calls /\ SaysOf(q, calls[q.call])
      BY <2>2 DEF WireInv
    <3>2. q.call = c => q.kind # "INVITE"
      BY <1>1, <1>2, <2>2, OtherMessages
    <3> QED
      BY <1>2, <1>4, <3>1, <3>2, <2>2 DEF SaysOf, CallKinds
  <2>3. SaysOf(new, calls'[new.call])
    BY <1>2, <1>4, <2>1 DEF SaysOf
  <2>4. new.kind \in CallKinds
    BY <2>1 DEF CallKinds
  <2>5. \A q \in net' \ {new} :
          /\ q.kind \in CallKinds => SaysOf(q, calls'[q.call])
          /\ q.kind = new.kind /\ q.kind \in {"INVITE", "OK"} => q.call # new.call
    BY <2>1, <2>2, <2>4
  <2> QED
    BY <1>2, <1>4, <2>1, <2>3, <2>4, <2>5, WireStep, Zenon
<1>7. LegInv'
  BY <1>2, <1>3, <1>4 DEF LegInv
<1>8. PortInv'
  BY <1>5 DEF PortInv, PROXY_RTP_PORT
<1>9. DialogKnowsItsCall' /\ OneCall'
  <2>1. /\ \A o \in Nodes \ {Proxy} :
             Live(o)' = Live(o) /\ \A d \in Live(o) : Leg(o, d)' = Leg(o, d)
        /\ Live(Proxy)' = Live(Proxy) \cup {c}
        /\ Leg(Proxy, c)' = "connecting"
    BY <1>2, <1>4, CalleeLeg
  <2>2. Proxy \notin overlapped' => Live(Proxy)' = {c}
    BY <1>3, <2>1
  <2>3. Proxy \notin overlapped' => OperationFits(Proxy)'
    BY <1>5, <2>2 DEF OperationFits
  <2> QED
    BY <1>3, <1>5, <2>1, <2>2, <2>3, NodeFacts, OtherDialogs
<1> QED
  BY <1>6, <1>7, <1>8, <1>9

LEMMA CallerConfirmedCalls ==
  ASSUME TypeOK, WireInv, LegInv, PortInv, OneCall, DialogKnowsItsCall,
         NEW m \in net, CallerConfirmed(m)
  PROVE  WireInv' /\ LegInv' /\ PortInv' /\ OneCall' /\ DialogKnowsItsCall'
<1>1. PICK c : c = m.call
  OBVIOUS
<1>2. PICK n : n = calls[c].from
  OBVIOUS
<1>3. /\ m.kind = "OK" /\ m.kind \in CallKinds /\ c \in DOMAIN calls
      /\ c \in 1 .. MaxUses /\ n \in Clients /\ n \in Nodes /\ n # Proxy
      /\ calls[c].uac = "calling" /\ calls[c].uas = "connecting"
  BY <1>1, <1>2, CallerConfirmedFacts, CallsOnWire DEF SaysOf
<1>4. /\ DOMAIN calls' = DOMAIN calls
      /\ \A d \in DOMAIN calls :
           calls'[d].from = calls[d].from /\ calls'[d].uas = calls[d].uas
      /\ \A d \in DOMAIN calls \ {c} : calls'[d] = calls[d]
      /\ calls'[c].uac = "confirmed"
  BY <1>1, CallerConfirmedFacts
<1>5. /\ net' = (net \ {m}) \cup {[kind |-> "ACK", call |-> c]}
      /\ UNCHANGED <<nOp, localPort, overlapped, hung, unmade>>
      /\ callId' = [callId EXCEPT ![n] = c]
  BY <1>1, <1>2, CallerConfirmedFacts DEF Confirmed
<1>6. callId'[n] = c /\ \A o \in Nodes \ {n} : callId'[o] = callId[o]
  BY <1>3, <1>5 DEF TypeOK
<1>7. WireInv'
  <2>1. PICK new : /\ new.kind = "ACK" /\ new.call = c
                   /\ net' = (net \ {m}) \cup {new}
    BY <1>5
  <2>2. ASSUME NEW q \in net \ {m}, q.kind \in CallKinds
        PROVE  SaysOf(q, calls'[q.call])
    <3>1. q.call \in DOMAIN calls /\ SaysOf(q, calls[q.call])
      BY <2>2 DEF WireInv
    <3>2. q.call = c => q.kind # "OK"
      BY <1>1, <1>3, <2>2, OtherMessages
    <3> QED
      BY <1>3, <1>4, <3>1, <3>2, <2>2 DEF SaysOf, CallKinds
  <2>3. SaysOf(new, calls'[new.call])
    BY <1>3, <1>4, <2>1 DEF SaysOf
  <2>4. new.kind \in CallKinds /\ new.kind \notin {"INVITE", "OK"}
    BY <2>1 DEF CallKinds
  <2>5. \A q \in net' \ {new} :
          /\ q.kind \in CallKinds => SaysOf(q, calls'[q.call])
          /\ q.kind = new.kind /\ q.kind \in {"INVITE", "OK"} => q.call # new.call
    BY <2>1, <2>2, <2>4
  <2> QED
    BY <1>3, <1>4, <2>1, <2>3, <2>4, <2>5, WireStep, Zenon
<1>8. LegInv'
  BY <1>3, <1>4, <1>5 DEF LegInv
<1>9. PortInv'
  BY <1>5 DEF PortInv
<1>10. DialogKnowsItsCall' /\ OneCall'
  <2>1. /\ \A o \in Nodes \ {n} :
             Live(o)' = Live(o) /\ \A d \in Live(o) : Leg(o, d)' = Leg(o, d)
        /\ Live(n)' = Live(n) \cup {c}
    BY <1>2, <1>3, <1>4, CallerLeg
  <2>2. c \in Live(n)
    BY <1>2, <1>3 DEF Live, Party, Leg
  <2>3. ASSUME n \notin overlapped'
        PROVE  /\ Live(n) = {c} /\ Live(n)' = {c}
               /\ OperationFits(n)'
    BY <1>3, <1>5, <2>1, <2>2, <2>3 DEF OneCall, DialogKnowsItsCall, OperationFits
  <2> QED
    BY <1>3, <1>5, <1>6, <2>1, <2>2, <2>3, OtherDialogs
<1> QED
  BY <1>7, <1>8, <1>9, <1>10

LEMMA CalleeConfirmedCalls ==
  ASSUME TypeOK, WireInv, LegInv, PortInv, OneCall, DialogKnowsItsCall,
         NEW m \in net, CalleeConfirmed(m)
  PROVE  WireInv' /\ LegInv' /\ PortInv' /\ OneCall' /\ DialogKnowsItsCall'
<1>1. PICK c : c = m.call
  OBVIOUS
<1>2. /\ m.kind = "ACK" /\ m.kind \in CallKinds /\ c \in DOMAIN calls
      /\ calls[c].uac # "calling"
  BY <1>1, CalleeConfirmedFacts, CallsOnWire DEF SaysOf
<1>3. net' = net \ {m} /\ UNCHANGED <<nOp, localPort, overlapped, hung, unmade>>
  BY CalleeConfirmedFacts
<1>4. PortInv'
  BY <1>3 DEF PortInv
<1>5. CASE UNCHANGED <<calls, callId, mediaVars>>
  <2>1. WireInv'
    BY <1>3, <1>5 DEF WireInv
  <2>2. LegInv'
    BY <1>3, <1>5 DEF LegInv
  <2>3. \A o \in Nodes : Live(o)' = Live(o) /\ \A d \in Live(o) : Leg(o, d)' = Leg(o, d)
    BY <1>5 DEF Live, Party, Leg
  <2>4. OneCall'
    BY <1>3, <2>3 DEF OneCall
  <2>5. DialogKnowsItsCall'
    BY <1>3, <1>5, <2>3 DEF DialogKnowsItsCall, OperationFits
  <2> QED
    BY <1>4, <2>1, <2>2, <2>4, <2>5
<1>6. CASE ~UNCHANGED <<calls, callId, mediaVars>>
  <2>1. /\ calls[c].uas = "connecting"
        /\ DOMAIN calls' = DOMAIN calls
        /\ \A d \in DOMAIN calls :
             calls'[d].from = calls[d].from /\ calls'[d].uac = calls[d].uac
        /\ \A d \in DOMAIN calls \ {c} : calls'[d] = calls[d]
        /\ calls'[c].uas = "confirmed"
        /\ callId' = [callId EXCEPT ![Proxy] = c]
    BY <1>1, <1>6, CalleeConfirmedFacts DEF Confirmed
  <2>2. callId'[Proxy] = c /\ \A o \in Nodes \ {Proxy} : callId'[o] = callId[o]
    BY <2>1, NodeFacts DEF TypeOK
  <2>3. ASSUME NEW q \in net', q.kind \in CallKinds
        PROVE  SaysOf(q, calls'[q.call])
    <3>1. q \in net \ {m} /\ q.call \in DOMAIN calls /\ SaysOf(q, calls[q.call])
      BY <1>3, <2>3 DEF WireInv
    <3>2. q.call = c => q.kind # "ACK"
      BY <1>1, <1>2, <2>3, <3>1, OtherMessages
    <3> QED
      BY <1>2, <2>1, <3>1, <3>2, <2>3 DEF SaysOf, CallKinds
  <2>4. WireInv'
    BY <1>3, <2>1, <2>3, WireShrinks
  <2>5. LegInv'
    BY <1>3, <2>1 DEF LegInv
  <2>6. /\ \A o \in Nodes \ {Proxy} :
             Live(o)' = Live(o) /\ \A d \in Live(o) : Leg(o, d)' = Leg(o, d)
        /\ Live(Proxy)' = Live(Proxy) \cup {c}
    BY <1>2, <2>1, CalleeLeg
  <2>7. c \in Live(Proxy)
    BY <1>2, <2>1 DEF Live, Party, Leg
  <2>8. ASSUME Proxy \notin overlapped'
        PROVE  /\ Live(Proxy) = {c} /\ Live(Proxy)' = {c}
               /\ OperationFits(Proxy)'
    BY <1>3, <2>6, <2>7, <2>8, NodeFacts DEF OneCall, DialogKnowsItsCall, OperationFits
  <2>9. DialogKnowsItsCall' /\ OneCall'
    BY <1>3, <2>2, <2>6, <2>7, <2>8, NodeFacts, OtherDialogs
  <2> QED
    BY <1>4, <2>4, <2>5, <2>9
<1> QED
  BY <1>5, <1>6

LEMMA CalleeDisconnectedCalls ==
  ASSUME TypeOK, WireInv, LegInv, PortInv, OneCall, DialogKnowsItsCall,
         NEW m \in net, CalleeDisconnected(m)
  PROVE  WireInv' /\ LegInv' /\ PortInv' /\ OneCall' /\ DialogKnowsItsCall'
<1>1. PICK c : c = m.call
  OBVIOUS
<1>2. /\ m.kind = "BYE" /\ m.kind \in CallKinds /\ c \in DOMAIN calls
      /\ calls[c].uac = "ending" /\ calls[c].uas \in {"connecting", "confirmed"}
  BY <1>1, CalleeDisconnectedFacts, CallsOnWire DEF SaysOf
<1>3. /\ DOMAIN calls' = DOMAIN calls
      /\ \A d \in DOMAIN calls :
           calls'[d].from = calls[d].from /\ calls'[d].uac = calls[d].uac
      /\ \A d \in DOMAIN calls \ {c} : calls'[d] = calls[d]
      /\ calls'[c].uas = "ended"
  BY <1>1, CalleeDisconnectedFacts
<1>4. /\ net' = (net \ {m}) \cup {[kind |-> "BYEOK", call |-> c]}
      /\ UNCHANGED <<localPort, overlapped, hung>>
  BY <1>1, CalleeDisconnectedFacts
<1>5. /\ callId'[Proxy] = NoCall /\ nOp'[Proxy] = 0
      /\ \A o \in Nodes \ {Proxy} :
           /\ callId'[o] = callId[o] /\ nOp'[o] = nOp[o]
           /\ o \in unmade' <=> o \in unmade
  BY CalleeDisconnectedFacts, DisconnectedFacts, NodeFacts
<1>6. WireInv'
  <2>1. PICK new : /\ new.kind = "BYEOK" /\ new.call = c
                   /\ net' = (net \ {m}) \cup {new}
    BY <1>4
  <2>2. ASSUME NEW q \in net \ {m}, q.kind \in CallKinds
        PROVE  SaysOf(q, calls'[q.call])
    <3>1. q.call \in DOMAIN calls /\ SaysOf(q, calls[q.call])
      BY <2>2 DEF WireInv
    <3>2. q.call = c => q.kind # "BYE"
      BY <1>1, <1>2, <2>2, OtherMessages
    <3> QED
      BY <1>2, <1>3, <3>1, <3>2, <2>2 DEF SaysOf, CallKinds
  <2>3. SaysOf(new, calls'[new.call])
    BY <1>2, <1>3, <2>1 DEF SaysOf
  <2>4. new.kind \in CallKinds /\ new.kind \notin {"INVITE", "OK"}
    BY <2>1 DEF CallKinds
  <2>5. \A q \in net' \ {new} :
          /\ q.kind \in CallKinds => SaysOf(q, calls'[q.call])
          /\ q.kind = new.kind /\ q.kind \in {"INVITE", "OK"} => q.call # new.call
    BY <2>1, <2>2, <2>4
  <2> QED
    BY <1>2, <1>3, <2>1, <2>3, <2>4, <2>5, WireStep, Zenon
<1>7. LegInv'
  BY <1>2, <1>3, <1>4 DEF LegInv
<1>8. PortInv'
  BY <1>4, <1>5 DEF PortInv
<1>9. DialogKnowsItsCall' /\ OneCall'
  <2>1. /\ \A o \in Nodes \ {Proxy} :
             Live(o)' = Live(o) /\ \A d \in Live(o) : Leg(o, d)' = Leg(o, d)
        /\ Live(Proxy)' = Live(Proxy) \ {c}
    BY <1>2, <1>3, CalleeLeg
  <2>2. c \in Live(Proxy)
    BY <1>2 DEF Live, Party, Leg
  <2>3. Proxy \notin overlapped' => Live(Proxy)' = {}
    BY <1>4, <2>1, <2>2, NodeFacts DEF OneCall
  <2>4. Proxy \notin overlapped' => OperationFits(Proxy)'
    BY <1>5, <2>3 DEF OperationFits
  <2> QED
    BY <1>4, <1>5, <2>1, <2>3, <2>4, NodeFacts, OtherDialogs
<1> QED
  BY <1>6, <1>7, <1>8, <1>9

LEMMA CallerDisconnectedCalls ==
  ASSUME TypeOK, WireInv, LegInv, PortInv, OneCall, DialogKnowsItsCall,
         NEW m \in net, CallerDisconnected(m)
  PROVE  WireInv' /\ LegInv' /\ PortInv' /\ OneCall' /\ DialogKnowsItsCall'
<1>1. PICK c : c = m.call
  OBVIOUS
<1>2. PICK n : n = calls[c].from
  OBVIOUS
<1>3. /\ m.kind = "BYEOK" /\ m.kind \in CallKinds /\ c \in DOMAIN calls
      /\ n \in Clients /\ n \in Nodes /\ n # Proxy
      /\ calls[c].uac = "ending" /\ calls[c].uas = "ended"
  BY <1>1, <1>2, CallerDisconnectedFacts, CallsOnWire DEF SaysOf
<1>4. /\ DOMAIN calls' = DOMAIN calls
      /\ \A d \in DOMAIN calls :
           calls'[d].from = calls[d].from /\ calls'[d].uas = calls[d].uas
      /\ \A d \in DOMAIN calls \ {c} : calls'[d] = calls[d]
      /\ calls'[c].uac = "ended"
  BY <1>1, CallerDisconnectedFacts
<1>5. /\ net' = net \ {m} /\ Disconnected(n)
      /\ UNCHANGED <<localPort, overlapped, hung>>
  BY <1>1, <1>2, CallerDisconnectedFacts
<1>6. /\ callId'[n] = NoCall /\ nOp'[n] = 0
      /\ \A o \in Nodes \ {n} :
           /\ callId'[o] = callId[o] /\ nOp'[o] = nOp[o]
           /\ o \in unmade' <=> o \in unmade
  BY <1>3, <1>5, DisconnectedFacts
<1>7. WireInv'
  <2>1. ASSUME NEW q \in net', q.kind \in CallKinds
        PROVE  SaysOf(q, calls'[q.call])
    <3>1. q \in net \ {m} /\ q.call \in DOMAIN calls /\ SaysOf(q, calls[q.call])
      BY <1>5, <2>1 DEF WireInv
    <3>2. q.call = c => q.kind # "BYEOK"
      BY <1>1, <1>3, <2>1, <3>1, OtherMessages
    <3> QED
      BY <1>3, <1>4, <3>1, <3>2, <2>1 DEF SaysOf, CallKinds
  <2> QED
    BY <1>4, <1>5, <2>1, WireShrinks
<1>8. LegInv'
  BY <1>3, <1>4, <1>5 DEF LegInv
<1>9. PortInv'
  BY <1>5, <1>6 DEF PortInv
<1>10. DialogKnowsItsCall' /\ OneCall'
  <2>1. /\ \A o \in Nodes \ {n} :
             Live(o)' = Live(o) /\ \A d \in Live(o) : Leg(o, d)' = Leg(o, d)
        /\ Live(n)' = Live(n) \ {c}
    BY <1>2, <1>3, <1>4, CallerLeg
  <2>2. c \in Live(n)
    BY <1>2, <1>3 DEF Live, Party, Leg
  <2>3. n \notin overlapped' => Live(n)' = {}
    BY <1>3, <1>5, <2>1, <2>2 DEF OneCall
  <2>4. n \notin overlapped' => OperationFits(n)'
    BY <1>6, <2>3 DEF OperationFits
  <2> QED
    BY <1>3, <1>5, <1>6, <2>1, <2>3, <2>4, OtherDialogs
<1> QED
  BY <1>7, <1>8, <1>9, <1>10

-----------------------------------------------------------------------------
(* The transports                                                          *)

(* MediaInv after a step, in its four parts.                               *)
LEMMA MediaStep ==
  ASSUME \A n \in Clients : Party(n)' = {} => Fresh(n)',
         (\A c \in DOMAIN calls' : calls'[c].uas = "none") => Fresh(Proxy)',
         \A m \in net' :
           /\ m.kind = "INVITE" =>
                m.sdp = [node |-> calls'[m.call].from, port |-> CLIENT_RTP_PORT]
           /\ m.kind = "OK" => m.sdp.node = Proxy,
         \A c \in DOMAIN calls', n \in Clients :
           calls'[c].from = n /\ Alone(c)' => CallerMedia(n, c)' /\ CalleeMedia(n, c)',
         \A c \in DOMAIN calls' : calls'[c].from \in Clients
  PROVE  MediaInv'
  BY DEF MediaInv

(* No message on the wire changes.                                         *)
LEMMA SdpsKept ==
  ASSUME WireInv, MediaInv, DOMAIN calls \subseteq DOMAIN calls',
         \A c \in DOMAIN calls : calls'[c].from = calls[c].from,
         NEW m \in net
  PROVE  /\ m.kind = "INVITE" =>
              m.sdp = [node |-> calls'[m.call].from, port |-> CLIENT_RTP_PORT]
         /\ m.kind = "OK" => m.sdp.node = Proxy
  BY DEF MediaInv, WireInv, CallKinds

(* The port and the operation that a failing call sets are those of a call *)
(* that the client has.                                                    *)
LEMMA CallFailsMedia ==
  ASSUME TypeOK, MediaInv, NEW n \in Clients, CallFails(n)
  PROVE  MediaInv'
<1>1. UNCHANGED <<calls, net, remote, hung, transport, attached, bound>>
  BY DEF CallFails, mediaVars
<1>2. n \in Nodes /\ n # Proxy
  BY NodeFacts
<1>3. /\ localPort'[n] = CLIENT_RTP_PORT /\ nOp'[n] = 1
      /\ \A o \in Nodes \ {n} : localPort'[o] = localPort[o] /\ nOp'[o] = nOp[o]
  BY <1>2 DEF CallFails, TypeOK
<1>4. /\ \A o \in Clients : Party(o)' = {} => Fresh(o)'
      /\ (\A c \in DOMAIN calls' : calls'[c].uas = "none") => Fresh(Proxy)'
  BY <1>1 DEF MediaInv, Fresh, Party
<1>5. \A m \in net' :
        /\ m.kind = "INVITE" =>
             m.sdp = [node |-> calls'[m.call].from, port |-> CLIENT_RTP_PORT]
        /\ m.kind = "OK" => m.sdp.node = Proxy
  BY <1>1 DEF MediaInv
<1>6. ASSUME NEW c \in DOMAIN calls', NEW o \in Clients, calls'[c].from = o, Alone(c)'
      PROVE  CallerMedia(o, c)' /\ CalleeMedia(o, c)'
  <2>1. c \in DOMAIN calls /\ calls[c].from = o /\ Alone(c) /\ o \in Nodes /\ o # Proxy
    BY <1>1, <1>6, NodeFacts DEF Alone
  <2>2. CallerMedia(o, c) /\ CalleeMedia(o, c)
    BY <2>1 DEF MediaInv
  <2> QED
    BY <1>1, <1>2, <1>3, <2>1, <2>2, NodeFacts DEF CallerMedia, CalleeMedia, Fresh
<1>7. \A c \in DOMAIN calls' : calls'[c].from \in Clients
  BY <1>1, CallFacts
<1> QED
  BY <1>4, <1>5, <1>6, <1>7, MediaStep

LEMMA ButtonCallMedia ==
  ASSUME TypeOK, WireInv, LegInv, MediaInv, NEW n \in Clients, ButtonCall(n), ~CallFails(n)
  PROVE  MediaInv'
<1>1. PICK c \in 1 .. MaxUses :
        /\ c \notin DOMAIN calls /\ DOMAIN calls' = DOMAIN calls \cup {c}
        /\ \A d \in DOMAIN calls : calls'[d] = calls[d]
        /\ calls'[c].from = n
        /\ calls'[c].uac = "calling" /\ calls'[c].uas = "none"
        /\ net' = net \cup {[kind |-> "INVITE", call |-> c,
                             sdp |-> [node |-> n, port |-> CLIENT_RTP_PORT]]}
        /\ localPort' = [localPort EXCEPT ![n] = CLIENT_RTP_PORT]
        /\ nOp' = [nOp EXCEPT ![n] = 1]
        /\ remote' = remote /\ hung' = hung /\ UNCHANGED mediaVars
  BY ButtonCallFacts
<1>2. n \in Nodes /\ n # Proxy
  BY NodeFacts
<1>3. UNCHANGED <<transport, attached, bound>>
  BY <1>1 DEF mediaVars
<1>4. /\ localPort'[n] = CLIENT_RTP_PORT /\ nOp'[n] = 1
      /\ \A o \in Nodes \ {n} : localPort'[o] = localPort[o] /\ nOp'[o] = nOp[o]
  BY <1>1, <1>2 DEF TypeOK
<1>5. \A o \in Clients : Party(o)' = {} => Party(o) = {}
  BY <1>1 DEF Party
<1>6. \A o \in Clients : Party(o)' = {} => Fresh(o)'
  BY <1>3, <1>5 DEF MediaInv, Fresh
<1>7. (\A d \in DOMAIN calls' : calls'[d].uas = "none") => Fresh(Proxy)'
  BY <1>1, <1>3 DEF MediaInv, Fresh
<1>8. \A m \in net' :
        /\ m.kind = "INVITE" =>
             m.sdp = [node |-> calls'[m.call].from, port |-> CLIENT_RTP_PORT]
        /\ m.kind = "OK" => m.sdp.node = Proxy
  <2>1. \A m \in net :
          /\ m.kind = "INVITE" =>
               m.sdp = [node |-> calls'[m.call].from, port |-> CLIENT_RTP_PORT]
          /\ m.kind = "OK" => m.sdp.node = Proxy
    BY <1>1, SdpsKept
  <2> QED
    BY <1>1, <2>1
<1>9. ASSUME NEW d \in DOMAIN calls', NEW o \in Clients, calls'[d].from = o, Alone(d)'
      PROVE  CallerMedia(o, d)' /\ CalleeMedia(o, d)'
  <2>1. /\ d \notin hung /\ o \in Nodes /\ o # Proxy
        /\ \A e \in DOMAIN calls' \ {d} : calls'[e].from # o /\ calls'[e].uas = "none"
    BY <1>1, <1>9, NodeFacts DEF Alone
  <2>2. CASE d = c
    <3>1. o = n /\ Party(n) = {} /\ \A e \in DOMAIN calls : calls[e].uas = "none"
      BY <1>1, <1>2, <1>9, <2>1, <2>2 DEF Party
    <3>2. Fresh(n)'
      BY <1>3, <3>1 DEF MediaInv, Fresh
    <3> QED
      BY <1>1, <1>4, <2>2, <3>1, <3>2 DEF CallerMedia, CalleeMedia
  <2>3. CASE d # c
    <3>1. /\ d \in DOMAIN calls /\ o # n /\ calls[d].from = o /\ calls'[d] = calls[d]
          /\ Alone(d)
      BY <1>1, <1>9, <2>1, <2>3 DEF Alone
    <3>2. CallerMedia(o, d) /\ CalleeMedia(o, d)
      BY <3>1 DEF MediaInv
    <3> QED
      BY <1>1, <1>2, <1>3, <1>4, <2>1, <3>1, <3>2, NodeFacts
         DEF CallerMedia, CalleeMedia, Fresh
  <2> QED
    BY <2>2, <2>3
<1>10. \A d \in DOMAIN calls' : calls'[d].from \in Clients
  BY <1>1, CallFacts
<1> QED
  BY <1>6, <1>7, <1>8, <1>9, <1>10, MediaStep

LEMMA ButtonHungupMedia ==
  ASSUME TypeOK, WireInv, LegInv, DialogKnowsItsCall, MediaInv, NEW n \in Clients,
         ButtonHungup(n)
  PROVE  MediaInv'
<1>1. /\ nOp' = [nOp EXCEPT ![n] = 0] /\ hung' = hung \cup Live(n)
      /\ UNCHANGED <<localPort, remote, mediaVars>>
  BY ButtonHungupFacts
<1>2. n \in Nodes /\ n # Proxy
  BY NodeFacts
<1>3. UNCHANGED <<transport, attached, bound>>
  BY <1>1 DEF mediaVars
<1>4. \A o \in Nodes \ {n} : nOp'[o] = nOp[o]
  BY <1>1, <1>2 DEF TypeOK
<1>5. /\ DOMAIN calls' = DOMAIN calls
      /\ \A d \in DOMAIN calls :
           /\ calls'[d].from = calls[d].from /\ calls'[d].uas = calls[d].uas
           /\ calls[d].from # n => calls'[d] = calls[d]
      /\ \A m \in net' : m \in net \/ m.kind = "BYE"
  <2>1. CASE calls' = calls /\ net' = net
    BY <2>1
  <2>2. CASE ~(calls' = calls /\ net' = net)
    <3>1. PICK c \in DOMAIN calls :
            /\ calls[c].from = n
            /\ DOMAIN calls' = DOMAIN calls
            /\ \A d \in DOMAIN calls :
                 calls'[d].from = calls[d].from /\ calls'[d].uas = calls[d].uas
            /\ \A d \in DOMAIN calls \ {c} : calls'[d] = calls[d]
            /\ net' = net \cup {[kind |-> "BYE", call |-> c]}
      BY <2>2, ButtonHungupFacts
    <3> QED
      BY <3>1
  <2> QED
    BY <2>1, <2>2
<1>6. \A o \in Clients : Party(o)' = {} => Fresh(o)'
  BY <1>3, <1>5 DEF MediaInv, Fresh, Party
<1>7. (\A d \in DOMAIN calls' : calls'[d].uas = "none") => Fresh(Proxy)'
  BY <1>3, <1>5 DEF MediaInv, Fresh
<1>8. \A m \in net' :
        /\ m.kind = "INVITE" =>
             m.sdp = [node |-> calls'[m.call].from, port |-> CLIENT_RTP_PORT]
        /\ m.kind = "OK" => m.sdp.node = Proxy
  BY <1>5, SdpsKept
<1>9. ASSUME NEW d \in DOMAIN calls', NEW o \in Clients, calls'[d].from = o, Alone(d)'
      PROVE  CallerMedia(o, d)' /\ CalleeMedia(o, d)'
  <2>1. /\ d \in DOMAIN calls /\ d \notin hung' /\ calls[d].from = o
        /\ o \in Nodes /\ o # Proxy /\ Alone(d)
    BY <1>1, <1>5, <1>9, NodeFacts DEF Alone
  <2>2. o # n
    <3>1. o = n => d \in Live(n)
      BY <1>1, <1>2, <2>1, CallFacts DEF LegInv, Live, Party, Leg
    <3> QED
      BY <1>1, <2>1, <3>1
  <2>3. CallerMedia(o, d) /\ CalleeMedia(o, d)
    BY <2>1 DEF MediaInv
  <2> QED
    BY <1>1, <1>2, <1>3, <1>4, <1>5, <2>1, <2>2, <2>3, NodeFacts
       DEF CallerMedia, CalleeMedia, Fresh
<1>10. \A d \in DOMAIN calls' : calls'[d].from \in Clients
  BY <1>5, CallFacts
<1> QED
  BY <1>6, <1>7, <1>8, <1>9, <1>10, MediaStep

LEMMA IncomingCallMedia ==
  ASSUME TypeOK, WireInv, LegInv, MediaInv, NEW m \in net, IncomingCall(m)
  PROVE  MediaInv'
<1>1. PICK c : c = m.call
  OBVIOUS
<1>2. PICK n : n = calls[c].from
  OBVIOUS
<1>3. /\ m.kind = "INVITE" /\ m.kind \in CallKinds /\ c \in DOMAIN calls
      /\ n \in Clients /\ n \in Nodes /\ n # Proxy
      /\ calls[c].uac = "calling" /\ calls[c].uas = "none"
  BY <1>1, <1>2, IncomingCallFacts, CallsOnWire DEF SaysOf
<1>4. /\ DOMAIN calls' = DOMAIN calls
      /\ \A d \in DOMAIN calls :
           calls'[d].from = calls[d].from /\ calls'[d].uac = calls[d].uac
      /\ \A d \in DOMAIN calls \ {c} : calls'[d] = calls[d]
      /\ calls'[c].uas = "connecting"
  BY <1>1, IncomingCallFacts
<1>5. /\ remote' = [remote EXCEPT ![Proxy] = m.sdp]
      /\ localPort' = [localPort EXCEPT ![Proxy] = PROXY_RTP_PORT]
      /\ nOp' = [nOp EXCEPT ![Proxy] = 2]
      /\ hung' = hung /\ UNCHANGED mediaVars
  BY IncomingCallFacts
<1>6. UNCHANGED <<transport, attached, bound>>
  BY <1>5 DEF mediaVars
<1>7. /\ remote'[Proxy] = m.sdp /\ localPort'[Proxy] = PROXY_RTP_PORT /\ nOp'[Proxy] = 2
      /\ \A o \in Nodes \ {Proxy} : localPort'[o] = localPort[o] /\ nOp'[o] = nOp[o]
  BY <1>5, NodeFacts DEF TypeOK
<1>8. m.sdp = [node |-> n, port |-> CLIENT_RTP_PORT]
  BY <1>1, <1>2, <1>3 DEF MediaInv
<1>9. \A o \in Clients : Party(o)' = {} => Fresh(o)'
  BY <1>4, <1>6 DEF MediaInv, Fresh, Party
<1>10. (\A d \in DOMAIN calls' : calls'[d].uas = "none") => Fresh(Proxy)'
  BY <1>3, <1>4
<1>11. \A q \in net' :
         /\ q.kind = "INVITE" =>
              q.sdp = [node |-> calls'[q.call].from, port |-> CLIENT_RTP_PORT]
         /\ q.kind = "OK" => q.sdp.node = Proxy
  <2>1. PICK port :
          net' = (net \ {m}) \cup {[kind |-> "OK", call |-> m.call,
                                    sdp |-> [node |-> Proxy, port |-> port]]}
    BY IncomingCallFacts
  <2>2. \A q \in net :
          /\ q.kind = "INVITE" =>
               q.sdp = [node |-> calls'[q.call].from, port |-> CLIENT_RTP_PORT]
          /\ q.kind = "OK" => q.sdp.node = Proxy
    BY <1>4, SdpsKept
  <2> QED
    BY <2>1, <2>2
<1>12. ASSUME NEW d \in DOMAIN calls', NEW o \in Clients, calls'[d].from = o, Alone(d)'
       PROVE  CallerMedia(o, d)' /\ CalleeMedia(o, d)'
  <2>1. d = c /\ o = n
    BY <1>2, <1>3, <1>4, <1>12 DEF Alone
  <2>2. Alone(c) /\ \A e \in DOMAIN calls : calls[e].uas = "none"
    BY <1>3, <1>4, <1>5, <1>12, <2>1 DEF Alone
  <2>3. CallerMedia(n, c) /\ Fresh(Proxy)
    BY <1>2, <1>3, <2>2 DEF MediaInv
  <2>4. CallerMedia(n, c)'
    BY <1>3, <1>4, <1>6, <1>7, <2>3 DEF CallerMedia, Fresh
  <2>5. CalleeMedia(n, c)'
    BY <1>4, <1>6, <1>7, <1>8, <2>3 DEF CalleeMedia, Fresh
  <2> QED
    BY <2>1, <2>4, <2>5
<1>13. \A d \in DOMAIN calls' : calls'[d].from \in Clients
  BY <1>4, CallFacts
<1> QED
  BY <1>9, <1>10, <1>11, <1>12, <1>13, MediaStep

LEMMA CallerConfirmedMedia ==
  ASSUME TypeOK, WireInv, LegInv, PortInv, MediaInv, NEW m \in net, CallerConfirmed(m)
  PROVE  MediaInv'
<1>1. PICK c : c = m.call
  OBVIOUS
<1>2. PICK n : n = calls[c].from
  OBVIOUS
<1>3. /\ m.kind = "OK" /\ m.kind \in CallKinds /\ m.sdp \in Address
      /\ c \in DOMAIN calls /\ c \in 1 .. MaxUses
      /\ n \in Clients /\ n \in Nodes /\ n # Proxy
      /\ calls[c].uac = "calling" /\ calls[c].uas = "connecting"
  BY <1>1, <1>2, CallerConfirmedFacts, CallsOnWire, MessageFacts DEF SaysOf
<1>4. /\ DOMAIN calls' = DOMAIN calls
      /\ \A d \in DOMAIN calls :
           calls'[d].from = calls[d].from /\ calls'[d].uas = calls[d].uas
      /\ \A d \in DOMAIN calls \ {c} : calls'[d] = calls[d]
      /\ calls'[c].uac = "confirmed"
  BY <1>1, CallerConfirmedFacts
<1>5. /\ net' = (net \ {m}) \cup {[kind |-> "ACK", call |-> c]}
      /\ UNCHANGED <<nOp, localPort, hung>>
      /\ remote' = [remote EXCEPT ![n] = m.sdp] /\ Confirmed(n, c)
  BY <1>1, <1>2, CallerConfirmedFacts
<1>6. /\ remote' \in [Nodes -> Address] /\ remote'[n] = m.sdp
      /\ \A o \in Nodes \ {n} : remote'[o] = remote[o]
  BY <1>3, <1>5 DEF TypeOK
<1>7. /\ \A o \in Nodes \ {n} :
           /\ transport'[o] = transport[o]
           /\ attached'[o] = attached[o] /\ bound'[o] = bound[o]
      /\ nOp[n] \in {1, 2} /\ Fresh(n) =>
           /\ transport'[n] = "live" /\ bound'[n] = {localPort[n]}
           /\ attached'[n] = remote'[n]
  BY <1>3, <1>5, <1>6, ConfirmedFacts
<1>8. c \in Party(n) /\ \A o \in Clients : Party(o)' = Party(o)
  BY <1>2, <1>3, <1>4 DEF Party
<1>9. \A o \in Clients : Party(o)' = {} => Fresh(o)'
  BY <1>7, <1>8, NodeFacts DEF MediaInv, Fresh
<1>10. (\A d \in DOMAIN calls' : calls'[d].uas = "none") => Fresh(Proxy)'
  BY <1>3, <1>4
<1>11. \A q \in net' :
         /\ q.kind = "INVITE" =>
              q.sdp = [node |-> calls'[q.call].from, port |-> CLIENT_RTP_PORT]
         /\ q.kind = "OK" => q.sdp.node = Proxy
  <2>1. \A q \in net :
          /\ q.kind = "INVITE" =>
               q.sdp = [node |-> calls'[q.call].from, port |-> CLIENT_RTP_PORT]
          /\ q.kind = "OK" => q.sdp.node = Proxy
    BY <1>4, SdpsKept
  <2> QED
    BY <1>5, <2>1
<1>12. ASSUME NEW d \in DOMAIN calls', NEW o \in Clients, calls'[d].from = o, Alone(d)'
       PROVE  CallerMedia(o, d)' /\ CalleeMedia(o, d)'
  <2>1. d = c /\ o = n
    BY <1>2, <1>3, <1>4, <1>12 DEF Alone
  <2>2. Alone(c)
    BY <1>4, <1>5, <1>12, <2>1 DEF Alone
  <2>3. CallerMedia(n, c) /\ CalleeMedia(n, c) /\ m.sdp.node = Proxy
    BY <1>2, <1>3, <2>2 DEF MediaInv
  <2>4. CallerMedia(n, c)'
    BY <1>3, <1>4, <1>5, <1>6, <1>7, <2>3 DEF CallerMedia
  <2>5. CalleeMedia(n, c)'
    BY <1>3, <1>4, <1>5, <1>6, <1>7, <2>3, NodeFacts DEF CalleeMedia, Fresh
  <2> QED
    BY <2>1, <2>4, <2>5
<1>13. \A d \in DOMAIN calls' : calls'[d].from \in Clients
  BY <1>4, CallFacts
<1> QED
  BY <1>9, <1>10, <1>11, <1>12, <1>13, MediaStep

LEMMA CalleeConfirmedMedia ==
  ASSUME TypeOK, WireInv, LegInv, PortInv, MediaInv, NEW m \in net, CalleeConfirmed(m)
  PROVE  MediaInv'
<1>1. PICK c : c = m.call
  OBVIOUS
<1>2. c \in DOMAIN calls /\ c \in 1 .. MaxUses
  BY <1>1, CalleeConfirmedFacts, CallsOnWire
<1>3. net' = net \ {m} /\ UNCHANGED <<remote, nOp, localPort, hung>>
  BY CalleeConfirmedFacts
<1>4. /\ DOMAIN calls' = DOMAIN calls
      /\ \A d \in DOMAIN calls :
           calls'[d].from = calls[d].from /\ calls'[d].uac = calls[d].uac
      /\ \A d \in DOMAIN calls \ {c} : calls'[d] = calls[d]
      /\ calls[c].uas # "none" /\ calls'[c].uas # "none"
      /\ \A o \in Nodes \ {Proxy} :
           /\ transport'[o] = transport[o]
           /\ attached'[o] = attached[o] /\ bound'[o] = bound[o]
      /\ \/ UNCHANGED <<calls, transport, attached, bound>>
         \/ /\ calls[c].uas = "connecting" /\ calls'[c].uas = "confirmed"
            /\ nOp[Proxy] \in {1, 2} /\ Fresh(Proxy) =>
                 transport'[Proxy] = "live" /\ attached'[Proxy] = remote'[Proxy]
  <2>1. CASE UNCHANGED <<calls, callId, mediaVars>>
    <3>1. m.kind = "ACK" /\ m.kind \in CallKinds
      BY CalleeConfirmedFacts
    <3>2. calls[c].uas # "none"
      BY <1>1, <3>1, CallsOnWire DEF SaysOf
    <3> QED
      BY <2>1, <3>2 DEF mediaVars
  <2>2. CASE ~UNCHANGED <<calls, callId, mediaVars>>
    <3>1. /\ calls[c].uas = "connecting"
          /\ DOMAIN calls' = DOMAIN calls
          /\ \A d \in DOMAIN calls :
               calls'[d].from = calls[d].from /\ calls'[d].uac = calls[d].uac
          /\ \A d \in DOMAIN calls \ {c} : calls'[d] = calls[d]
          /\ calls'[c].uas = "confirmed"
          /\ Confirmed(Proxy, c)
      BY <1>1, <2>2, CalleeConfirmedFacts
    <3>2. remote' \in [Nodes -> Address]
      BY <1>3 DEF TypeOK
    <3>3. /\ \A o \in Nodes \ {Proxy} :
               /\ transport'[o] = transport[o]
               /\ attached'[o] = attached[o] /\ bound'[o] = bound[o]
          /\ nOp[Proxy] \in {1, 2} /\ Fresh(Proxy) =>
               transport'[Proxy] = "live" /\ attached'[Proxy] = remote'[Proxy]
      BY <1>2, <3>1, <3>2, ConfirmedFacts, NodeFacts
    <3> QED
      BY <3>1, <3>3
  <2> QED
    BY <2>1, <2>2
<1>5. \A o \in Clients : Party(o)' = {} => Fresh(o)'
  BY <1>4, NodeFacts DEF MediaInv, Fresh, Party
<1>6. (\A d \in DOMAIN calls' : calls'[d].uas = "none") => Fresh(Proxy)'
  BY <1>2, <1>4
<1>7. \A q \in net' :
        /\ q.kind = "INVITE" =>
             q.sdp = [node |-> calls'[q.call].from, port |-> CLIENT_RTP_PORT]
        /\ q.kind = "OK" => q.sdp.node = Proxy
  BY <1>3, <1>4, SdpsKept
<1>8. ASSUME NEW d \in DOMAIN calls', NEW o \in Clients, calls'[d].from = o, Alone(d)'
      PROVE  CallerMedia(o, d)' /\ CalleeMedia(o, d)'
  <2>1. d = c /\ calls[c].from = o /\ o \in Nodes /\ o # Proxy
    BY <1>2, <1>4, <1>8, NodeFacts DEF Alone
  <2>2. Alone(c)
    BY <1>3, <1>4, <1>8, <2>1 DEF Alone
  <2>3. CallerMedia(o, c) /\ CalleeMedia(o, c)
    BY <1>2, <2>1, <2>2 DEF MediaInv
  <2>4. CallerMedia(o, c)'
    BY <1>2, <1>3, <1>4, <2>1, <2>3 DEF CallerMedia, Fresh
  <2>5. CalleeMedia(o, c)'
    <3>1. CASE UNCHANGED <<calls, transport, attached, bound>>
      BY <1>3, <2>3, <3>1 DEF CalleeMedia, Fresh
    <3>2. CASE ~UNCHANGED <<calls, transport, attached, bound>>
      BY <1>3, <1>4, <2>3, <3>2 DEF CalleeMedia
    <3> QED
      BY <3>1, <3>2
  <2> QED
    BY <2>1, <2>4, <2>5
<1>9. \A d \in DOMAIN calls' : calls'[d].from \in Clients
  BY <1>4, CallFacts
<1> QED
  BY <1>5, <1>6, <1>7, <1>8, <1>9, MediaStep

(* A call that ends was hung up.                                           *)
LEMMA DisconnectedMedia ==
  ASSUME TypeOK, WireInv, LegInv, MediaInv, NEW c \in DOMAIN calls,
         calls[c].uac = "ending", calls'[c].uas # "none",
         DOMAIN calls' = DOMAIN calls,
         \A d \in DOMAIN calls :
           calls'[d].from = calls[d].from /\ (calls'[d].uas = "none" <=> calls[d].uas = "none"),
         UNCHANGED <<hung, mediaVars>>,
         \A q \in net' : q.kind \in {"INVITE", "OK"} => q \in net
  PROVE  MediaInv'
<1>1. UNCHANGED <<transport, attached, bound>>
  BY DEF mediaVars
<1>2. \A o \in Clients : Party(o)' = {} => Fresh(o)'
  BY <1>1 DEF MediaInv, Fresh, Party
<1>3. (\A d \in DOMAIN calls' : calls'[d].uas = "none") => Fresh(Proxy)'
  OBVIOUS
<1>4. \A q \in net' :
        /\ q.kind = "INVITE" =>
             q.sdp = [node |-> calls'[q.call].from, port |-> CLIENT_RTP_PORT]
        /\ q.kind = "OK" => q.sdp.node = Proxy
  BY SdpsKept
<1>5. ASSUME NEW d \in DOMAIN calls', Alone(d)'
      PROVE  FALSE
  <2>1. d = c
    BY <1>5 DEF Alone
  <2> QED
    BY <1>5, <2>1 DEF Alone, LegInv
<1>6. \A d \in DOMAIN calls' : calls'[d].from \in Clients
  BY CallFacts
<1> QED
  BY <1>2, <1>3, <1>4, <1>5, <1>6, MediaStep

LEMMA CalleeDisconnectedMedia ==
  ASSUME TypeOK, WireInv, LegInv, MediaInv, NEW m \in net, CalleeDisconnected(m)
  PROVE  MediaInv'
<1>1. PICK c : c = m.call
  OBVIOUS
<1>2. /\ c \in DOMAIN calls
      /\ calls[c].uac = "ending" /\ calls[c].uas \in {"connecting", "confirmed"}
  BY <1>1, CalleeDisconnectedFacts, CallsOnWire DEF SaysOf
<1>3. /\ DOMAIN calls' = DOMAIN calls
      /\ \A d \in DOMAIN calls : calls'[d].from = calls[d].from
      /\ \A d \in DOMAIN calls \ {c} : calls'[d] = calls[d]
      /\ calls'[c].uas = "ended"
  BY <1>1, CalleeDisconnectedFacts
<1>4. /\ net' = (net \ {m}) \cup {[kind |-> "BYEOK", call |-> c]}
      /\ UNCHANGED <<hung, mediaVars>>
  BY <1>1, CalleeDisconnectedFacts
<1>5. \A d \in DOMAIN calls : calls'[d].uas = "none" <=> calls[d].uas = "none"
  BY <1>2, <1>3
<1>6. \A q \in net' : q.kind \in {"INVITE", "OK"} => q \in net
  BY <1>4
<1> QED
  BY <1>2, <1>3, <1>4, <1>5, <1>6, DisconnectedMedia

LEMMA CallerDisconnectedMedia ==
  ASSUME TypeOK, WireInv, LegInv, MediaInv, NEW m \in net, CallerDisconnected(m)
  PROVE  MediaInv'
<1>1. PICK c : c = m.call
  OBVIOUS
<1>2. c \in DOMAIN calls /\ calls[c].uac = "ending" /\ calls[c].uas = "ended"
  BY <1>1, CallerDisconnectedFacts, CallsOnWire DEF SaysOf
<1>3. /\ DOMAIN calls' = DOMAIN calls
      /\ \A d \in DOMAIN calls :
           calls'[d].from = calls[d].from /\ calls'[d].uas = calls[d].uas
      /\ net' = net \ {m} /\ UNCHANGED <<hung, mediaVars>>
  BY CallerDisconnectedFacts
<1> QED
  BY <1>2, <1>3, DisconnectedMedia

-----------------------------------------------------------------------------
(* The step                                                                *)

(* Every call action leaves the lists as they were.                        *)
LEMMA CallActionLists ==
  ASSUME TypeOK, WireInv, DialogKnowsItsCall, TreeInv, AskInv,
         \/ \E n \in Clients : ButtonCall(n) \/ ButtonHungup(n)
         \/ \E m \in net : \/ IncomingCall(m) \/ CallerConfirmed(m) \/ CalleeConfirmed(m)
                           \/ CalleeDisconnected(m) \/ CallerDisconnected(m)
  PROVE  TreeInv' /\ AskInv'
<1> DEFINE Quiet == /\ UNCHANGED msgVars
                    /\ DOMAIN calls \subseteq DOMAIN calls'
                    /\ \A d \in DOMAIN calls : calls'[d].from = calls[d].from
                    /\ \A q : q.kind \in ListKinds => (q \in net' <=> q \in net)
<1>1. ASSUME NEW n \in Clients, ButtonCall(n) PROVE Quiet
  <2>2. CASE CallFails(n)
    BY <2>2 DEF CallFails
  <2>3. CASE ~CallFails(n)
    <3>1. PICK c \in 1 .. MaxUses :
            /\ DOMAIN calls' = DOMAIN calls \cup {c}
            /\ \A d \in DOMAIN calls : calls'[d] = calls[d]
            /\ net' = net \cup {[kind |-> "INVITE", call |-> c,
                                 sdp |-> [node |-> n, port |-> CLIENT_RTP_PORT]]}
            /\ UNCHANGED msgVars
      BY <1>1, <2>3, ButtonCallFacts
    <3> QED
      BY <3>1 DEF ListKinds
  <2> QED
    BY <2>2, <2>3
<1>2. ASSUME NEW n \in Clients, ButtonHungup(n) PROVE Quiet
  <2>1. UNCHANGED msgVars
    BY <1>2, ButtonHungupFacts
  <2>2. CASE calls' = calls /\ net' = net
    BY <2>1, <2>2
  <2>3. CASE ~(calls' = calls /\ net' = net)
    <3>1. PICK c \in DOMAIN calls :
            /\ DOMAIN calls' = DOMAIN calls
            /\ \A d \in DOMAIN calls : calls'[d].from = calls[d].from
            /\ net' = net \cup {[kind |-> "BYE", call |-> c]}
      BY <1>2, <2>3, ButtonHungupFacts
    <3> QED
      BY <2>1, <3>1 DEF ListKinds
  <2> QED
    BY <2>2, <2>3
<1>3. ASSUME NEW m \in net, IncomingCall(m) PROVE Quiet
  <2>1. PICK port :
          net' = (net \ {m}) \cup {[kind |-> "OK", call |-> m.call,
                                    sdp |-> [node |-> Proxy, port |-> port]]}
    BY <1>3, IncomingCallFacts
  <2>2. /\ m.kind = "INVITE" /\ DOMAIN calls' = DOMAIN calls /\ UNCHANGED msgVars
        /\ \A d \in DOMAIN calls : calls'[d].from = calls[d].from
    BY <1>3, IncomingCallFacts
  <2> QED
    BY <2>1, <2>2 DEF ListKinds
<1>4. ASSUME NEW m \in net, CallerConfirmed(m) PROVE Quiet
  <2>1. /\ m.kind = "OK" /\ DOMAIN calls' = DOMAIN calls /\ UNCHANGED msgVars
        /\ \A d \in DOMAIN calls : calls'[d].from = calls[d].from
        /\ net' = (net \ {m}) \cup {[kind |-> "ACK", call |-> m.call]}
    BY <1>4, CallerConfirmedFacts
  <2> QED
    BY <2>1 DEF ListKinds
<1>5. ASSUME NEW m \in net, CalleeConfirmed(m) PROVE Quiet
  <2>1. m.kind = "ACK" /\ UNCHANGED msgVars /\ net' = net \ {m}
    BY <1>5, CalleeConfirmedFacts
  <2>2. /\ DOMAIN calls' = DOMAIN calls
        /\ \A d \in DOMAIN calls : calls'[d].from = calls[d].from
    BY <1>5, CalleeConfirmedFacts
  <2> QED
    BY <2>1, <2>2 DEF ListKinds
<1>6. ASSUME NEW m \in net, CalleeDisconnected(m) PROVE Quiet
  <2>1. /\ m.kind = "BYE" /\ DOMAIN calls' = DOMAIN calls /\ UNCHANGED msgVars
        /\ \A d \in DOMAIN calls : calls'[d].from = calls[d].from
        /\ net' = (net \ {m}) \cup {[kind |-> "BYEOK", call |-> m.call]}
    BY <1>6, CalleeDisconnectedFacts
  <2> QED
    BY <2>1 DEF ListKinds
<1>7. ASSUME NEW m \in net, CallerDisconnected(m) PROVE Quiet
  <2>1. /\ m.kind = "BYEOK" /\ DOMAIN calls' = DOMAIN calls /\ UNCHANGED msgVars
        /\ \A d \in DOMAIN calls : calls'[d].from = calls[d].from
        /\ net' = net \ {m}
    BY <1>7, CallerDisconnectedFacts
  <2> QED
    BY <2>1 DEF ListKinds
<1>8. Quiet
  BY <1>1, <1>2, <1>3, <1>4, <1>5, <1>6, <1>7, Zenon
<1>9. \A n \in Nodes : Party(n)' = {} => Party(n) = {}
  BY <1>8 DEF Party
<1> HIDE DEF Quiet
<1>10. UNCHANGED msgVars /\ \A q : q.kind \in ListKinds => (q \in net' <=> q \in net)
  BY <1>8 DEF Quiet
<1> QED
  BY <1>9, <1>10, ListsQuiet

LEMMA AskCalls ==
  ASSUME WireInv, LegInv, PortInv, OneCall, DialogKnowsItsCall, MediaInv,
         NEW n \in Clients, NEW m, NEW state, Ask(n, m, state), m.kind \in {"LIST", "PLAY"}
  PROVE  /\ WireInv' /\ LegInv' /\ PortInv' /\ OneCall' /\ DialogKnowsItsCall'
         /\ MediaInv'
<1>1. UNCHANGED <<callVars, mediaVars>> /\ net' = net \cup {m}
  BY DEF Ask
<1>2. \A q : q.kind \in CallKinds => (q \in net' <=> q \in net)
  BY <1>1 DEF CallKinds
<1> QED
  BY <1>1, <1>2, CallsQuiet

LEMMA StoreMsgStateCalls ==
  ASSUME WireInv, LegInv, PortInv, OneCall, DialogKnowsItsCall, MediaInv,
         NEW n \in Clients, StoreMsgState(n)
  PROVE  /\ WireInv' /\ LegInv' /\ PortInv' /\ OneCall' /\ DialogKnowsItsCall'
         /\ MediaInv'
<1>1. UNCHANGED <<callVars, mediaVars>> /\ net' = net
  BY DEF StoreMsgState
<1> QED
  BY <1>1, CallsQuiet

LEMMA OnRecvMsgCalls ==
  ASSUME TypeOK, WireInv, LegInv, PortInv, OneCall, DialogKnowsItsCall, MediaInv,
         NEW m \in net, OnRecvMsg(m)
  PROVE  /\ WireInv' /\ LegInv' /\ PortInv' /\ OneCall' /\ DialogKnowsItsCall'
         /\ MediaInv'
<1>1. m \in Message /\ m.kind \in {"LIST", "REPLY", "PLAY"}
  BY OnRecvMsgParts DEF TypeOK
<1>2. m.to \in Nodes /\ m.kind \notin CallKinds
  BY <1>1, MessageFacts DEF CallKinds
<1>3. /\ UNCHANGED <<callVars, mediaVars>>
      /\ \A q : q.kind \in CallKinds => (q \in net' <=> q \in net)
  <2>1. CASE Lost(m)
    BY <1>2, <2>1 DEF Lost
  <2>2. CASE Answered(m)
    <3>1. m.kind = "LIST" /\ net' = (net \ {m}) \cup Reply(m.to, m)
      BY <2>2 DEF Answered
    <3>2. \A r \in Reply(m.to, m) : r.kind \notin CallKinds
      BY <1>2, <3>1, ReplyFacts DEF CallKinds
    <3> QED
      BY <1>2, <2>2, <3>1, <3>2 DEF Answered
  <2>3. CASE Shown(m)
    BY <1>2, <2>3 DEF Shown
  <2> QED
    BY <2>1, <2>2, <2>3, OnRecvMsgParts
<1> QED
  BY <1>3, CallsQuiet

(* The double clicks, as Ask sees them.                                    *)
LEMMA Asks ==
  ASSUME TypeOK, DialogKnowsItsCall, TreeInv, NEW n \in Clients,
         GetSchoolList(n) \/ GetCameraList(n) \/ Play(n)
  PROVE  \E m \in Message, state \in 0 .. 2 :
           /\ Ask(n, m, state) /\ (state = 2 => tree[n].place # 0)
           /\ \/ m.kind = "PLAY"
              \/ /\ m.kind = "LIST" /\ m.asker = n
                 /\ state = IF m.of = "city" THEN 1 ELSE 2
<1>1. ASSUME NEW of \in {"city", "school", "camera"}
      PROVE  /\ List(n, of) \in Message /\ List(n, of).kind = "LIST"
             /\ List(n, of).asker = n /\ List(n, of).of = of
  BY AskedTypes DEF List
<1>2. CASE GetSchoolList(n)
  <2> DEFINE m == List(n, "city")
  <2>1. /\ m \in Message /\ m.kind = "LIST" /\ m.asker = n /\ m.of = "city"
        /\ Ask(n, m, 1)
    BY <1>1, <1>2 DEF GetSchoolList
  <2> HIDE DEF m
  <2> QED
    BY <2>1
<1>3. CASE GetCameraList(n)
  <2> DEFINE m == List(n, SchoolItem(n))
  <2>1. tree[n].place # 0 /\ Ask(n, m, 2)
    BY <1>3 DEF GetCameraList
  <2>2. SchoolItem(n) \in {"school", "camera"}
    BY <2>1, SchoolItemIsListed
  <2>3. m \in Message /\ m.kind = "LIST" /\ m.asker = n /\ m.of # "city"
    BY <1>1, <2>2
  <2> HIDE DEF m
  <2> QED
    BY <2>1, <2>3
<1>4. CASE Play(n)
  <2> DEFINE m == PlayMessage(n)
  <2>1. m \in Message /\ m.kind = "PLAY" /\ Ask(n, m, 0)
    BY <1>4, AskedTypes DEF Play, PlayMessage
  <2> HIDE DEF m
  <2> QED
    BY <2>1
<1> QED
  BY <1>2, <1>3, <1>4

LEMMA AskStep ==
  ASSUME IInv, NEW n \in Clients, GetSchoolList(n) \/ GetCameraList(n) \/ Play(n)
  PROVE  IInv'
<1> USE DEF IInv
<1>1. PICK m \in Message, state \in 0 .. 2 :
        /\ Ask(n, m, state) /\ (state = 2 => tree[n].place # 0)
        /\ \/ m.kind = "PLAY"
           \/ /\ m.kind = "LIST" /\ m.asker = n
              /\ state = IF m.of = "city" THEN 1 ELSE 2
  BY Asks
<1>2. TypeOK'
  BY <1>1, AskTypes
<1>3. TreeInv' /\ AskInv'
  BY <1>1, AskLists
<1>4. /\ WireInv' /\ LegInv' /\ PortInv' /\ OneCall' /\ DialogKnowsItsCall'
      /\ MediaInv'
  BY <1>1, AskCalls
<1> QED
  BY <1>2, <1>3, <1>4

LEMMA StutterStep == IInv /\ UNCHANGED vars => IInv'
<1> SUFFICES ASSUME IInv, UNCHANGED vars PROVE IInv'
  OBVIOUS
<1>1. /\ net' = net /\ UNCHANGED <<callVars, mediaVars>> /\ UNCHANGED msgVars
  BY DEF vars
<1>2. TypeOK'
  BY <1>1, CallTypesKept, MediaTypesKept, ListTypesKept, PrimedTypes DEF IInv, TypeOK
<1>3. /\ WireInv' /\ LegInv' /\ PortInv' /\ OneCall' /\ DialogKnowsItsCall'
      /\ MediaInv'
  BY <1>1, CallsQuiet DEF IInv
<1>4. \A n \in Nodes : Party(n)' = Party(n)
  BY <1>1 DEF Party, callVars
<1>5. TreeInv' /\ AskInv'
  BY <1>1, <1>4, ListsQuiet DEF IInv
<1> QED
  BY <1>2, <1>3, <1>5 DEF IInv

LEMMA NextInv == IInv /\ [Next]_vars => IInv'
<1> SUFFICES ASSUME IInv, Next PROVE IInv'
  BY StutterStep
<1>1. /\ TypeOK /\ WireInv /\ LegInv /\ PortInv /\ OneCall /\ DialogKnowsItsCall
      /\ MediaInv /\ TreeInv /\ AskInv
  BY DEF IInv
<1>2. ASSUME NEW n \in Clients, ButtonCall(n) PROVE IInv'
  <2>1. TreeInv' /\ AskInv'
    BY <1>1, <1>2, CallActionLists
  <2>2. CASE CallFails(n)
    BY <1>1, <2>1, <2>2, CallFailsTypes, CallFailsCalls, CallFailsMedia DEF IInv
  <2>3. CASE ~CallFails(n)
    BY <1>1, <1>2, <2>1, <2>3, ButtonCallTypes, ButtonCallCalls, ButtonCallMedia DEF IInv
  <2> QED
    BY <2>2, <2>3
<1>3. ASSUME NEW n \in Clients, ButtonHungup(n) PROVE IInv'
  BY <1>1, <1>3, ButtonHungupTypes, ButtonHungupCalls, ButtonHungupMedia, CallActionLists
     DEF IInv
<1>4. ASSUME NEW n \in Clients, GetSchoolList(n) \/ GetCameraList(n) \/ Play(n)
      PROVE  IInv'
  BY <1>4, AskStep
<1>5. ASSUME NEW n \in Clients, StoreMsgState(n) PROVE IInv'
  BY <1>1, <1>5, StoreMsgStateTypes, StoreMsgStateLists, StoreMsgStateCalls DEF IInv
<1>6. ASSUME NEW m \in net, IncomingCall(m) PROVE IInv'
  BY <1>1, <1>6, IncomingCallTypes, IncomingCallCalls, IncomingCallMedia, CallActionLists
     DEF IInv
<1>7. ASSUME NEW m \in net, CallerConfirmed(m) PROVE IInv'
  BY <1>1, <1>7, CallerConfirmedTypes, CallerConfirmedCalls, CallerConfirmedMedia,
     CallActionLists DEF IInv
<1>8. ASSUME NEW m \in net, CalleeConfirmed(m) PROVE IInv'
  BY <1>1, <1>8, CalleeConfirmedTypes, CalleeConfirmedCalls, CalleeConfirmedMedia,
     CallActionLists DEF IInv
<1>9. ASSUME NEW m \in net, CalleeDisconnected(m) PROVE IInv'
  BY <1>1, <1>9, CalleeDisconnectedTypes, CalleeDisconnectedCalls, CalleeDisconnectedMedia,
     CallActionLists DEF IInv
<1>10. ASSUME NEW m \in net, CallerDisconnected(m) PROVE IInv'
  BY <1>1, <1>10, CallerDisconnectedTypes, CallerDisconnectedCalls,
     CallerDisconnectedMedia, CallActionLists DEF IInv
<1>11. ASSUME NEW m \in net, OnRecvMsg(m) PROVE IInv'
  BY <1>1, <1>11, OnRecvMsgTypes, OnRecvMsgLists, OnRecvMsgCalls DEF IInv
<1> QED
  BY <1>2, <1>3, <1>4, <1>5, <1>6, <1>7, <1>8, <1>9, <1>10, <1>11, Zenon DEF Next

LEMMA IInvHolds == Spec => []IInv
  BY InitInv, NextInv, PTL DEF Spec

-----------------------------------------------------------------------------
(* The theorems                                                            *)

(* The state of the dialog, of the transports and of the lists always has  *)
(* the types of sipclientDlg.h and pjsua_app.cpp.                          *)
THEOREM TypeCorrect == Spec => []TypeOK
<1>1. IInv => TypeOK
  BY DEF IInv
<1> QED
  BY <1>1, IInvHolds, PTL

(* call_id never outlives the call that it names; without overlapping      *)
(* calls it is the id of the one live call that the node sees confirmed,   *)
(* and m_nOp is that of the one live call, except where the user hung up   *)
(* or the last press of Call made no call.                                 *)
THEOREM DialogIsOfCall == Spec => []DialogKnowsItsCall
<1>1. IInv => DialogKnowsItsCall
  BY DEF IInv
<1> QED
  BY <1>1, IInvHolds, PTL

(* While no other call reaches its two nodes and nobody hangs up, a call   *)
(* that both of them see confirmed has live transports that are attached   *)
(* to each other.                                                          *)
THEOREM VideoOfFirstCall == Spec => []FirstCallHasVideo
<1>1. ASSUME IInv PROVE FirstCallHasVideo
  <2> SUFFICES ASSUME NEW c \in DOMAIN calls,
                      calls[c].uac = "confirmed" /\ calls[c].uas = "confirmed",
                      c \notin hung,
                      \A d \in DOMAIN calls \ {c} :
                        calls[d].from # calls[c].from /\ calls[d].uas = "none"
               PROVE  /\ transport[calls[c].from] = "live" /\ transport[Proxy] = "live"
                      /\ attached[Proxy].node = calls[c].from
                      /\ attached[Proxy].port \in bound[calls[c].from]
                      /\ attached[calls[c].from].node = Proxy
    BY DEF FirstCallHasVideo
  <2>1. CallerMedia(calls[c].from, c) /\ CalleeMedia(calls[c].from, c)
    BY <1>1 DEF IInv, MediaInv, Alone
  <2> QED
    BY <2>1 DEF CallerMedia, CalleeMedia
<1> QED
  BY <1>1, IInvHolds, PTL

(* A client outside of calls that waits for each reply sees schools below  *)
(* the city and cameras below a school, whatever other clients ask.        *)
THEOREM TreeMatchesRequest == Spec => []TreeIsOfRequest
<1>1. IInv => TreeIsOfRequest
  BY DEF IInv, AskInv, Orderly, TreeIsOfRequest
<1> QED
  BY <1>1, IInvHolds, PTL
=============================================================================
