--------------------------- MODULE ResponseContext ---------------------------
(***************************************************************************)
(* The SIP server's response context (ResponseContext.cxx): the targets a  *)
(* forked request is sent to, the best of the responses they give, and the *)
(* final response that goes back upstream.                                 *)
(*                                                                         *)
(* One thread runs it, one event at a time, so a handler is one action.  A *)
(* handler is a composition of the methods it calls, each an operator from *)
(* a context to a context.  The caller (RequestContext with its processor  *)
(* chains) is external: "phase" says which of its chains is running.       *)
(*                                                                         *)
(* Left out: headers, Record-Route and Path, the order of the targets      *)
(* (mTransactionQueueCollection, mOutboundMap), the serial of timer C.     *)
(***************************************************************************)
EXTENDS Integers, FiniteSets

CONSTANTS
  Targets,     (* Target objects, by the transaction id of their branch    *)
  Contacts,    (* contact records, as isDuplicate compares them            *)
  ContactOf,   (* the contact record of each target                        *)
  Codes        (* status codes that branches answer with                   *)

ASSUME TargetsAssumption ==
  /\ ContactOf \in [Targets -> Contacts]
  /\ Codes \subseteq 100 .. 699

VARIABLES
  method,  (* is the original request an INVITE or another method?         *)
  phase,   (* the chain of processors RequestContext is running            *)
  reply,   (* what the stack has delivered for a branch: no final response *)
           (* yet, a final one, or a 2xx that will be retransmitted        *)
  ctx,     (* the members of ResponseContext and mHaveSentFinalResponse    *)
  seen     (* history: final codes compared for the best response          *)

vars == <<method, phase, reply, ctx, seen>>

Phases   == {"new", "request", "target", "again", "timed", "idle"}
Statuses == {"none", "Candidate", "Started", "Cancelled", "Terminated", "gone"}

(* 1 is the best response to forward, 50 worse than any; 0 is for a 6xx.   *)
Priorities == 0 .. 50

(* cand, actv and term are the three transaction maps, tried mTargetList.  *)
(* accepted, rejections, abandoned and garbage record what went upstream:  *)
(* a 2xx, how many other finals, nothing for good, an empty message.       *)
Context ==
  [cand : SUBSET Targets, actv : SUBSET Targets, term : SUBSET Targets,
   status : [Targets -> Statuses], tried : SUBSET Contacts,
   final : BOOLEAN, bestCode : Codes \cup {0, 300, 407, 480},
   bestPriority : Priorities, accepted : BOOLEAN, rejections : Nat,
   abandoned : BOOLEAN, garbage : BOOLEAN]

TypeOK ==
  /\ method \in {"INVITE", "other"}
  /\ phase \in Phases
  /\ reply \in [Targets -> {"none", "final", "ok"}]
  /\ ctx \in Context
  /\ seen \in SUBSET Codes

Init ==
  /\ method \in {"INVITE", "other"}
  /\ phase = "new"
  /\ reply = [t \in Targets |-> "none"]
  /\ ctx = [cand |-> {}, actv |-> {}, term |-> {},
            status |-> [t \in Targets |-> "none"], tried |-> {},
            final |-> FALSE, bestCode |-> 0, bestPriority |-> 50,
            accepted |-> FALSE, rejections |-> 0,
            abandoned |-> FALSE, garbage |-> FALSE]
  /\ seen = {}

IsInvite == method = "INVITE"
IsOk(code) == code \in 200 .. 299

(* getPriority: the lower, the better a 3xx, 4xx or 5xx response.          *)
Priority(code) ==
  CASE code \in 300 .. 399                          -> 5
    [] code \in 500 .. 599 \ {501, 503, 513, 580}   -> 42
    [] code = 412                                   -> 1
    [] code = 484                                   -> 2
    [] code \in {422, 423}                          -> 3
    [] code \in {401, 407}                          -> 4
    [] code = 402                                   -> 6
    [] code = 493                                   -> 10
    [] code = 420                                   -> 12
    [] code \in {406, 415, 488}                     -> 13
    [] code \in {416, 417}                          -> 20
    [] code \in {405, 501}                          -> 21
    [] code = 580                                   -> 22
    [] code = 485                                   -> 23
    [] code \in {428, 429, 494}                     -> 24
    [] code \in {413, 414}                          -> 25
    [] code = 421                                   -> 26
    [] code = 486                                   -> 30
    [] code = 480                                   -> 31
    [] code = 410                                   -> 32
    [] code \in {436, 437, 513}                     -> 33
    [] code = 403                                   -> 34
    [] code = 404                                   -> 35
    [] code = 487                                   -> 36
    [] code \in {482, 483}                          -> 41
    [] code = 408                                   -> 49
    [] OTHER                                        -> 43

-----------------------------------------------------------------------------
(* RequestContext::sendResponse for a final code: it goes upstream.        *)
Send(c, code) ==
  [c EXCEPT !.final = TRUE,
            !.accepted = @ \/ IsOk(code),
            !.rejections = IF IsOk(code) THEN @ ELSE @ + 1]

(* cancelClientTransaction on each target of B.                            *)
Cancel(status, B) ==
  [t \in Targets |->
     IF t \notin B THEN status[t]
     ELSE CASE status[t] = "Started"   -> "Cancelled"
            [] status[t] = "Candidate" -> "Terminated"
            [] OTHER                   -> status[t]]

ClearCandidates(c) ==
  [c EXCEPT !.status = Cancel(@, c.cand),
            !.term = @ \cup c.cand, !.cand = {}]

CancelActive(c) ==
  IF c.final THEN c ELSE [c EXCEPT !.status = Cancel(@, c.actv)]

(* Mutation: a cancelled branch is taken for one that has ended.           *)
CancelAllTerminates(c) ==
  LET B == IF IsInvite THEN c.actv ELSE {}
  IN ClearCandidates([c EXCEPT !.actv = @ \ B, !.term = @ \cup B,
       !.status = [t \in Targets |-> IF t \in B THEN "Terminated" ELSE @[t]]])

(* cancelAllClientTransactions: active branches only of an INVITE.         *)
CancelAll(c) ==
  ClearCandidates([c EXCEPT
    !.status = IF IsInvite THEN Cancel(@, c.actv) ELSE @])

(* Mutation: after the final response a branch is not terminated.          *)
TerminateUnlessFinal(c, t) ==
  IF t \in c.actv \cup c.cand /\ ~c.final
  THEN [c EXCEPT !.actv = @ \ {t},
                 !.cand = IF t \in c.actv THEN @ ELSE @ \ {t},
                 !.term = @ \cup {t}, !.status[t] = "Terminated"]
  ELSE c

(* terminateClientTransaction(tid)                                         *)
Terminate(c, t) ==
  IF t \in c.actv \cup c.cand
  THEN [c EXCEPT !.actv = @ \ {t},
                 !.cand = IF t \in c.actv THEN @ ELSE @ \ {t},
                 !.term = @ \cup {t}, !.status[t] = "Terminated"]
  ELSE c

(* Mutation: a 503 is forwarded as another server error.                   *)
ForwardedCodeAs500(code) == IF code = 503 THEN 500 ELSE code

ForwardedCode(code) == IF code = 503 THEN 480 ELSE code

(* A best response that no branch has given yet is an empty message: it is *)
(* not final for sendResponse, which then reads the front of its Vias.     *)
ForwardBest(c) ==
  LET d == IF IsInvite THEN CancelActive(ClearCandidates(c))
                       ELSE ClearCandidates(c)
      code == ForwardedCode(c.bestCode)
  IN CASE code = 0                 -> [d EXCEPT !.garbage = TRUE]
       [] code = 408 /\ ~IsInvite  -> [d EXCEPT !.abandoned = TRUE]
       [] OTHER                    -> Send([d EXCEPT !.bestCode = code], code)

(* Mutation: a 6xx is forwarded without waiting for the other branches.    *)
ForwardIfAllTerminatedAlways(c) == ForwardBest(c)

ForwardIfAllTerminated(c) ==
  IF c.cand = {} /\ c.actv = {} THEN ForwardBest(c) ELSE c

-----------------------------------------------------------------------------
(* Starting branches                                                       *)

IsDuplicate(c, t) == ContactOf[t] \in c.tried

(* The targets of B are begun: request sent, contact entered, made active. *)
Begin(c, B) ==
  [c EXCEPT !.tried = @ \cup {ContactOf[t] : t \in B},
            !.status = [t \in Targets |-> IF t \in B THEN "Started" ELSE @[t]],
            !.cand = @ \ B, !.actv = @ \cup B]

(* Candidates that are not begun in a pass of the begin functions.         *)
Skip(c, B) ==
  [c EXCEPT !.status = [t \in Targets |-> IF t \in B THEN "Terminated" ELSE @[t]],
            !.cand = @ \ B, !.term = @ \cup B]

(* Mutation: the duplicate check looks at the list before the loop only.   *)
FirstOfEachContactUnchecked(c) ==
  {{t \in c.cand : ~IsDuplicate(c, t)}}

(* The loop of beginClientTransactions starts a candidate unless its       *)
(* contact is in mTargetList, which each start extends: of the candidates  *)
(* with the same new contact the one with the least tid is begun.          *)
FirstOfEachContact(c) ==
  LET new == {t \in c.cand : ~IsDuplicate(c, t)}
  IN {B \in SUBSET new :
        \A t \in new : \E b \in B :
          \A a \in B : ContactOf[a] = ContactOf[t] <=> a = b}

(* Mutation: candidates may still be started after the final response.     *)
BeginOneAfterFinal(c, t) ==
  IF IsDuplicate(c, t) THEN Skip(c, {t}) ELSE Begin(c, {t})

(* beginClientTransaction(tid)                                             *)
BeginOne(c, t) ==
  IF IsDuplicate(c, t) \/ c.final THEN Skip(c, {t}) ELSE Begin(c, {t})

AddCandidates(c, B) ==
  [c EXCEPT !.status = [t \in Targets |-> IF t \in B THEN "Candidate" ELSE @[t]],
            !.cand = @ \cup B]

Fresh == {t \in Targets : ctx.status[t] = "none"}

-----------------------------------------------------------------------------
(* RequestContext and its chains (external), which call the operations     *)

Unchanged(chain) == phase' = chain /\ UNCHANGED <<method, reply, seen>>

RequestArrives ==
  /\ phase = "new"
  /\ Unchanged("request")
  /\ UNCHANGED ctx

(* addTargetBatch, or addTarget of a single target, by a processor.        *)
AddTargetBatch(B) ==
  /\ phase \in {"request", "target", "again", "timed"}
  /\ B # {} /\ B \subseteq Fresh
  /\ ~ctx.final
  /\ ctx' = AddCandidates(ctx, B)
  /\ Unchanged(phase)

(* addOutboundBatch: it does not look at mHaveSentFinalResponse.           *)
AddOutboundBatch(B) ==
  /\ phase \in {"request", "target", "again", "timed"}
  /\ B # {} /\ B \subseteq Fresh
  /\ ctx' = AddCandidates(ctx, B)
  /\ Unchanged(phase)

TargetChain == phase \in {"target", "again", "timed"}

(* addTarget with beginImmediately.                                        *)
AddTargetNow(t) ==
  /\ TargetChain
  /\ t \in Fresh
  /\ ~ctx.final /\ ~IsDuplicate(ctx, t)
  /\ ctx' = Begin(ctx, {t})
  /\ Unchanged(phase)

BeginClientTransaction(t) ==
  /\ TargetChain
  /\ t \in ctx.cand
  /\ ctx' = BeginOne(ctx, t)
  /\ Unchanged(phase)

BeginClientTransactions ==
  /\ TargetChain
  /\ ctx.cand # {}
  /\ \E B \in IF ctx.final THEN {{}} ELSE FirstOfEachContact(ctx) :
       ctx' = Begin(Skip(ctx, ctx.cand \ B), B)
  /\ Unchanged(phase)

(* cancelClientTransaction(tid), by the fork timer that starts the next    *)
(* group of a sequential fork.                                             *)
CancelClientTransaction(t) ==
  /\ phase = "timed"
  /\ \/ /\ IsInvite /\ t \in ctx.actv
        /\ ctx' = [ctx EXCEPT !.status = Cancel(@, {t})]
     \/ /\ t \in ctx.cand
        /\ ctx' = [ctx EXCEPT !.status = Cancel(@, {t}),
                              !.cand = @ \ {t}, !.term = @ \cup {t}]
  /\ Unchanged(phase)

(* A processor of the request chain answers the request itself, or throws. *)
RejectRequest(code) ==
  /\ phase = "request"
  /\ ~ctx.final /\ code >= 300
  /\ ctx' = Send(ctx, code)
  /\ Unchanged("idle")

EndRequestChain ==
  /\ phase = "request"
  /\ LET hasTargets == (ctx.cand \cup ctx.actv \cup ctx.term) # {}
     IN IF ctx.final \/ hasTargets
        THEN UNCHANGED ctx /\ Unchanged(IF ctx.final THEN "idle" ELSE "target")
        ELSE ctx' = Send(ctx, 480) /\ Unchanged("idle")

(* After a target chain that ended with nothing running and nothing sent:  *)
(* 500 if candidates are left, else whatever the best response is.         *)
EndTargetChain ==
  /\ phase \in {"target", "again"}
  /\ ctx' = CASE ctx.final \/ ctx.actv # {} -> ctx
              [] ~ctx.final /\ ctx.actv = {} /\ ctx.cand # {} -> Send(ctx, 500)
              [] OTHER -> ForwardBest(ctx)
  /\ Unchanged("idle")

(* An exception in the target chain of a request.                          *)
TargetChainFails ==
  /\ phase = "target"
  /\ ctx' = IF ctx.final \/ ctx.actv # {} THEN ctx
            ELSE Send(ClearCandidates(ctx), 500)
  /\ Unchanged("idle")

(* A fork timer runs the target chain alone; nothing follows it.           *)
ForkTimer ==
  /\ phase = "idle" /\ UNCHANGED ctx
  /\ Unchanged("timed")

EndTimedChain ==
  /\ phase = "timed" /\ UNCHANGED ctx
  /\ Unchanged("idle")

-----------------------------------------------------------------------------
(* The events that reach the response context                              *)

ProcessCancel ==
  /\ phase \in {"request", "idle"}
  /\ LET c == CancelAll(ctx)
     IN \/ /\ ctx.final
           /\ UNCHANGED ctx /\ Unchanged(phase)
        \/ /\ ~ctx.final /\ c.actv = {}
           /\ ctx' = Send(c, 487) /\ Unchanged(phase)
        \/ /\ ~ctx.final /\ c.actv # {}
           /\ ctx' = c /\ Unchanged("target")

(* Timer C is set when the first branch is begun.                          *)
ProcessTimerC ==
  /\ phase = "idle"
  /\ ctx.tried # {} /\ ~ctx.final
  /\ ctx' = CancelAll(ctx)
  /\ Unchanged("idle")

(* Mutation: a better response lends its priority but is not copied.       *)
CompareKeepsResponse(c, code) ==
  IF Priority(code) < c.bestPriority
  THEN [c EXCEPT !.bestPriority = Priority(code)] ELSE c

(* A 3xx, 4xx or 5xx against the best response so far.  Equal ones merge:  *)
(* challenges (a 407 has a Proxy-Authenticate, a 401 has none), contacts.  *)
Compare(c, code) ==
  CASE Priority(code) < c.bestPriority ->
         [c EXCEPT !.bestCode = code, !.bestPriority = Priority(code)]
    [] Priority(code) = c.bestPriority /\ code = 407 ->
         [c EXCEPT !.bestCode = 407]
    [] Priority(code) = c.bestPriority /\ code \in 300 .. 399 ->
         [c EXCEPT !.bestCode = 300]
    [] OTHER -> c

(* Mutation: a 6xx is compared like any other response.                    *)
TakeGlobalFailureByPriority(c, code) ==
  IF Priority(code) < c.bestPriority
  THEN [c EXCEPT !.bestCode = code, !.bestPriority = Priority(code)] ELSE c

(* The first 6xx takes precedence over everything and ends an INVITE.      *)
TakeGlobalFailure(c, code) ==
  LET d == [c EXCEPT !.bestCode = code, !.bestPriority = 0]
  IN IF c.bestCode \in 600 .. 699 THEN c
     ELSE IF IsInvite THEN CancelAll(d) ELSE d

(* A 2xx: always forwarded for an INVITE, only the first for the others.   *)
Accept(c, code) ==
  CASE IsInvite -> Send([CancelAll(c) EXCEPT !.bestCode = code], code)
    [] ~IsInvite /\ ~c.final ->
         Send([ClearCandidates(c) EXCEPT !.bestCode = code], code)
    [] OTHER -> c

(* processResponse of a final code, with a Via to go on to; a 2xx of a     *)
(* branch that is no longer active is forwarded statelessly.               *)
ProcessFinal(c, t, code) ==
  LET d == Terminate(c, t)
  IN CASE t \notin c.actv -> IF IsOk(code) THEN Send(c, code) ELSE c
       [] t \in c.actv /\ IsOk(code) -> Accept(d, code)
       [] t \in c.actv /\ ~IsOk(code) /\ c.final -> d
       [] t \in c.actv /\ ~c.final /\ code \in 300 .. 599 ->
            ForwardIfAllTerminated(Compare(d, code))
       [] OTHER -> ForwardIfAllTerminated(TakeGlobalFailure(d, code))

(* What the stack can deliver: until a branch has given a final response   *)
(* everything, after a 2xx to an INVITE its retransmissions.               *)
CanAnswer(t, code) ==
  \/ t \in ctx.actv /\ reply[t] = "none"
  \/ ctx.status[t] = "Terminated" /\ reply[t] = "ok" /\ IsOk(code)

(* A provisional response changes no state but timer C's, as does one that *)
(* is ignored (a 1xx or a response to CANCEL without a usable Via).        *)
ProvisionalResponse(t, code) ==
  /\ phase = "idle"
  /\ code < 200 /\ CanAnswer(t, code)
  /\ UNCHANGED ctx
  /\ Unchanged("again")

FinalResponse(t, code) ==
  /\ phase = "idle"
  /\ code >= 200 /\ CanAnswer(t, code)
  /\ phase' = "again"
  /\ ctx' = ProcessFinal(ctx, t, code)
  /\ reply' = [reply EXCEPT ![t] = IF IsInvite /\ IsOk(code) THEN "ok" ELSE "final"]
  /\ seen' = IF t \in ctx.actv /\ ~ctx.final /\ ~IsOk(code)
             THEN seen \cup {code} ELSE seen
  /\ UNCHANGED method

(* The only Via left is missing or malformed: the branch ends, no more.    *)
UnforwardableResponse(t) ==
  /\ phase = "idle"
  /\ t \in ctx.actv /\ reply[t] = "none"
  /\ phase' = "again"
  /\ ctx' = Terminate(ctx, t)
  /\ reply' = [reply EXCEPT ![t] = "final"]
  /\ UNCHANGED <<method, seen>>

(* A processor of the response chain eats a redirection and adds its       *)
(* contacts as targets; RequestContext then terminates the branch.         *)
RedirectEaten(t, code, B) ==
  /\ phase = "idle"
  /\ code \in 300 .. 399
  /\ t \in ctx.actv /\ reply[t] = "none"
  /\ B \subseteq Fresh
  /\ phase' = "again"
  /\ ctx' = Terminate(IF ctx.final THEN ctx ELSE AddCandidates(ctx, B), t)
  /\ reply' = [reply EXCEPT ![t] = "final"]
  /\ UNCHANGED <<method, seen>>

(* TransactionTerminated: the stack has forgotten the branch.              *)
RemoveClientTransaction(t) ==
  /\ phase = "idle"
  /\ reply[t] # "none" /\ ctx.status[t] # "gone"
  /\ ctx' = [ctx EXCEPT !.cand = @ \ {t}, !.actv = @ \ {t},
                        !.term = @ \ {t}, !.status[t] = "gone"]
  /\ Unchanged("idle")

ChainStep ==
  \/ \E B \in SUBSET Targets : AddTargetBatch(B) \/ AddOutboundBatch(B)
  \/ \E t \in Targets :
       \/ AddTargetNow(t)
       \/ BeginClientTransaction(t)
       \/ CancelClientTransaction(t)
  \/ BeginClientTransactions

EndOfChain ==
  \/ \E code \in Codes : RejectRequest(code)
  \/ EndRequestChain \/ EndTargetChain \/ TargetChainFails \/ EndTimedChain

BranchAnswers(t) ==
  \/ UnforwardableResponse(t)
  \/ \E code \in Codes :
       \/ FinalResponse(t, code)
       \/ \E B \in SUBSET Targets : RedirectEaten(t, code, B)

Next ==
  /\ ~ctx.garbage
  /\ \/ RequestArrives \/ ChainStep \/ EndOfChain \/ ForkTimer
     \/ ProcessCancel \/ ProcessTimerC
     \/ \E t \in Targets :
          \/ BranchAnswers(t)
          \/ RemoveClientTransaction(t)
          \/ \E code \in Codes : ProvisionalResponse(t, code)

(* A chain of processors comes to its end.  The stack delivers a final     *)
(* response for every branch it was asked to send, its own 408 if the      *)
(* other side gives none, and the events of a context wait in a queue:     *)
(* the answer is not overtaken for ever (strong fairness).                 *)
Fairness ==
  /\ WF_vars(~ctx.garbage /\ EndOfChain)
  /\ \A t \in Targets : SF_vars(~ctx.garbage /\ reply[t] = "none" /\ BranchAnswers(t))

Spec     == Init /\ [][Next]_vars
FairSpec == Spec /\ Fairness

-----------------------------------------------------------------------------
(* Properties                                                              *)

(* The assertions of getTarget, and that no target is lost or held twice:  *)
(* whatever path moved a target, its status names the one map it is in.    *)
MapsAgree ==
  \A t \in Targets :
    /\ t \in ctx.cand <=> ctx.status[t] = "Candidate"
    /\ t \in ctx.actv <=> ctx.status[t] \in {"Started", "Cancelled"}
    /\ t \in ctx.term <=> ctx.status[t] = "Terminated"

(* The caller is told once: at most one final response that is not a 2xx   *)
(* goes upstream, and none before or after a 2xx of any branch, although   *)
(* RequestContext and six paths of ResponseContext each may send one.      *)
OneVerdict == ctx.rejections + (IF ctx.accepted THEN 1 ELSE 0) <= 1

(* What the caller has been told, if it is one thing.                      *)
Verdict ==
  CASE ctx.rejections = 0 /\ ~ctx.accepted -> "none"
    [] ctx.rejections = 0 /\ ctx.accepted  -> "accepted"
    [] ctx.rejections = 1 /\ ~ctx.accepted -> "rejected"
    [] OTHER                               -> "contradictory"

Begun(t) == t \in ctx.actv \/ reply[t] # "none"
Asked    == {t \in Targets : Begun(t)}
Ringing  == {t \in Targets : ctx.status[t] = "Started"}

Fork == INSTANCE ForkedRequest WITH
          Branches <- Targets,
          call     <- IsInvite,
          verdict  <- Verdict,
          asked    <- Asked,
          awaited  <- ctx.actv,
          ringing  <- Ringing

(* Whatever the processors, timers, CANCELs and branches do, the context   *)
(* is one forked request: no branch is sent the request twice or after the *)
(* answer, the first 2xx decides and an INVITE stops ringing everywhere in *)
(* the same event, a rejection waits until no branch can still accept,     *)
(* and a request that is no INVITE is never sent a CANCEL.                 *)
IsForkedRequest == Fork!Spec

(* When an INVITE has had its final response every branch still active has *)
(* been sent a CANCEL, so that no other phone goes on ringing.             *)
LosersCancelled ==
  IsInvite /\ ctx.final => \A t \in ctx.actv : ctx.status[t] = "Cancelled"

(* Between two events a request without an answer has an active branch,    *)
(* whose final response will be the next chance to answer: no sequence of  *)
(* redirects, duplicates, cancels and timers leaves it without one.        *)
SomeoneWillAnswer ==
  phase = "idle" /\ ~ctx.final /\ ~ctx.abandoned /\ ~ctx.garbage =>
    ctx.actv # {}

(* "Something removed an active transaction ... very likely that something *)
(* is broken here" is never logged: a branch whose final response has been *)
(* delivered is in no map but the terminated one when it is removed.       *)
NoActiveRemoved ==
  \A t \in Targets : reply[t] # "none" => t \notin ctx.actv \cup ctx.cand

(* A contact is rung at most once in the life of a request, whichever of   *)
(* the batches, redirects or fork groups named it again.                   *)
ForkOnce ==
  \A t, u \in Targets :
    Begun(t) /\ Begun(u) /\ ContactOf[t] = ContactOf[u] => t = u

(* The priority kept is the best of the responses compared so far, and the *)
(* code kept has that priority, whatever was merged into it; a 6xx wins    *)
(* for good.                                                               *)
BestIsBest ==
  LET rank(code) == IF code >= 600 THEN 0 ELSE Priority(code)
  IN /\ \A code \in seen : ctx.bestPriority <= rank(code)
     /\ \/ seen = {} /\ ctx.bestPriority = 50
        \/ \E code \in seen : ctx.bestPriority = rank(code)
     /\ ctx.final \/ seen = {} \/ rank(ctx.bestCode) = ctx.bestPriority

(* The empty message goes upstream only for a request none of whose        *)
(* branches gave a response to compare: whatever the priorities, merges    *)
(* and later events, the best response is the empty one no longer than     *)
(* that.                                                                   *)
EmptyOnlyUncompared == ctx.garbage => seen = {}

(* Every request is answered, or abandoned as a timed out non-INVITE, when *)
(* every branch begun ends with some final response.                       *)
Answered ==
  phase # "new" ~> (ctx.final \/ ctx.abandoned \/ ctx.garbage)

(* The answers a request can still get: a target can be asked and, when it *)
(* was asked, answer, once each.                                           *)
AnswersLeft == 2 * Cardinality(Targets \ Asked) + Cardinality(ctx.actv)

(* Redirects, new targets and fork groups cannot put the answer off for    *)
(* ever: no event adds to the answers the request can still get, and each  *)
(* final response of an active branch takes at least one away.             *)
AnswersRunOut ==
  [][/\ AnswersLeft' <= AnswersLeft
     /\ \A t \in ctx.actv :
          reply'[t] # "none" => AnswersLeft' < AnswersLeft]_vars

(* "Treat as server error": a branch whose final response cannot be        *)
(* forwarded counts as one that failed, so there is always a response to   *)
(* forward when all have ended.                                            *)
AlwaysAResponse == ~ctx.garbage
=============================================================================
