----------------------- MODULE ResponseContextProofs -----------------------
(***************************************************************************)
(* Proofs about ResponseContext, for any targets, contacts and codes.      *)
(*                                                                         *)
(* A handler is a composition of operators on contexts.  Good(c) is what   *)
(* every context along the way satisfies; Follows(c, d) says that d is     *)
(* good and undoes nothing of c, and is transitive.  There is one lemma    *)
(* per operator, and the step of each action combines them.                *)
(***************************************************************************)
EXTENDS ResponseContext, FiniteSetTheorems, TLAPS

Agree(c) ==
  \A t \in Targets :
    /\ t \in c.cand <=> c.status[t] = "Candidate"
    /\ t \in c.actv <=> c.status[t] \in {"Started", "Cancelled"}
    /\ t \in c.term <=> c.status[t] = "Terminated"

(* Nothing upstream before "final"; a rejection is the only answer, and    *)
(* leaves no branch that could still be accepted.                          *)
Told(c) ==
  /\ ~c.final => c.rejections = 0 /\ ~c.accepted
  /\ c.rejections # 0 => c.rejections = 1 /\ ~c.accepted /\ c.actv = {}

AllCancelled(c) == \A t \in c.actv : c.status[t] = "Cancelled"

Good(c) ==
  /\ c \in Context
  /\ Agree(c)
  /\ Told(c)
  /\ IsInvite /\ c.final => AllCancelled(c)

(* A branch that has ended stays ended, an acceptance is not taken back.   *)
Kept(c, d) ==
  /\ \A t \in Targets :
       c.status[t] \in {"Terminated", "gone"} => d.status[t] = c.status[t]
  /\ c.final => d.final
  /\ c.accepted => d.accepted
  /\ c.abandoned => d.abandoned
  /\ c.garbage => d.garbage

Follows(c, d) == Good(d) /\ Kept(c, d)

SameAnswer(c, d) ==
  /\ d.final <=> c.final
  /\ d.accepted <=> c.accepted
  /\ d.rejections = c.rejections
  /\ c.abandoned => d.abandoned
  /\ c.garbage => d.garbage

(* d is c with some candidates terminated and some branches cancelled, and *)
(* maybe another best response.                                            *)
Settles(c, d) ==
  /\ d \in Context /\ Agree(d)
  /\ d.actv = c.actv /\ d.tried = c.tried
  /\ \A t \in Targets :
       \/ d.status[t] = c.status[t]
       \/ c.status[t] = "Candidate" /\ d.status[t] = "Terminated"
       \/ c.status[t] = "Started" /\ d.status[t] = "Cancelled"
  /\ SameAnswer(c, d)

-----------------------------------------------------------------------------
LEMMA PriorityRange == \A code \in 100 .. 699 : Priority(code) \in 1 .. 49
BY DEF Priority

LEMMA FollowsTrans ==
  ASSUME NEW c, NEW d, NEW e, Follows(c, d), Follows(d, e)
  PROVE  Follows(c, e)
BY DEF Follows, Kept

LEMMA SettlesFollows ==
  ASSUME NEW c, NEW d, Good(c), Settles(c, d)
  PROVE  Follows(c, d)
<1>1. c \in Context /\ Agree(c) /\ Told(c) BY DEF Good
<1>2. Told(d) BY <1>1 DEF Told, Settles, SameAnswer
<1>3. ASSUME IsInvite, d.final PROVE AllCancelled(d)
  BY <1>1, <1>3 DEF Settles, SameAnswer, Good, AllCancelled, Agree, Context
<1>4. Kept(c, d) BY <1>1 DEF Settles, SameAnswer, Kept
<1> QED BY <1>2, <1>3, <1>4 DEF Good, Follows, Settles

LEMMA SettlesTrans ==
  ASSUME NEW c, NEW d, NEW e, Settles(c, d), Settles(d, e)
  PROVE  Settles(c, e)
BY DEF Settles, SameAnswer

LEMMA CancelStatus ==
  ASSUME NEW status \in [Targets -> Statuses], NEW B
  PROVE  /\ Cancel(status, B) \in [Targets -> Statuses]
         /\ \A t \in Targets :
              /\ t \notin B => Cancel(status, B)[t] = status[t]
              /\ t \in B /\ status[t] = "Started" =>
                   Cancel(status, B)[t] = "Cancelled"
              /\ t \in B /\ status[t] = "Candidate" =>
                   Cancel(status, B)[t] = "Terminated"
              /\ t \in B /\ status[t] \notin {"Started", "Candidate"} =>
                   Cancel(status, B)[t] = status[t]
BY DEF Cancel, Statuses

(* c with its maps, statuses and list of contacts replaced.                *)
Moved(c, cand, actv, term, status, tried) ==
  [c EXCEPT !.cand = cand, !.actv = actv, !.term = term,
            !.status = status, !.tried = tried]

LEMMA MovedContext ==
  ASSUME NEW c \in Context, NEW cand \in SUBSET Targets,
         NEW actv \in SUBSET Targets, NEW term \in SUBSET Targets,
         NEW status \in [Targets -> Statuses], NEW tried \in SUBSET Contacts,
         NEW d, d = Moved(c, cand, actv, term, status, tried)
  PROVE  /\ d \in Context
         /\ d.cand = cand /\ d.actv = actv /\ d.term = term
         /\ d.status = status /\ d.tried = tried
         /\ SameAnswer(c, d)
<1>1. Moved(c, cand, actv, term, status, tried) \in Context
  BY ZenonT(120) DEF Context, Moved
<1>2. d.cand = cand /\ d.actv = actv /\ d.term = term BY DEF Context, Moved
<1>3. d.status = status /\ d.tried = tried BY DEF Context, Moved
<1>4. d.final <=> c.final BY DEF Context, Moved
<1>5. d.accepted <=> c.accepted BY DEF Context, Moved
<1>6. d.rejections = c.rejections BY DEF Context, Moved
<1>7. (c.abandoned => d.abandoned) /\ (c.garbage => d.garbage)
  BY DEF Context, Moved
<1> QED BY <1>1, <1>2, <1>3, <1>4, <1>5, <1>6, <1>7 DEF SameAnswer

LEMMA ClearCandidatesSettles ==
  ASSUME NEW c \in Context, Agree(c)
  PROVE  Settles(c, ClearCandidates(c)) /\ ClearCandidates(c).cand = {}
<1> DEFINE st == Cancel(c.status, c.cand)
           d  == ClearCandidates(c)
<1>1. c.status \in [Targets -> Statuses] BY DEF Context
<1>2. /\ st \in [Targets -> Statuses]
      /\ \A t \in Targets :
           /\ t \notin c.cand => st[t] = c.status[t]
           /\ t \in c.cand => st[t] = "Terminated"
  BY <1>1, CancelStatus DEF Agree
<1>3. c.term \cup c.cand \in SUBSET Targets /\ {} \in SUBSET Targets
      /\ c.actv \in SUBSET Targets /\ c.tried \in SUBSET Contacts
  BY DEF Context
<1>4. d = Moved(c, {}, c.actv, c.term \cup c.cand, st, c.tried)
  BY DEF ClearCandidates, Context, Moved
<1> HIDE DEF st, d
<1>5. /\ d \in Context
      /\ d.cand = {} /\ d.actv = c.actv /\ d.term = c.term \cup c.cand
      /\ d.status = st /\ d.tried = c.tried
      /\ SameAnswer(c, d)
  BY <1>2, <1>3, <1>4, MovedContext
<1>6. Agree(d) BY <1>2, <1>5 DEF Agree
<1> QED BY <1>2, <1>5, <1>6 DEF Settles, d, Agree

LEMMA CancelSettles ==
  ASSUME NEW c \in Context, Agree(c), NEW B \in SUBSET c.actv
  PROVE  LET d == [c EXCEPT !.status = Cancel(@, B)]
         IN /\ Settles(c, d)
            /\ d.cand = c.cand
            /\ \A t \in B : d.status[t] = "Cancelled"
<1> DEFINE st == Cancel(c.status, B)
           d  == [c EXCEPT !.status = st]
<1>1. c.status \in [Targets -> Statuses] /\ B \subseteq Targets BY DEF Context
<1>2. /\ st \in [Targets -> Statuses]
      /\ \A t \in Targets : t \notin B => st[t] = c.status[t]
      /\ \A t \in B : st[t] = "Cancelled" /\ c.status[t] \in {"Started", "Cancelled"}
  BY <1>1, CancelStatus DEF Agree
<1>3. c.cand \in SUBSET Targets /\ c.term \in SUBSET Targets
      /\ c.actv \in SUBSET Targets /\ c.tried \in SUBSET Contacts
  BY DEF Context
<1>4. d = Moved(c, c.cand, c.actv, c.term, st, c.tried)
  BY DEF Context, Moved
<1> HIDE DEF st, d
<1>5. /\ d \in Context
      /\ d.cand = c.cand /\ d.actv = c.actv /\ d.term = c.term
      /\ d.status = st /\ d.tried = c.tried
      /\ SameAnswer(c, d)
  BY <1>2, <1>3, <1>4, MovedContext
<1>6. Agree(d) BY <1>2, <1>5 DEF Agree
<1>7. Settles(c, d) BY <1>1, <1>2, <1>5, <1>6 DEF Settles
<1> QED BY <1>2, <1>5, <1>7 DEF d, st

LEMMA CancelActiveSettles ==
  ASSUME NEW c \in Context, Agree(c)
  PROVE  /\ Settles(c, CancelActive(c))
         /\ CancelActive(c).cand = c.cand
         /\ ~c.final => AllCancelled(CancelActive(c))
<1>1. CASE c.final
  BY <1>1 DEF CancelActive, Settles, SameAnswer
<1>2. CASE ~c.final
  BY <1>2, CancelSettles DEF CancelActive, Settles, AllCancelled
<1> QED BY <1>1, <1>2

LEMMA CancelAllSettles ==
  ASSUME NEW c \in Context, Agree(c)
  PROVE  /\ Settles(c, CancelAll(c))
         /\ CancelAll(c).cand = {}
         /\ IsInvite => AllCancelled(CancelAll(c))
<1>1. CASE ~IsInvite
  <2>1. CancelAll(c) = ClearCandidates(c) 
    <3>1. c = [c EXCEPT !.status = c.status] BY DEF Context
    <3> QED BY <1>1, <3>1 DEF CancelAll
  <2> QED BY <1>1, <2>1, ClearCandidatesSettles
<1>2. CASE IsInvite
  <2> DEFINE d == [c EXCEPT !.status = Cancel(@, c.actv)]
  <2>1. CancelAll(c) = ClearCandidates(d) BY <1>2 DEF CancelAll
  <2>2. Settles(c, d) /\ \A t \in c.actv : d.status[t] = "Cancelled"
    BY CancelSettles
  <2> HIDE DEF d
  <2>3. Settles(d, ClearCandidates(d)) /\ ClearCandidates(d).cand = {}
    BY <2>2, ClearCandidatesSettles DEF Settles
  <2>4. Settles(c, CancelAll(c)) BY <2>1, <2>2, <2>3, SettlesTrans
  <2>5. AllCancelled(ClearCandidates(d))
    BY <2>2, <2>3 DEF Settles, AllCancelled, Context
  <2> QED BY <2>1, <2>3, <2>4, <2>5
<1> QED BY <1>1, <1>2

LEMMA BestSettles ==
  ASSUME NEW c \in Context, Agree(c),
         NEW code \in Codes \cup {0, 300, 407, 480}, NEW p \in Priorities
  PROVE  /\ Settles(c, [c EXCEPT !.bestCode = code, !.bestPriority = p])
         /\ Settles(c, [c EXCEPT !.bestCode = code])
<1> DEFINE d == [c EXCEPT !.bestCode = code, !.bestPriority = p]
           e == [c EXCEPT !.bestCode = code]
<1>1. d \in Context BY ZenonT(120) DEF Context
<1>2. e \in Context BY ZenonT(120) DEF Context
<1>3. d.cand = c.cand /\ d.actv = c.actv /\ d.term = c.term
      /\ d.status = c.status /\ d.tried = c.tried
  BY DEF Context
<1>4. e.cand = c.cand /\ e.actv = c.actv /\ e.term = c.term
      /\ e.status = c.status /\ e.tried = c.tried
  BY DEF Context
<1>5. SameAnswer(c, d) BY DEF SameAnswer, Context
<1>6. SameAnswer(c, e) BY DEF SameAnswer, Context
<1>7. Settles(c, d) 
  <2> HIDE DEF d
  <2> QED BY <1>1, <1>3, <1>5 DEF Settles, Agree
<1>8. Settles(c, e) 
  <2> HIDE DEF e
  <2> QED BY <1>2, <1>4, <1>6 DEF Settles, Agree
<1> QED BY <1>7, <1>8

LEMMA CompareSettles ==
  ASSUME NEW c \in Context, Agree(c), NEW code \in Codes
  PROVE  Settles(c, Compare(c, code))
<1>1. Priority(code) \in Priorities
  <2>1. code \in 100 .. 699 BY TargetsAssumption
  <2>2. Priority(code) \in 1 .. 49 BY <2>1, PriorityRange
  <2> QED BY <2>2 DEF Priorities
<1>2. Settles(c, c) BY DEF Settles, SameAnswer
<1>3. /\ Settles(c, [c EXCEPT !.bestCode = 407])
      /\ Settles(c, [c EXCEPT !.bestCode = 300])
  <2> DEFINE codes == Codes \cup {0, 300, 407, 480}
  <2>1. 407 \in codes /\ 300 \in codes OBVIOUS
  <2>2. \A x \in codes : Settles(c, [c EXCEPT !.bestCode = x])
    BY <1>1, BestSettles
  <2> HIDE DEF codes
  <2> QED BY <2>1, <2>2
<1>4. Settles(c, [c EXCEPT !.bestCode = code, !.bestPriority = Priority(code)])
  BY <1>1, BestSettles
<1> QED BY <1>2, <1>3, <1>4 DEF Compare

LEMMA TakeGlobalFailureSettles ==
  ASSUME NEW c \in Context, Agree(c), NEW code \in Codes
  PROVE  Settles(c, TakeGlobalFailure(c, code))
<1> DEFINE d == [c EXCEPT !.bestCode = code, !.bestPriority = 0]
<1>1. Settles(c, d)
  <2>1. 0 \in Priorities BY DEF Priorities
  <2> QED BY <2>1, BestSettles
<1>2. Settles(c, c) BY DEF Settles, SameAnswer
<1>3. TakeGlobalFailure(c, code) \in {c, CancelAll(d), d} BY DEF TakeGlobalFailure
<1> HIDE DEF d
<1>4. Settles(d, CancelAll(d)) BY <1>1, CancelAllSettles DEF Settles
<1> QED BY <1>1, <1>2, <1>3, <1>4, SettlesTrans

-----------------------------------------------------------------------------
LEMMA TerminateFollows ==
  ASSUME NEW c, Good(c), NEW t \in Targets
  PROVE  LET d == Terminate(c, t)
         IN /\ Follows(c, d)
            /\ SameAnswer(c, d)
            /\ d.actv = c.actv \ {t}
            /\ t \in c.actv => d.status[t] = "Terminated"
<1> DEFINE d == Terminate(c, t)
<1>1. c \in Context /\ Agree(c) BY DEF Good
<1>2. CASE t \notin c.actv \cup c.cand
  <2>1. d = c BY <1>2 DEF Terminate
  <2> QED BY <1>1, <1>2, <2>1 DEF Follows, Kept, SameAnswer, Context
<1>3. CASE t \in c.actv \cup c.cand
  <2> DEFINE st   == [c.status EXCEPT ![t] = "Terminated"]
             cand == IF t \in c.actv THEN c.cand ELSE c.cand \ {t}
  <2>1. d = Moved(c, cand, c.actv \ {t}, c.term \cup {t}, st, c.tried)
    BY <1>1, <1>3 DEF Terminate, Moved, Context
  <2>2. /\ st \in [Targets -> Statuses]
        /\ \A u \in Targets : st[u] = IF u = t THEN "Terminated" ELSE c.status[u]
    BY <1>1 DEF Context, Statuses
  <2>3. /\ cand \in SUBSET Targets
        /\ c.actv \ {t} \in SUBSET Targets /\ c.term \cup {t} \in SUBSET Targets
        /\ c.tried \in SUBSET Contacts
    BY <1>1 DEF Context
  <2> HIDE DEF st, d, cand
  <2>4. /\ d \in Context
        /\ d.cand = cand /\ d.actv = c.actv \ {t} /\ d.term = c.term \cup {t}
        /\ d.status = st /\ d.tried = c.tried
        /\ SameAnswer(c, d)
    BY <1>1, <2>1, <2>2, <2>3, MovedContext
  <2>5. Agree(d) BY <1>1, <1>3, <2>2, <2>4 DEF Agree, cand
  <2>6. Told(d) BY <2>4 DEF Good, Told, SameAnswer
  <2>7. IsInvite /\ d.final => AllCancelled(d)
    BY <1>1, <2>2, <2>4 DEF Good, AllCancelled, SameAnswer, Context
  <2>8. Kept(c, d)
    BY <1>1, <1>3, <2>2, <2>4 DEF Kept, SameAnswer, Agree
  <2> QED BY <2>2, <2>4, <2>5, <2>6, <2>7, <2>8 DEF Follows, Good, d
<1> QED BY <1>2, <1>3

LEMMA SentContext ==
  ASSUME NEW c \in Context, NEW a \in BOOLEAN, NEW n \in Nat
  PROVE  [c EXCEPT !.final = TRUE, !.accepted = a, !.rejections = n] \in Context
BY ZenonT(120) DEF Context

LEMMA SendFollows ==
  ASSUME NEW c, Good(c), NEW code,
         c.rejections = 0,
         IF IsOk(code) THEN IsInvite => AllCancelled(c)
                       ELSE ~c.final /\ c.actv = {}
  PROVE  LET d == Send(c, code)
         IN Follows(c, d) /\ d.final /\ d.actv = c.actv
            /\ (IsOk(code) => d.accepted)
<1> DEFINE a == c.accepted \/ IsOk(code)
           n == IF IsOk(code) THEN c.rejections ELSE c.rejections + 1
           d == Send(c, code)
<1>1. c \in Context /\ Agree(c) BY DEF Good
<1>2. a \in BOOLEAN /\ n \in Nat BY <1>1 DEF Context, IsOk
<1>3. d = [c EXCEPT !.final = TRUE, !.accepted = a, !.rejections = n]
  BY DEF Send
<1> HIDE DEF a, n
<1>4. [c EXCEPT !.final = TRUE, !.accepted = a, !.rejections = n] \in Context
  BY <1>1, <1>2, SentContext
<1>5. d.cand = c.cand /\ d.actv = c.actv /\ d.term = c.term
      /\ d.status = c.status
  BY <1>1, <1>3 DEF Context
<1>6. d.final /\ (d.accepted <=> a) /\ d.rejections = n
  BY <1>1, <1>2, <1>3 DEF Context
<1>12. (c.abandoned => d.abandoned) /\ (c.garbage => d.garbage)
  BY <1>1, <1>3 DEF Context
<1>7. d \in Context BY <1>3, <1>4
<1> HIDE DEF d
<1>8. Agree(d) BY <1>1, <1>5 DEF Agree
<1>9. Told(d) BY <1>5, <1>6 DEF Told, a, n, Good
<1>10. IsInvite => AllCancelled(d)
  BY <1>5 DEF AllCancelled
<1>11. Kept(c, d) BY <1>5, <1>6, <1>12 DEF Kept, a
<1> QED BY <1>5, <1>6, <1>7, <1>8, <1>9, <1>10, <1>11 DEF Good, Follows, a, d

LEMMA FlagSettles ==
  ASSUME NEW c \in Context, Agree(c)
  PROVE  /\ Settles(c, [c EXCEPT !.garbage = TRUE])
         /\ Settles(c, [c EXCEPT !.abandoned = TRUE])
         /\ [c EXCEPT !.garbage = TRUE].garbage
         /\ [c EXCEPT !.abandoned = TRUE].abandoned
<1> DEFINE g == [c EXCEPT !.garbage = TRUE]
           a == [c EXCEPT !.abandoned = TRUE]
<1>1. g \in Context BY ZenonT(120) DEF Context
<1>2. a \in Context BY ZenonT(120) DEF Context
<1>3. g.cand = c.cand /\ g.actv = c.actv /\ g.term = c.term
      /\ g.status = c.status /\ g.tried = c.tried
  BY DEF Context
<1>4. a.cand = c.cand /\ a.actv = c.actv /\ a.term = c.term
      /\ a.status = c.status /\ a.tried = c.tried
  BY DEF Context
<1>5. SameAnswer(c, g) BY DEF SameAnswer, Context
<1>6. SameAnswer(c, a) BY DEF SameAnswer, Context
<1>7. Settles(c, g)
  <2> HIDE DEF g
  <2> QED BY <1>1, <1>3, <1>5 DEF Settles, Agree
<1>8. Settles(c, a)
  <2> HIDE DEF a
  <2> QED BY <1>2, <1>4, <1>6 DEF Settles, Agree
<1>9. g.garbage /\ a.abandoned BY DEF Context
<1> QED BY <1>7, <1>8, <1>9

LEMMA ForwardBestFollows ==
  ASSUME NEW c, Good(c), ~c.final, c.actv = {}
  PROVE  LET e == ForwardBest(c)
         IN Follows(c, e) /\ (e.final \/ e.abandoned \/ e.garbage)
<1> DEFINE d    == IF IsInvite THEN CancelActive(ClearCandidates(c))
                               ELSE ClearCandidates(c)
           code == ForwardedCode(c.bestCode)
           b    == [d EXCEPT !.bestCode = code]
           e    == ForwardBest(c)
<1>1. c \in Context /\ Agree(c) /\ c.rejections = 0 /\ ~c.accepted
  BY DEF Good, Told
<1>2. Settles(c, ClearCandidates(c)) BY <1>1, ClearCandidatesSettles
<1>3. Settles(ClearCandidates(c), CancelActive(ClearCandidates(c)))
  BY <1>2, CancelActiveSettles DEF Settles
<1>4. Settles(c, d) BY <1>2, <1>3, SettlesTrans
<1>5. \/ e = [d EXCEPT !.garbage = TRUE]
      \/ e = [d EXCEPT !.abandoned = TRUE]
      \/ e = Send(b, code)
  <2>1. e = CASE code = 0                -> [d EXCEPT !.garbage = TRUE]
              [] code = 408 /\ ~IsInvite -> [d EXCEPT !.abandoned = TRUE]
              [] OTHER                   -> Send(b, code)
    BY Zenon DEF ForwardBest
  <2> HIDE DEF d, code, b, e
  <2> QED BY <2>1
<1>6. code \in Codes \cup {0, 300, 407, 480}
  BY <1>1 DEF ForwardedCode, Context
<1> HIDE DEF d, code
<1>7. d \in Context /\ Agree(d) BY <1>4 DEF Settles
<1>8. Settles(d, b)
  <2>1. 0 \in Priorities BY DEF Priorities
  <2> QED BY <1>6, <1>7, <2>1, BestSettles
<1> HIDE DEF b, e
<1>9. Settles(c, b) BY <1>4, <1>8, SettlesTrans
<1>10. CASE e = Send(b, code)
  <2>1. Follows(c, b) BY <1>9, SettlesFollows
  <2>2. b.actv = {} /\ b.rejections = 0 /\ ~b.final
    BY <1>1, <1>9 DEF Settles, SameAnswer
  <2>3. AllCancelled(b) BY <2>2 DEF AllCancelled
  <2>4. Good(b) BY <2>1 DEF Follows
  <2>5. Follows(b, e) /\ e.final BY <1>10, <2>2, <2>3, <2>4, SendFollows
  <2> QED BY <2>1, <2>5, FollowsTrans DEF e
<1>11. CASE \/ e = [d EXCEPT !.garbage = TRUE]
            \/ e = [d EXCEPT !.abandoned = TRUE]
  <2>1. Settles(d, e) /\ (e.garbage \/ e.abandoned)
    BY <1>7, <1>11, FlagSettles
  <2>2. Settles(c, e) BY <1>4, <2>1, SettlesTrans
  <2> QED BY <2>1, <2>2, SettlesFollows DEF e
<1> QED BY <1>5, <1>10, <1>11

LEMMA BeginFollows ==
  ASSUME NEW c, Good(c), NEW B \in SUBSET Targets, c.final => B = {},
         \A t \in B : c.status[t] \in {"none", "Candidate"}
  PROVE  LET d == Begin(c, B)
         IN Follows(c, d) /\ SameAnswer(c, d) /\ d.actv = c.actv \cup B
<1> DEFINE st == [t \in Targets |-> IF t \in B THEN "Started" ELSE c.status[t]]
           tr == c.tried \cup {ContactOf[t] : t \in B}
           d  == Begin(c, B)
<1>1. c \in Context /\ Agree(c) BY DEF Good
<1>2. /\ st \in [Targets -> Statuses]
      /\ \A t \in Targets : st[t] = IF t \in B THEN "Started" ELSE c.status[t]
  BY <1>1 DEF Context, Statuses
<1>3. tr \in SUBSET Contacts BY <1>1, TargetsAssumption DEF Context
<1>4. c.cand \ B \in SUBSET Targets /\ c.actv \cup B \in SUBSET Targets
      /\ c.term \in SUBSET Targets
  BY <1>1 DEF Context
<1>5. d = Moved(c, c.cand \ B, c.actv \cup B, c.term, st, tr)
  BY <1>1 DEF Begin, Moved, Context
<1> HIDE DEF st, tr, d
<1>6. /\ d \in Context
      /\ d.cand = c.cand \ B /\ d.actv = c.actv \cup B /\ d.term = c.term
      /\ d.status = st /\ d.tried = tr
      /\ SameAnswer(c, d)
  BY <1>1, <1>2, <1>3, <1>4, <1>5, MovedContext
<1>7. Agree(d) BY <1>1, <1>2, <1>6 DEF Agree
<1>8. Told(d) BY <1>6 DEF Good, Told, SameAnswer
<1>9. IsInvite /\ d.final => AllCancelled(d)
  BY <1>1, <1>2, <1>6 DEF Good, AllCancelled, SameAnswer, Context
<1>10. Kept(c, d) BY <1>2, <1>6 DEF Kept, SameAnswer
<1> QED BY <1>6, <1>7, <1>8, <1>9, <1>10 DEF Good, Follows, d

LEMMA SkipFollows ==
  ASSUME NEW c, Good(c), NEW B \in SUBSET c.cand
  PROVE  LET d == Skip(c, B)
         IN /\ Follows(c, d) /\ SameAnswer(c, d)
            /\ d.cand = c.cand \ B /\ d.actv = c.actv
<1> DEFINE st == [t \in Targets |-> IF t \in B THEN "Terminated" ELSE c.status[t]]
           d  == Skip(c, B)
<1>1. c \in Context /\ Agree(c) BY DEF Good
<1>2. /\ st \in [Targets -> Statuses]
      /\ \A t \in Targets : st[t] = IF t \in B THEN "Terminated" ELSE c.status[t]
  BY <1>1 DEF Context, Statuses
<1>3. c.cand \ B \in SUBSET Targets /\ c.term \cup B \in SUBSET Targets
      /\ c.actv \in SUBSET Targets /\ c.tried \in SUBSET Contacts
  BY <1>1 DEF Context
<1>4. d = Moved(c, c.cand \ B, c.actv, c.term \cup B, st, c.tried)
  BY <1>1 DEF Skip, Moved, Context
<1> HIDE DEF st, d
<1>5. /\ d \in Context
      /\ d.cand = c.cand \ B /\ d.actv = c.actv /\ d.term = c.term \cup B
      /\ d.status = st /\ d.tried = c.tried
      /\ SameAnswer(c, d)
  BY <1>1, <1>2, <1>3, <1>4, MovedContext
<1>6. Agree(d) BY <1>1, <1>2, <1>5 DEF Agree
<1>7. \A t \in Targets :
        \/ d.status[t] = c.status[t]
        \/ c.status[t] = "Candidate" /\ d.status[t] = "Terminated"
  BY <1>1, <1>2, <1>5 DEF Agree
<1>8. Settles(c, d) BY <1>5, <1>6, <1>7 DEF Settles
<1> QED BY <1>5, <1>8, SettlesFollows DEF d

LEMMA AddCandidatesFollows ==
  ASSUME NEW c, Good(c), NEW B \in SUBSET Targets,
         \A t \in B : c.status[t] = "none"
  PROVE  LET d == AddCandidates(c, B)
         IN Follows(c, d) /\ SameAnswer(c, d) /\ d.actv = c.actv
<1> DEFINE st == [t \in Targets |-> IF t \in B THEN "Candidate" ELSE c.status[t]]
           d  == AddCandidates(c, B)
<1>1. c \in Context /\ Agree(c) BY DEF Good
<1>2. /\ st \in [Targets -> Statuses]
      /\ \A t \in Targets : st[t] = IF t \in B THEN "Candidate" ELSE c.status[t]
  BY <1>1 DEF Context, Statuses
<1>3. c.cand \cup B \in SUBSET Targets /\ c.term \in SUBSET Targets
      /\ c.actv \in SUBSET Targets /\ c.tried \in SUBSET Contacts
  BY <1>1 DEF Context
<1>4. d = Moved(c, c.cand \cup B, c.actv, c.term, st, c.tried)
  BY <1>1 DEF AddCandidates, Moved, Context
<1> HIDE DEF st, d
<1>5. /\ d \in Context
      /\ d.cand = c.cand \cup B /\ d.actv = c.actv /\ d.term = c.term
      /\ d.status = st /\ d.tried = c.tried
      /\ SameAnswer(c, d)
  BY <1>1, <1>2, <1>3, <1>4, MovedContext
<1>6. Agree(d) BY <1>1, <1>2, <1>5 DEF Agree
<1>7. Told(d) BY <1>5 DEF Good, Told, SameAnswer
<1>8. IsInvite /\ d.final => AllCancelled(d)
  BY <1>1, <1>2, <1>5 DEF Good, AllCancelled, SameAnswer, Context
<1>9. Kept(c, d) BY <1>2, <1>5 DEF Kept, SameAnswer
<1> QED BY <1>5, <1>6, <1>7, <1>8, <1>9 DEF Follows, Good, d

LEMMA ForwardIfAllTerminatedFollows ==
  ASSUME NEW c, Good(c), ~c.final
  PROVE  Follows(c, ForwardIfAllTerminated(c))
BY ForwardBestFollows DEF ForwardIfAllTerminated, Follows, Kept

LEMMA AcceptFollows ==
  ASSUME NEW c, Good(c), NEW code \in Codes, IsOk(code), c.rejections = 0
  PROVE  Follows(c, Accept(c, code)) /\ (IsInvite => Accept(c, code).accepted)
<1> DEFINE d == IF IsInvite THEN CancelAll(c) ELSE ClearCandidates(c)
           b == [d EXCEPT !.bestCode = code]
<1>1. c \in Context /\ Agree(c) BY DEF Good
<1>2. Settles(c, d) BY <1>1, CancelAllSettles, ClearCandidatesSettles
<1>3. IsInvite => AllCancelled(d) BY <1>1, CancelAllSettles
<1>4. Accept(c, code) = Send(b, code) \/ (~IsInvite /\ Accept(c, code) = c)
  BY Zenon DEF Accept
<1> HIDE DEF d
<1>5. Settles(d, b) /\ b.actv = d.actv /\ b.status = d.status
  <2>1. 0 \in Priorities BY DEF Priorities
  <2>2. d \in Context /\ Agree(d) BY <1>2 DEF Settles
  <2>3. b.actv = d.actv /\ b.status = d.status BY <2>2 DEF Context
  <2> QED BY <2>1, <2>2, <2>3, BestSettles
<1> HIDE DEF b
<1>6. Settles(c, b) BY <1>2, <1>5, SettlesTrans
<1>7. Follows(c, b) BY <1>6, SettlesFollows
<1>8. Good(b) /\ b.rejections = 0 /\ (IsInvite => AllCancelled(b))
  BY <1>3, <1>5, <1>6, <1>7 DEF Follows, Settles, SameAnswer, AllCancelled
<1>9. Follows(b, Send(b, code)) /\ Send(b, code).accepted
  BY <1>8, SendFollows
<1>10. Follows(c, Send(b, code)) BY <1>7, <1>9, FollowsTrans
<1>11. Follows(c, c) BY DEF Follows, Kept
<1> QED BY <1>4, <1>9, <1>10, <1>11

LEMMA ProcessFinalFollows ==
  ASSUME NEW c, Good(c), NEW t \in Targets, NEW code \in Codes,
         t \notin c.actv => IsOk(code) /\ IsInvite /\ c.accepted
  PROVE  LET e == ProcessFinal(c, t, code)
         IN /\ Follows(c, e)
            /\ t \in c.actv => e.status[t] = "Terminated"
            /\ IsInvite /\ IsOk(code) => e.accepted
<1> DEFINE d == Terminate(c, t)
           g == TakeGlobalFailure(d, code)
           e == ProcessFinal(c, t, code)
<1>1. /\ Follows(c, d) /\ SameAnswer(c, d)
      /\ t \in c.actv => d.status[t] = "Terminated"
  BY TerminateFollows
<1>2. CASE t \notin c.actv
  <2>1. e = Send(c, code) BY <1>2 DEF ProcessFinal
  <2>2. c.rejections = 0 /\ (IsInvite => AllCancelled(c))
    BY <1>2 DEF Good, Told
  <2> QED BY <1>2, <2>1, <2>2, SendFollows
<1>3. CASE t \in c.actv
  <2> HIDE DEF d
  <2>1. Good(d) /\ d \in Context /\ Agree(d) BY <1>1 DEF Follows, Good
  <2>2. c.rejections = 0 /\ d.rejections = 0
    BY <1>1, <1>3 DEF Good, Told, SameAnswer
  <2>3. CASE IsOk(code)
    <3>0. code \notin 300 .. 599
      BY <2>3 DEF IsOk
    <3>1. e = Accept(d, code) BY <1>3, <2>3, <3>0, Zenon DEF ProcessFinal, d
    <3>2. Follows(d, e) /\ (IsInvite => e.accepted)
      BY <2>1, <2>2, <2>3, <3>1, AcceptFollows
    <3>3. Follows(c, e) BY <1>1, <3>2, FollowsTrans
    <3>4. e.status[t] = "Terminated" BY <1>1, <1>3, <3>2 DEF Follows, Kept
    <3> QED BY <3>2, <3>3, <3>4
  <2>4. CASE ~IsOk(code) /\ c.final
    <3>1. e = d BY <1>3, <2>4 DEF ProcessFinal, d
    <3> QED BY <1>1, <1>3, <2>4, <3>1
  <2>5. CASE ~IsOk(code) /\ ~c.final
    <3>1. \E f \in {Compare(d, code), g} : e = ForwardIfAllTerminated(f)
      BY <1>3, <2>5 DEF ProcessFinal, d
    <3> HIDE DEF e, g
    <3>2. PICK f \in {Compare(d, code), g} : e = ForwardIfAllTerminated(f)
      BY <3>1
    <3>3. Settles(d, f)
      BY <2>1, CompareSettles, TakeGlobalFailureSettles DEF g
    <3>4. Follows(d, f) BY <2>1, <3>3, SettlesFollows
    <3>5. Good(f) /\ ~f.final
      BY <1>1, <2>5, <3>3, <3>4 DEF Follows, Settles, SameAnswer
    <3>6. Follows(f, e) BY <3>2, <3>5, ForwardIfAllTerminatedFollows
    <3>7. Follows(d, e) BY <3>4, <3>6, FollowsTrans
    <3>8. Follows(c, e) BY <1>1, <3>7, FollowsTrans
    <3>9. e.status[t] = "Terminated" BY <1>1, <1>3, <3>7 DEF Follows, Kept
    <3> QED BY <2>5, <3>8, <3>9 DEF e
  <2> QED BY <2>3, <2>4, <2>5
<1> QED BY <1>2, <1>3

-----------------------------------------------------------------------------
(* The inductive invariant.  A branch that has had its final response is   *)
(* out of the active map, and one that may repeat a 2xx was accepted; the  *)
(* request chain starts nothing; between events an unanswered request has  *)
(* an active branch.                                                       *)

Replied ==
  /\ \A t \in Targets :
       reply[t] # "none" => ctx.status[t] \in {"Terminated", "gone"}
  /\ \A t \in Targets : reply[t] = "ok" => ctx.accepted /\ IsInvite

NothingStarted == phase \in {"new", "request"} => ctx.actv = {}

Driven ==
  phase \in {"idle", "timed"} /\ ~ctx.final /\ ~ctx.abandoned /\ ~ctx.garbage =>
    ctx.actv # {}

IInv ==
  /\ TypeOK
  /\ Good(ctx)
  /\ Replied
  /\ NothingStarted
  /\ Driven

LEMMA InitIInv == Init => IInv
<1> SUFFICES ASSUME Init PROVE IInv OBVIOUS
<1>1. ctx \in Context
  <2>1. 50 \in Priorities BY DEF Priorities
  <2>2. [t \in Targets |-> "none"] \in [Targets -> Statuses] BY DEF Statuses
  <2> QED BY <2>1, <2>2 DEF Init, Context
<1>2. Agree(ctx) BY DEF Init, Agree
<1>3. Told(ctx) /\ ~ctx.final BY DEF Init, Told
<1>4. TypeOK BY <1>1 DEF Init, TypeOK, Phases
<1>5. Replied /\ NothingStarted /\ Driven
  BY DEF Init, Replied, NothingStarted, Driven
<1> QED BY <1>1, <1>2, <1>3, <1>4, <1>5 DEF IInv, Good

(* What a step that delivers no response has to show: the context follows  *)
(* the old one, nothing is started in the request chain, an unanswered     *)
(* request keeps an active branch.                                         *)
LEMMA QuietStep ==
  ASSUME IInv, Follows(ctx, ctx'), NEW chain \in Phases, Unchanged(chain),
         chain \in {"new", "request"} => ctx'.actv = {},
         chain \in {"idle", "timed"} /\ ~ctx'.final /\ ~ctx'.abandoned
           /\ ~ctx'.garbage => ctx'.actv # {}
  PROVE  IInv'
<1>1. Good(ctx') /\ Kept(ctx, ctx') BY DEF Follows
<1>2. ctx' \in Context /\ Good(ctx)'
  BY <1>1 DEF Good, Unchanged, IsInvite
<1>3. TypeOK' BY <1>2 DEF IInv, TypeOK, Unchanged
<1>4. Replied'
  BY <1>1 DEF IInv, Replied, Kept, Unchanged, IsInvite
<1>5. NothingStarted' /\ Driven'
  BY DEF NothingStarted, Driven, Unchanged
<1> QED BY <1>2, <1>3, <1>4, <1>5 DEF IInv

(* The same for a step inside a chain, or one that leaves the chain alone. *)
LEMMA SamePhaseStep ==
  ASSUME IInv, Follows(ctx, ctx'), Unchanged(phase),
         phase \in {"new", "request"} => ctx'.actv = {},
         ctx'.final \/ ctx.actv \subseteq ctx'.actv
  PROVE  IInv'
<1>1. phase \in Phases BY DEF IInv, TypeOK
<1>2. phase \in {"idle", "timed"} /\ ~ctx'.final /\ ~ctx'.abandoned
        /\ ~ctx'.garbage => ctx'.actv # {}
  BY DEF IInv, Driven, Follows, Kept
<1> QED BY <1>1, <1>2, QuietStep

LEMMA FollowsSelf == ASSUME NEW c, Good(c) PROVE Follows(c, c)
BY DEF Follows, Kept

LEMMA ChainStepIInv == IInv /\ ChainStep => IInv'
<1> SUFFICES ASSUME IInv, ChainStep PROVE IInv' OBVIOUS
<1>1. Good(ctx) /\ ctx \in Context /\ Agree(ctx)
      /\ (phase \in {"new", "request"} => ctx.actv = {})
  BY DEF IInv, Good, NothingStarted
<1>2. ASSUME NEW B \in SUBSET Targets,
             AddTargetBatch(B) \/ AddOutboundBatch(B)
      PROVE  IInv'
  <2>1. \A t \in B : ctx.status[t] = "none"
    BY <1>2 DEF AddTargetBatch, AddOutboundBatch, Fresh
  <2>2. ctx' = AddCandidates(ctx, B) /\ Unchanged(phase)
    BY <1>2 DEF AddTargetBatch, AddOutboundBatch
  <2>3. Follows(ctx, ctx') /\ ctx'.actv = ctx.actv
    BY <1>1, <2>1, <2>2, AddCandidatesFollows
  <2> QED BY <1>1, <2>2, <2>3, SamePhaseStep
<1>3. ASSUME NEW t \in Targets, AddTargetNow(t) PROVE IInv'
  <2>1. /\ ctx.status[t] = "none" /\ ~ctx.final
        /\ ctx' = Begin(ctx, {t}) /\ Unchanged(phase)
        /\ phase \notin {"new", "request"}
    BY <1>3 DEF AddTargetNow, Fresh, TargetChain
  <2>2. Follows(ctx, ctx') /\ ctx'.actv = ctx.actv \cup {t}
    BY <1>1, <2>1, BeginFollows
  <2> QED BY <2>1, <2>2, SamePhaseStep
<1>4. ASSUME NEW t \in Targets, BeginClientTransaction(t) PROVE IInv'
  <2>1. /\ t \in ctx.cand /\ ctx.status[t] = "Candidate"
        /\ ctx' = BeginOne(ctx, t) /\ Unchanged(phase)
        /\ phase \notin {"new", "request"}
    BY <1>1, <1>4 DEF BeginClientTransaction, TargetChain, Agree
  <2>2. CASE ctx' = Skip(ctx, {t})
    <3>1. Follows(ctx, ctx') /\ ctx'.actv = ctx.actv
      BY <1>1, <2>1, <2>2, SkipFollows
    <3> QED BY <2>1, <3>1, SamePhaseStep
  <2>3. CASE ctx' = Begin(ctx, {t}) /\ ~ctx.final
    <3>1. Follows(ctx, ctx') /\ ctx'.actv = ctx.actv \cup {t}
      BY <1>1, <2>1, <2>3, BeginFollows
    <3> QED BY <2>1, <3>1, SamePhaseStep
  <2> QED BY <2>1, <2>2, <2>3 DEF BeginOne
<1>5. ASSUME NEW t \in Targets, CancelClientTransaction(t) PROVE IInv'
  <2>1. Unchanged(phase) /\ phase \notin {"new", "request"}
    BY <1>5 DEF CancelClientTransaction
  <2>2. CASE t \in ctx.actv /\ ctx' = [ctx EXCEPT !.status = Cancel(@, {t})]
    <3>1. Settles(ctx, ctx') BY <1>1, <2>2, CancelSettles
    <3>2. Follows(ctx, ctx') /\ ctx'.actv = ctx.actv
      BY <1>1, <3>1, SettlesFollows DEF Settles
    <3> QED BY <2>1, <3>2, SamePhaseStep
  <2>3. CASE /\ t \in ctx.cand
             /\ ctx' = [ctx EXCEPT !.status = Cancel(@, {t}),
                                   !.cand = @ \ {t}, !.term = @ \cup {t}]
    <3>1. Cancel(ctx.status, {t}) =
            [u \in Targets |-> IF u \in {t} THEN "Terminated" ELSE ctx.status[u]]
      BY <1>1, <2>3 DEF Cancel, Agree
    <3>2. ctx' = Skip(ctx, {t}) BY <1>1, <2>3, <3>1 DEF Skip, Context
    <3>3. Follows(ctx, ctx') /\ ctx'.actv = ctx.actv
      BY <1>1, <2>3, <3>2, SkipFollows
    <3> QED BY <2>1, <3>3, SamePhaseStep
  <2> QED BY <1>5, <2>2, <2>3 DEF CancelClientTransaction
<1>6. CASE BeginClientTransactions
  <2>1. Unchanged(phase) /\ phase \notin {"new", "request"}
    BY <1>6 DEF BeginClientTransactions, TargetChain
  <2>2. PICK B \in SUBSET ctx.cand :
          /\ ctx.final => B = {}
          /\ ctx' = Begin(Skip(ctx, ctx.cand \ B), B)
    BY <1>6 DEF BeginClientTransactions, FirstOfEachContact
  <2> DEFINE d == Skip(ctx, ctx.cand \ B)
  <2>3. /\ Follows(ctx, d) /\ SameAnswer(ctx, d)
        /\ d.cand = B /\ d.actv = ctx.actv
    <3>1. ctx.cand \ B \in SUBSET ctx.cand OBVIOUS
    <3>2. ctx.cand \ (ctx.cand \ B) = B BY <2>2
    <3> QED BY <1>1, <3>1, <3>2, SkipFollows
  <2> HIDE DEF d
  <2>4. Good(d) /\ (d.final => B = {}) /\ B \in SUBSET Targets
        /\ \A t \in B : d.status[t] = "Candidate"
    BY <1>1, <2>2, <2>3 DEF Follows, SameAnswer, Good, Agree, Context
  <2>5. ctx' = Begin(d, B) BY <2>2 DEF d
  <2>6. Follows(d, ctx') /\ ctx'.actv = d.actv \cup B
    BY <2>4, <2>5, BeginFollows
  <2>7. Follows(ctx, ctx') BY <2>3, <2>6, FollowsTrans
  <2> QED BY <2>1, <2>3, <2>6, <2>7, SamePhaseStep
<1> QED BY <1>2, <1>3, <1>4, <1>5, <1>6 DEF ChainStep

LEMMA EndOfChainIInv == IInv /\ EndOfChain => IInv'
<1> SUFFICES ASSUME IInv, EndOfChain PROVE IInv' OBVIOUS
<1>1. Good(ctx) /\ ctx \in Context /\ Agree(ctx) /\ phase \in Phases
  BY DEF IInv, Good, TypeOK
<1>2. ~ctx.final => ctx.rejections = 0 BY <1>1 DEF Good, Told
<1>3. "idle" \in Phases /\ "target" \in Phases BY DEF Phases
<1>4. ASSUME NEW c, Follows(ctx, c), NEW code, ~IsOk(code),
             ctx' = Send(c, code), Unchanged("idle"), ~c.final, c.actv = {}
      PROVE  IInv'
  <2>1. Good(c) /\ c.rejections = 0 BY <1>4 DEF Follows, Good, Told
  <2>2. Follows(c, ctx') /\ ctx'.final BY <1>4, <2>1, SendFollows
  <2>3. Follows(ctx, ctx') BY <1>4, <2>2, FollowsTrans
  <2> QED BY <1>3, <1>4, <2>2, <2>3, QuietStep
<1>5. Follows(ctx, ctx) BY <1>1, FollowsSelf
<1>6. ASSUME NEW code \in Codes, RejectRequest(code) PROVE IInv'
  <2>1. ~IsOk(code) /\ ~ctx.final /\ ctx.actv = {}
    BY <1>6, TargetsAssumption DEF RejectRequest, IsOk, IInv, NothingStarted
  <2> QED BY <1>4, <1>5, <1>6, <2>1 DEF RejectRequest
<1>7. CASE EndRequestChain
  <2>1. phase = "request" /\ ctx.actv = {} BY <1>7 DEF EndRequestChain, IInv, NothingStarted
  <2>2. CASE ctx' = ctx /\ Unchanged(IF ctx.final THEN "idle" ELSE "target")
    <3>1. Follows(ctx, ctx') BY <1>5, <2>2
    <3>2. CASE ctx.final BY <1>3, <2>1, <2>2, <3>1, <3>2, QuietStep
    <3>3. CASE ~ctx.final BY <1>3, <2>1, <2>2, <3>1, <3>3, QuietStep
    <3> QED BY <3>2, <3>3
  <2>3. CASE ctx' = Send(ctx, 480) /\ Unchanged("idle") /\ ~ctx.final
    <3>1. ~IsOk(480) BY DEF IsOk
    <3> QED BY <1>4, <1>5, <2>1, <2>3, <3>1
  <2> QED BY <1>7, <2>2, <2>3 DEF EndRequestChain
<1>8. CASE EndTargetChain
  <2>1. Unchanged("idle") BY <1>8 DEF EndTargetChain
  <2>2. CASE ctx.final \/ ctx.actv # {}
    <3>1. ctx' = ctx BY <1>8, <2>2 DEF EndTargetChain
    <3> QED BY <1>3, <1>5, <2>1, <2>2, <3>1, QuietStep
  <2>3. CASE ~ctx.final /\ ctx.actv = {} /\ ctx.cand # {}
    <3>1. ctx' = Send(ctx, 500) BY <1>8, <2>3 DEF EndTargetChain
    <3>2. ~IsOk(500) BY DEF IsOk
    <3> QED BY <1>4, <1>5, <2>1, <2>3, <3>1, <3>2
  <2>4. CASE ~ctx.final /\ ctx.actv = {} /\ ctx.cand = {}
    <3>1. ctx' = ForwardBest(ctx) BY <1>8, <2>4 DEF EndTargetChain
    <3>2. Follows(ctx, ctx') /\ (ctx'.final \/ ctx'.abandoned \/ ctx'.garbage)
      BY <1>1, <2>4, <3>1, ForwardBestFollows
    <3> QED BY <1>3, <2>1, <3>2, QuietStep
  <2> QED BY <2>2, <2>3, <2>4
<1>9. CASE TargetChainFails
  <2>1. Unchanged("idle") BY <1>9 DEF TargetChainFails
  <2>2. CASE ctx.final \/ ctx.actv # {}
    <3>1. ctx' = ctx BY <1>9, <2>2 DEF TargetChainFails
    <3> QED BY <1>3, <1>5, <2>1, <2>2, <3>1, QuietStep
  <2>3. CASE ~ctx.final /\ ctx.actv = {}
    <3>1. ctx' = Send(ClearCandidates(ctx), 500)
      BY <1>9, <2>3 DEF TargetChainFails
    <3>2. ~IsOk(500) BY DEF IsOk
    <3>3. Settles(ctx, ClearCandidates(ctx)) BY <1>1, ClearCandidatesSettles
    <3>4. Follows(ctx, ClearCandidates(ctx)) BY <1>1, <3>3, SettlesFollows
    <3>5. ~ClearCandidates(ctx).final /\ ClearCandidates(ctx).actv = {}
      BY <2>3, <3>3 DEF Settles, SameAnswer
    <3> QED BY <1>4, <2>1, <3>1, <3>2, <3>4, <3>5
  <2> QED BY <2>2, <2>3
<1>10. CASE EndTimedChain
  <2>1. phase = "timed" /\ ctx' = ctx /\ Unchanged("idle")
    BY <1>10 DEF EndTimedChain
  <2> QED BY <1>3, <1>5, <2>1, QuietStep DEF IInv, Driven
<1> QED BY <1>6, <1>7, <1>8, <1>9, <1>10 DEF EndOfChain

LEMMA EventIInv ==
  IInv /\ (RequestArrives \/ ForkTimer \/ ProcessCancel \/ ProcessTimerC) => IInv'
<1> SUFFICES ASSUME IInv,
                    RequestArrives \/ ForkTimer \/ ProcessCancel \/ ProcessTimerC
             PROVE  IInv'
  OBVIOUS
<1>1. Good(ctx) /\ ctx \in Context /\ Agree(ctx) /\ phase \in Phases
      /\ (phase \in {"new", "request"} => ctx.actv = {})
  BY DEF IInv, Good, TypeOK, NothingStarted
<1>2. {"request", "timed", "target"} \subseteq Phases BY DEF Phases
<1>3. Follows(ctx, ctx) BY <1>1, FollowsSelf
<1>4. Settles(ctx, CancelAll(ctx)) BY <1>1, CancelAllSettles
<1>5. Follows(ctx, CancelAll(ctx)) BY <1>1, <1>4, SettlesFollows
<1>6. CASE RequestArrives
  <2>1. phase = "new" /\ ctx' = ctx /\ Unchanged("request")
    BY <1>6 DEF RequestArrives
  <2> QED BY <1>1, <1>2, <1>3, <2>1, QuietStep
<1>7. CASE ForkTimer
  <2>1. phase = "idle" /\ ctx' = ctx /\ Unchanged("timed")
    BY <1>7 DEF ForkTimer
  <2> QED BY <1>2, <1>3, <2>1, QuietStep DEF IInv, Driven
<1>8. CASE ProcessCancel
  <2>1. CASE ctx.final /\ ctx' = ctx /\ Unchanged(phase)
    BY <1>1, <1>3, <2>1, SamePhaseStep
  <2>2. CASE /\ ~ctx.final /\ CancelAll(ctx).actv = {}
             /\ ctx' = Send(CancelAll(ctx), 487) /\ Unchanged(phase)
    <3> DEFINE c == CancelAll(ctx)
    <3>1. ~IsOk(487) BY DEF IsOk
    <3>2. Good(c) /\ ~c.final /\ c.rejections = 0
      BY <1>4, <1>5, <2>2 DEF Follows, Settles, SameAnswer, Good, Told
    <3> HIDE DEF c
    <3>3. Follows(c, ctx') /\ ctx'.final /\ ctx'.actv = {}
      BY <2>2, <3>1, <3>2, SendFollows DEF c
    <3>4. Follows(ctx, ctx') BY <1>5, <3>3, FollowsTrans DEF c
    <3> QED BY <1>1, <2>2, <3>3, <3>4, SamePhaseStep
  <2>3. CASE ctx' = CancelAll(ctx) /\ Unchanged("target")
    BY <1>2, <1>5, <2>3, QuietStep
  <2> QED BY <1>8, <2>1, <2>2, <2>3 DEF ProcessCancel
<1>9. CASE ProcessTimerC
  <2>1. phase = "idle" /\ ctx' = CancelAll(ctx) /\ Unchanged(phase)
    BY <1>9 DEF ProcessTimerC
  <2>2. ctx'.actv = ctx.actv BY <1>4, <2>1 DEF Settles
  <2> QED BY <1>5, <2>1, <2>2, SamePhaseStep
<1> QED BY <1>6, <1>7, <1>8, <1>9

(* A step that delivers a final response of branch t, which ends it.       *)
LEMMA AnswerStep ==
  ASSUME IInv, NEW t \in Targets, Follows(ctx, ctx'),
         ctx'.status[t] \in {"Terminated", "gone"}, phase' = "again",
         method' = method, seen' \in SUBSET Codes,
         NEW r \in {"final", "ok"}, reply' = [reply EXCEPT ![t] = r],
         r = "ok" => ctx'.accepted /\ IsInvite
  PROVE  IInv'
<1>1. Good(ctx') /\ Kept(ctx, ctx') BY DEF Follows
<1>2. ctx' \in Context /\ Good(ctx)' BY <1>1 DEF Good, IsInvite
<1>3. TypeOK' BY <1>2 DEF IInv, TypeOK, Phases
<1>4. Replied'
  BY <1>1 DEF IInv, TypeOK, Replied, Kept, IsInvite
<1>5. NothingStarted' /\ Driven' BY DEF NothingStarted, Driven
<1> QED BY <1>2, <1>3, <1>4, <1>5 DEF IInv

LEMMA BranchAnswersIInv ==
  ASSUME IInv, NEW t \in Targets, BranchAnswers(t)
  PROVE  IInv'
<1>1. Good(ctx) /\ ctx \in Context /\ Agree(ctx) /\ seen \in SUBSET Codes
  BY DEF IInv, Good, TypeOK
<1>2. CASE UnforwardableResponse(t)
  <2>1. /\ t \in ctx.actv /\ ctx' = Terminate(ctx, t)
        /\ reply' = [reply EXCEPT ![t] = "final"]
        /\ phase' = "again" /\ method' = method /\ seen' = seen
    BY <1>2 DEF UnforwardableResponse
  <2>2. Follows(ctx, ctx') /\ ctx'.status[t] = "Terminated"
    BY <1>1, <2>1, TerminateFollows
  <2> QED BY <1>1, <2>1, <2>2, AnswerStep
<1>3. ASSUME NEW code \in Codes, FinalResponse(t, code) PROVE IInv'
  <2> DEFINE r == IF IsInvite /\ IsOk(code) THEN "ok" ELSE "final"
  <2>1. /\ ctx' = ProcessFinal(ctx, t, code) /\ CanAnswer(t, code)
        /\ reply' = [reply EXCEPT ![t] = r]
        /\ phase' = "again" /\ method' = method
    BY <1>3 DEF FinalResponse
  <2>2. seen' \in SUBSET Codes BY <1>1, <1>3 DEF FinalResponse
  <2>3. t \notin ctx.actv =>
          /\ IsOk(code) /\ IsInvite /\ ctx.accepted
          /\ ctx.status[t] = "Terminated"
    BY <2>1 DEF CanAnswer, IInv, Replied
  <2>4. /\ Follows(ctx, ctx')
        /\ t \in ctx.actv => ctx'.status[t] = "Terminated"
        /\ IsInvite /\ IsOk(code) => ctx'.accepted
    BY <1>1, <2>1, <2>3, ProcessFinalFollows
  <2>5. ctx'.status[t] = "Terminated" BY <2>3, <2>4 DEF Follows, Kept
  <2>6. r \in {"final", "ok"} /\ (r = "ok" => ctx'.accepted /\ IsInvite)
    BY <2>4
  <2> HIDE DEF r
  <2> QED BY <2>1, <2>2, <2>4, <2>5, <2>6, AnswerStep
<1>4. ASSUME NEW code \in Codes, NEW B \in SUBSET Targets,
             RedirectEaten(t, code, B)
      PROVE  IInv'
  <2> DEFINE c == IF ctx.final THEN ctx ELSE AddCandidates(ctx, B)
  <2>1. /\ t \in ctx.actv /\ ctx' = Terminate(c, t)
        /\ reply' = [reply EXCEPT ![t] = "final"]
        /\ phase' = "again" /\ method' = method /\ seen' = seen
        /\ \A u \in B : ctx.status[u] = "none"
    BY <1>4 DEF RedirectEaten, Fresh
  <2>2. Follows(ctx, ctx) BY <1>1, FollowsSelf
  <2>3. Follows(ctx, c) /\ c.actv = ctx.actv
    BY <1>1, <2>1, <2>2, AddCandidatesFollows
  <2> HIDE DEF c
  <2>4. Follows(c, ctx') /\ ctx'.status[t] = "Terminated"
    BY <2>1, <2>3, TerminateFollows DEF Follows
  <2>5. Follows(ctx, ctx') BY <2>3, <2>4, FollowsTrans
  <2> QED BY <1>1, <2>1, <2>4, <2>5, AnswerStep
<1> QED BY <1>2, <1>3, <1>4 DEF BranchAnswers

LEMMA RemoveIInv ==
  ASSUME IInv, NEW t \in Targets, RemoveClientTransaction(t)
  PROVE  IInv'
<1> DEFINE st == [ctx.status EXCEPT ![t] = "gone"]
<1>1. Good(ctx) /\ ctx \in Context /\ Agree(ctx)
  BY DEF IInv, Good
<1>2. /\ phase = "idle" /\ Unchanged("idle")
      /\ ctx.status[t] = "Terminated"
      /\ ctx' = [ctx EXCEPT !.cand = @ \ {t}, !.actv = @ \ {t},
                            !.term = @ \ {t}, !.status[t] = "gone"]
  BY DEF RemoveClientTransaction, IInv, Replied
<1>3. /\ st \in [Targets -> Statuses]
      /\ \A u \in Targets : st[u] = IF u = t THEN "gone" ELSE ctx.status[u]
  BY <1>1 DEF Context, Statuses
<1>4. ctx' = Moved(ctx, ctx.cand \ {t}, ctx.actv \ {t}, ctx.term \ {t}, st, ctx.tried)
  BY <1>1, <1>2 DEF Moved, Context
<1>5. /\ ctx.cand \ {t} \in SUBSET Targets /\ ctx.actv \ {t} \in SUBSET Targets
      /\ ctx.term \ {t} \in SUBSET Targets /\ ctx.tried \in SUBSET Contacts
  BY <1>1 DEF Context
<1> HIDE DEF st
<1>6. /\ ctx' \in Context
      /\ ctx'.cand = ctx.cand \ {t} /\ ctx'.actv = ctx.actv \ {t}
      /\ ctx'.term = ctx.term \ {t} /\ ctx'.status = st
      /\ SameAnswer(ctx, ctx')
  BY <1>1, <1>3, <1>4, <1>5, MovedContext
<1>7. t \notin ctx.actv /\ ctx'.actv = ctx.actv
  BY <1>1, <1>2, <1>6 DEF Agree
<1>8. Agree(ctx') BY <1>1, <1>3, <1>6 DEF Agree
<1>9. Told(ctx') /\ (IsInvite /\ ctx'.final => AllCancelled(ctx'))
  BY <1>1, <1>3, <1>6, <1>7 DEF Good, Told, AllCancelled, SameAnswer, Context
<1>10. Good(ctx)' BY <1>2, <1>6, <1>8, <1>9 DEF Good, Unchanged, IsInvite, AllCancelled
<1>11. TypeOK' BY <1>2, <1>6 DEF IInv, TypeOK, Unchanged
<1>12. Replied'
  BY <1>2, <1>3, <1>6 DEF IInv, Replied, Unchanged, SameAnswer, IsInvite
<1>13. NothingStarted' /\ Driven'
  BY <1>2, <1>6, <1>7 DEF IInv, NothingStarted, Driven, Unchanged, SameAnswer
<1> QED BY <1>10, <1>11, <1>12, <1>13 DEF IInv

LEMMA ProvisionalIInv ==
  ASSUME IInv, NEW t \in Targets, NEW code \in Codes, ProvisionalResponse(t, code)
  PROVE  IInv'
<1>1. Follows(ctx, ctx') /\ Unchanged("again")
  BY FollowsSelf DEF ProvisionalResponse, IInv
<1> QED BY <1>1, QuietStep DEF Phases

LEMMA NextIInv == IInv /\ [Next]_vars => IInv'
<1> SUFFICES ASSUME IInv, [Next]_vars PROVE IInv' OBVIOUS
<1>1. CASE UNCHANGED vars
  BY <1>1 DEF IInv, TypeOK, Good, AllCancelled, Replied, NothingStarted,
              Driven, vars, IsInvite
<1>2. CASE Next
  BY <1>2, ChainStepIInv, EndOfChainIInv, EventIInv, BranchAnswersIInv,
     RemoveIInv, ProvisionalIInv DEF Next
<1> QED BY <1>1, <1>2

LEMMA IInvAlways == Spec => []IInv
BY InitIInv, NextIInv, PTL DEF Spec

-----------------------------------------------------------------------------
(* The variables keep their types: the maps hold targets of the request,   *)
(* the status and the priority kept are ones the code knows.               *)
THEOREM TypeCorrect == Spec => []TypeOK
<1>1. IInv => TypeOK BY DEF IInv
<1> QED BY <1>1, IInvAlways, PTL

(* getTarget's assertions hold: every target is in the one map that its    *)
(* status names.                                                           *)
THEOREM TargetsInOneMap == Spec => []MapsAgree
<1>1. IInv => MapsAgree BY DEF IInv, Good, Agree, MapsAgree
<1> QED BY <1>1, IInvAlways, PTL

(* The caller is answered at most once, by a 2xx or by one rejection.      *)
THEOREM AnsweredOnce == Spec => []OneVerdict
<1>1. IInv => OneVerdict BY DEF IInv, Good, Told, OneVerdict, Context
<1> QED BY <1>1, IInvAlways, PTL

(* When an INVITE has been answered every other branch has been cancelled. *)
THEOREM NoPhoneRingsOn == Spec => []LosersCancelled
<1>1. IInv => LosersCancelled BY DEF IInv, Good, AllCancelled, LosersCancelled
<1> QED BY <1>1, IInvAlways, PTL

(* An unanswered request has a branch that will drive it on.               *)
THEOREM AlwaysDriven == Spec => []SomeoneWillAnswer
<1>1. IInv => SomeoneWillAnswer BY DEF IInv, Driven, SomeoneWillAnswer
<1> QED BY <1>1, IInvAlways, PTL

(* The stack never forgets a branch the context still counts on.           *)
THEOREM RemovedOnlyWhenTerminated == Spec => []NoActiveRemoved
<1>1. IInv => NoActiveRemoved
  BY DEF IInv, Replied, Good, Agree, NoActiveRemoved
<1> QED BY <1>1, IInvAlways, PTL

-----------------------------------------------------------------------------
(* Who is rung and which response is the best.  Quiet(c, d): d starts no   *)
(* branch, and keeps the best response unless it is the final one; it is   *)
(* an empty message that goes up only if the best response was empty.      *)

Ranked(c, d) ==
  /\ d.bestPriority = c.bestPriority
  /\ d.final \/ d.bestCode = c.bestCode
  /\ c.final => d.final
  /\ d.garbage => c.garbage \/ (c.bestCode = 0 /\ ~c.final)

Quiet(c, d) ==
  /\ d.actv \subseteq c.actv /\ d.tried = c.tried
  /\ Ranked(c, d)

LEMMA QuietTrans ==
  ASSUME NEW c, NEW d, NEW e, Quiet(c, d), Quiet(d, e)
  PROVE  Quiet(c, e)
BY DEF Quiet, Ranked

LEMMA SettingsQuiet ==
  ASSUME NEW c \in Context
  PROVE  /\ Quiet(c, c)
         /\ Quiet(c, ClearCandidates(c))
         /\ Quiet(c, CancelActive(c))
         /\ Quiet(c, CancelAll(c))
         /\ \A t \in Targets : Quiet(c, Terminate(c, t))
         /\ \A B \in SUBSET Targets : Quiet(c, Skip(c, B)) /\ Quiet(c, AddCandidates(c, B))
<1>1. Quiet(c, c) BY DEF Quiet, Ranked
<1>2. ASSUME NEW d \in Context PROVE Quiet(d, ClearCandidates(d))
  BY <1>2 DEF Context, Quiet, Ranked, ClearCandidates
<1>3. Quiet(c, CancelActive(c))
  BY DEF Context, Quiet, Ranked, CancelActive
<1>4. Quiet(c, CancelAll(c))
  BY DEF Context, Quiet, Ranked, CancelAll, ClearCandidates
<1>5. ASSUME NEW t \in Targets PROVE Quiet(c, Terminate(c, t))
  BY DEF Context, Quiet, Ranked, Terminate
<1>6. ASSUME NEW B \in SUBSET Targets
      PROVE  Quiet(c, Skip(c, B)) /\ Quiet(c, AddCandidates(c, B))
  BY DEF Context, Quiet, Ranked, Skip, AddCandidates
<1> QED BY <1>1, <1>2, <1>3, <1>4, <1>5, <1>6

LEMMA SendQuiet ==
  ASSUME NEW c \in Context, NEW code
  PROVE  Quiet(c, Send(c, code)) /\ Quiet(c, Send([c EXCEPT !.bestCode = code], code))
BY DEF Context, Quiet, Ranked, Send

LEMMA ForwardBestQuiet ==
  ASSUME NEW c, Good(c), ~c.final
  PROVE  Quiet(c, ForwardBest(c))
<1> DEFINE d    == IF IsInvite THEN CancelActive(ClearCandidates(c))
                               ELSE ClearCandidates(c)
           code == ForwardedCode(c.bestCode)
           e    == ForwardBest(c)
<1>1. c \in Context /\ Agree(c) BY DEF Good
<1>2. ClearCandidates(c) \in Context /\ Agree(ClearCandidates(c))
  BY <1>1, ClearCandidatesSettles DEF Settles
<1>3. d \in Context BY <1>2, CancelActiveSettles DEF Settles
<1>4. Quiet(c, ClearCandidates(c)) /\ Quiet(ClearCandidates(c), CancelActive(ClearCandidates(c)))
  BY <1>1, <1>2, SettingsQuiet
<1>5. Quiet(c, d) BY <1>4, QuietTrans
<1>6. e = CASE code = 0                -> [d EXCEPT !.garbage = TRUE]
            [] code = 408 /\ ~IsInvite -> [d EXCEPT !.abandoned = TRUE]
            [] OTHER                   -> Send([d EXCEPT !.bestCode = code], code)
  BY Zenon DEF ForwardBest
<1>7. code = 0 => c.bestCode = 0 BY DEF ForwardedCode
<1>8. ~d.final
  <2>1. SameAnswer(c, ClearCandidates(c)) BY <1>1, ClearCandidatesSettles DEF Settles
  <2>2. SameAnswer(ClearCandidates(c), CancelActive(ClearCandidates(c)))
    BY <1>2, CancelActiveSettles DEF Settles
  <2> QED BY <2>1, <2>2 DEF SameAnswer
<1> HIDE DEF d, code, e
<1>9. Quiet(d, Send([d EXCEPT !.bestCode = code], code)) BY <1>3, SendQuiet
<1>10. Quiet(d, [d EXCEPT !.abandoned = TRUE])
  BY <1>3 DEF Context, Quiet, Ranked
<1>11. code = 0 => Quiet(d, [d EXCEPT !.garbage = TRUE])
  BY <1>3, <1>5, <1>7, <1>8 DEF Context, Quiet, Ranked
<1>12. Quiet(d, e) BY <1>6, <1>9, <1>10, <1>11
<1> QED BY <1>5, <1>12, QuietTrans DEF e

LEMMA AcceptQuiet ==
  ASSUME NEW c, Good(c), NEW code
  PROVE  Quiet(c, Accept(c, code))
<1> DEFINE d == IF IsInvite THEN CancelAll(c) ELSE ClearCandidates(c)
<1>1. c \in Context /\ Agree(c) BY DEF Good
<1>2. d \in Context BY <1>1, CancelAllSettles, ClearCandidatesSettles DEF Settles
<1>3. Quiet(c, d) /\ Quiet(c, c) BY <1>1, SettingsQuiet
<1>4. \/ Accept(c, code) = Send([d EXCEPT !.bestCode = code], code)
      \/ Accept(c, code) = c
  BY Zenon DEF Accept
<1> HIDE DEF d
<1>5. Quiet(d, Send([d EXCEPT !.bestCode = code], code)) BY <1>2, SendQuiet
<1> QED BY <1>3, <1>4, <1>5, QuietTrans

(* The best of the responses with the codes S, as BestIsBest says, and the *)
(* empty one exactly as long as there was none.  (A code of 0 would rank   *)
(* with the unlisted ones, so its priority does not tell it apart.)        *)
Rank(code) == IF code >= 600 THEN 0 ELSE Priority(code)

Best(c, S) ==
  /\ \A code \in S : c.bestPriority <= Rank(code)
  /\ \/ S = {} /\ c.bestPriority = 50
     \/ \E code \in S : c.bestPriority = Rank(code)
  /\ c.final \/ S = {} \/ Rank(c.bestCode) = c.bestPriority
  /\ c.final \/ (S = {} <=> c.bestCode = 0)
  /\ c.garbage => S = {}

LEMMA QuietBest ==
  ASSUME NEW c, NEW d, NEW S, Best(c, S), Ranked(c, d)
  PROVE  Best(d, S)
BY DEF Best, Ranked

LEMMA RankRange ==
  ASSUME NEW code \in 100 .. 699
  PROVE  /\ Rank(code) \in 0 .. 49
         /\ code < 600 => Rank(code) = Priority(code) /\ Priority(code) \in 1 .. 49
         /\ code >= 600 => Rank(code) = 0
<1>1. Priority(code) \in 1 .. 49 BY PriorityRange
<1>2. CASE code < 600 BY <1>1, <1>2 DEF Rank
<1>3. CASE code >= 600 BY <1>3 DEF Rank
<1> QED BY <1>1, <1>2, <1>3

LEMMA RanksOfCodes == \A x \in Codes : Rank(x) \in 0 .. 49
<1> SUFFICES ASSUME NEW x \in Codes PROVE Rank(x) \in 0 .. 49
  OBVIOUS
<1>1. x \in 100 .. 699 BY TargetsAssumption
<1> QED BY <1>1, RankRange

LEMMA CompareBest ==
  ASSUME NEW c \in Context, NEW S \in SUBSET Codes, Best(c, S), ~c.final, ~c.garbage,
         NEW code \in Codes, code \in 300 .. 599
  PROVE  Best(Compare(c, code), S \cup {code}) /\ Compare(c, code).tried = c.tried
         /\ Compare(c, code).actv = c.actv
<1> DEFINE d == Compare(c, code)
<1>0. c.bestPriority \in 0 .. 50 BY DEF Context, Priorities
<1>1. /\ Rank(code) = Priority(code) /\ Priority(code) \in 1 .. 49
      /\ c.bestPriority \in 0 .. 50
  <2>1. code \in 100 .. 699 /\ code < 600 OBVIOUS
  <2> QED BY <1>0, <2>1, RankRange
<1>2. \A x \in S : Rank(x) \in 0 .. 49 BY RanksOfCodes
<1>3. CASE Priority(code) < c.bestPriority
  <2>1. d = [c EXCEPT !.bestCode = code, !.bestPriority = Priority(code)]
    BY <1>1, <1>3 DEF Compare
  <2>2. /\ d.bestCode = code /\ d.bestPriority = Priority(code)
        /\ d.tried = c.tried /\ d.actv = c.actv /\ ~d.final /\ ~d.garbage
    BY <2>1 DEF Context
  <2> HIDE DEF d
  <2> QED BY <1>1, <1>2, <1>3, <2>2 DEF Best, d
<1>4. CASE ~(Priority(code) < c.bestPriority)
  <2>1. S # {} BY <1>1, <1>4 DEF Best
  <2>2. /\ d.bestPriority = c.bestPriority
        /\ d.tried = c.tried /\ d.actv = c.actv /\ ~d.final /\ ~d.garbage
        /\ \/ d.bestCode = c.bestCode
           \/ d.bestCode = 407 /\ code = 407 /\ Priority(code) = c.bestPriority
           \/ d.bestCode = 300 /\ code \in 300 .. 399 /\ Priority(code) = c.bestPriority
    BY <1>1, <1>4 DEF Context, Compare
  <2>3. Rank(407) = 4 /\ Rank(300) = 5 /\ Priority(407) = 4
        /\ (code \in 300 .. 399 => Priority(code) = 5)
    BY DEF Rank, Priority
  <2> HIDE DEF d
  <2>4. Rank(d.bestCode) = d.bestPriority
    <3>1. Rank(c.bestCode) = c.bestPriority BY <2>1 DEF Best
    <3> QED BY <2>2, <2>3, <3>1
  <2>5. d.bestCode # 0
    <3>1. c.bestCode # 0 BY <2>1 DEF Best
    <3> QED BY <2>2, <3>1
  <2> QED BY <1>1, <1>2, <1>4, <2>1, <2>2, <2>4, <2>5 DEF Best, d
<1> QED BY <1>3, <1>4

LEMMA TakeGlobalFailureBest ==
  ASSUME NEW c \in Context, Agree(c), NEW S \in SUBSET Codes, Best(c, S), ~c.final, ~c.garbage,
         NEW code \in Codes, code >= 600
  PROVE  Best(TakeGlobalFailure(c, code), S \cup {code})
         /\ TakeGlobalFailure(c, code).tried = c.tried
         /\ TakeGlobalFailure(c, code).actv \subseteq c.actv
<1> DEFINE d == [c EXCEPT !.bestCode = code, !.bestPriority = 0]
           e == TakeGlobalFailure(c, code)
<1>1. Rank(code) = 0 /\ \A x \in S : Rank(x) \in 0 .. 49
  BY RanksOfCodes DEF Rank
<1>2. CASE c.bestCode \in 600 .. 699
  <2>1. e = c BY <1>2 DEF TakeGlobalFailure
  <2>2. S # {} BY <1>2 DEF Best
  <2>3. Rank(c.bestCode) = 0 BY <1>2 DEF Rank
  <2>4. c.bestPriority = 0 BY <2>2, <2>3 DEF Best
  <2> QED BY <1>1, <2>1, <2>2, <2>3, <2>4 DEF Best
<1>3. CASE c.bestCode \notin 600 .. 699
  <2>1. e \in {d, CancelAll(d)} BY <1>3 DEF TakeGlobalFailure
  <2>2. /\ d.bestCode = code /\ d.bestPriority = 0
        /\ d.tried = c.tried /\ d.actv = c.actv /\ ~d.final /\ ~d.garbage
    BY DEF Context
  <2>3. d \in Context
    <3>1. 0 \in Priorities BY DEF Priorities
    <3> QED BY <3>1, BestSettles DEF Settles
  <2> HIDE DEF d, e
  <2>4. Best(d, S \cup {code}) BY <1>1, <2>2 DEF Best
  <2>5. Quiet(d, e) BY <2>1, <2>3, SettingsQuiet
  <2>6. Best(e, S \cup {code}) BY <2>4, <2>5, QuietBest DEF Quiet
  <2> QED BY <2>2, <2>5, <2>6 DEF Quiet, e
<1> QED BY <1>2, <1>3

(* The response of branch t: it starts nothing, and it is counted when it  *)
(* is compared.                                                            *)
LEMMA ProcessFinalBest ==
  ASSUME NEW c, Good(c), NEW t \in Targets, NEW code \in Codes, code >= 200,
         NEW S \in SUBSET Codes, Best(c, S), ~c.garbage
  PROVE  LET e == ProcessFinal(c, t, code)
         IN /\ e.actv \subseteq c.actv /\ e.tried = c.tried
            /\ Best(e, IF t \in c.actv /\ ~c.final /\ ~IsOk(code)
                       THEN S \cup {code} ELSE S)
<1> DEFINE d == Terminate(c, t)
           e == ProcessFinal(c, t, code)
<1>1. c \in Context /\ Agree(c) BY DEF Good
<1>2. /\ Quiet(c, d) /\ Good(d) /\ d \in Context /\ Agree(d)
      /\ (d.final <=> c.final)
  BY <1>1, SettingsQuiet, TerminateFollows DEF Follows, Good, SameAnswer
<1>3. code \in 100 .. 699 BY TargetsAssumption
<1>4. CASE Quiet(c, e) /\ ~(t \in c.actv /\ ~c.final /\ ~IsOk(code))
  BY <1>4, QuietBest DEF Quiet
<1>5. CASE t \notin c.actv
  <2>1. e = IF IsOk(code) THEN Send(c, code) ELSE c
    BY <1>5 DEF ProcessFinal
  <2>2. Quiet(c, Send(c, code)) /\ Quiet(c, c) BY <1>1, SendQuiet, SettingsQuiet
  <2> HIDE DEF e
  <2> QED BY <1>4, <1>5, <2>1, <2>2
<1>6. CASE t \in c.actv /\ IsOk(code)
  <2>1. code \notin 300 .. 599 BY <1>6 DEF IsOk
  <2>2. e = Accept(d, code) BY <1>6, <2>1, Zenon DEF ProcessFinal
  <2> HIDE DEF d, e
  <2>3. Quiet(d, e) BY <1>2, <2>2, AcceptQuiet
  <2> QED BY <1>2, <1>4, <1>6, <2>3, QuietTrans
<1>7. CASE t \in c.actv /\ ~IsOk(code) /\ c.final
  <2>1. e = d BY <1>7 DEF ProcessFinal
  <2> QED BY <1>2, <1>4, <1>7, <2>1
<1>8. CASE t \in c.actv /\ ~IsOk(code) /\ ~c.final
  <2> DEFINE f == IF code \in 300 .. 599 THEN Compare(d, code)
                                         ELSE TakeGlobalFailure(d, code)
  <2>0. ~d.garbage BY <1>1 DEF Terminate, Context
  <2>1. e = ForwardIfAllTerminated(f) BY <1>8 DEF ProcessFinal
  <2> HIDE DEF d, e
  <2>2. Best(d, S) BY <1>2, QuietBest DEF Quiet
  <2>3. code \notin 300 .. 599 => code >= 600 BY <1>3, <1>8 DEF IsOk
  <2>4. Best(f, S \cup {code}) /\ f.tried = d.tried /\ f.actv \subseteq d.actv
    <3>1. CASE code \in 300 .. 599
      BY <1>2, <1>8, <2>0, <2>2, <3>1, CompareBest
    <3>2. CASE code \notin 300 .. 599
      BY <1>2, <1>8, <2>0, <2>2, <2>3, <3>2, TakeGlobalFailureBest
    <3> QED BY <3>1, <3>2
  <2>5. Settles(d, f) BY <1>2, CompareSettles, TakeGlobalFailureSettles
  <2> HIDE DEF f
  <2>6. Good(f) BY <1>2, <2>5, SettlesFollows DEF Follows
  <2>7. Quiet(f, e)
    <3>1. f \in Context /\ ~f.final
      BY <1>2, <1>8, <2>5 DEF Settles, SameAnswer
    <3> QED BY <2>1, <2>6, <3>1, ForwardBestQuiet, SettingsQuiet
            DEF ForwardIfAllTerminated
  <2>8. Best(e, S \cup {code}) BY <2>4, <2>7, QuietBest DEF Quiet
  <2>9. e.actv \subseteq c.actv /\ e.tried = c.tried
    BY <1>2, <2>4, <2>7 DEF Quiet
  <2> QED BY <1>8, <2>8, <2>9 DEF e
<1> QED BY <1>5, <1>6, <1>7, <1>8

-----------------------------------------------------------------------------
(* A branch that was begun has its contact in mTargetList, and mTargetList *)
(* only grows: that is what keeps the contacts of two branches apart.      *)
RInv ==
  /\ \A t \in Targets : Begun(t) => ContactOf[t] \in ctx.tried
  /\ ForkOnce
  /\ Best(ctx, seen)

(* What every step has to show: it begins the targets of B, whose contacts *)
(* are new and different.                                                  *)
LEMMA RingStep ==
  ASSUME RInv, NEW B,
         ctx'.actv \subseteq ctx.actv \cup B,
         ctx'.tried = ctx.tried \cup {ContactOf[t] : t \in B},
         \A t \in B : ContactOf[t] \notin ctx.tried,
         \A t, u \in B : ContactOf[t] = ContactOf[u] => t = u,
         \A t \in Targets : reply'[t] # "none" => reply[t] # "none" \/ t \in ctx.actv,
         Best(ctx', seen')
  PROVE  RInv'
<1>1. ASSUME NEW t \in Targets, Begun(t)' PROVE Begun(t) \/ t \in B
  BY <1>1 DEF Begun
<1>2. \A t \in Targets : Begun(t)' => ContactOf[t] \in ctx'.tried
  BY <1>1 DEF RInv
<1>3. ASSUME NEW t \in Targets, NEW u \in Targets, Begun(t)', Begun(u)',
             ContactOf[t] = ContactOf[u]
      PROVE  t = u
  BY <1>1, <1>3 DEF RInv, ForkOnce
<1>4. ForkOnce' BY <1>3 DEF ForkOnce
<1>5. Best(ctx, seen)' BY DEF Best
<1>6. (\A t \in Targets : Begun(t) => ContactOf[t] \in ctx.tried)' BY <1>2
<1> QED BY <1>4, <1>5, <1>6 DEF RInv

LEMMA NoRingStep ==
  ASSUME RInv,
         ctx'.actv \subseteq ctx.actv, ctx'.tried = ctx.tried,
         \A t \in Targets : reply'[t] # "none" => reply[t] # "none" \/ t \in ctx.actv,
         Best(ctx', seen')
  PROVE  RInv'
<1> DEFINE B == {}
<1>1. /\ ctx'.actv \subseteq ctx.actv \cup B
      /\ ctx'.tried = ctx.tried \cup {ContactOf[t] : t \in B}
      /\ \A t \in B : ContactOf[t] \notin ctx.tried
      /\ \A t, u \in B : ContactOf[t] = ContactOf[u] => t = u
  OBVIOUS
<1> HIDE DEF B
<1> QED BY <1>1, RingStep

LEMMA QuietRings ==
  ASSUME RInv, Quiet(ctx, ctx'), UNCHANGED seen,
         \A t \in Targets : reply'[t] # "none" => reply[t] # "none" \/ t \in ctx.actv
  PROVE  RInv'
<1>1. Best(ctx', seen') BY QuietBest DEF RInv, Quiet
<1>2. ctx'.actv \subseteq ctx.actv /\ ctx'.tried = ctx.tried BY DEF Quiet
<1> QED BY <1>1, <1>2, NoRingStep

(* Begin the targets of B, from a context that is quietly reached.         *)
LEMMA BeginRings ==
  ASSUME RInv, NEW c \in Context, Quiet(ctx, c), NEW B \in SUBSET Targets,
         ctx' = Begin(c, B), UNCHANGED <<reply, seen>>,
         \A t \in B : ContactOf[t] \notin ctx.tried,
         \A t, u \in B : ContactOf[t] = ContactOf[u] => t = u
  PROVE  RInv'
<1>1. /\ ctx'.actv = c.actv \cup B
      /\ ctx'.tried = c.tried \cup {ContactOf[t] : t \in B}
      /\ Ranked(c, ctx')
  BY DEF Context, Begin, Ranked
<1>2. Best(ctx', seen') BY <1>1, QuietBest DEF RInv, Quiet
<1> QED BY <1>1, <1>2, RingStep DEF Quiet

LEMMA ChainStepRings ==
  ASSUME IInv, RInv, ChainStep
  PROVE  RInv'
<1>1. ctx \in Context /\ Good(ctx) /\ Agree(ctx) BY DEF IInv, Good
<1>2. Quiet(ctx, ctx) BY <1>1, SettingsQuiet
<1>3. ASSUME Quiet(ctx, ctx'), UNCHANGED <<reply, seen>> PROVE RInv'
  BY <1>3, QuietRings
<1>4. ASSUME NEW B \in SUBSET Targets,
             AddTargetBatch(B) \/ AddOutboundBatch(B)
      PROVE  RInv'
  <2>1. ctx' = AddCandidates(ctx, B) /\ UNCHANGED <<reply, seen>>
    BY <1>4 DEF AddTargetBatch, AddOutboundBatch, Unchanged
  <2> QED BY <1>1, <1>3, <2>1, SettingsQuiet
<1>5. ASSUME NEW t \in Targets, AddTargetNow(t) PROVE RInv'
  <2>1. /\ ctx' = Begin(ctx, {t}) /\ UNCHANGED <<reply, seen>>
        /\ ContactOf[t] \notin ctx.tried
    BY <1>5 DEF AddTargetNow, Unchanged, IsDuplicate
  <2> QED BY <1>1, <1>2, <2>1, BeginRings
<1>6. ASSUME NEW t \in Targets, BeginClientTransaction(t) PROVE RInv'
  <2>1. /\ ctx' = BeginOne(ctx, t) /\ UNCHANGED <<reply, seen>>
    BY <1>6 DEF BeginClientTransaction, Unchanged
  <2>2. CASE ctx' = Skip(ctx, {t})
    BY <1>1, <1>3, <2>1, <2>2, SettingsQuiet
  <2>3. CASE ctx' = Begin(ctx, {t}) /\ ContactOf[t] \notin ctx.tried
    BY <1>1, <1>2, <2>1, <2>3, BeginRings
  <2> QED BY <2>1, <2>2, <2>3 DEF BeginOne, IsDuplicate
<1>7. ASSUME NEW t \in Targets, CancelClientTransaction(t) PROVE RInv'
  <2>1. UNCHANGED <<reply, seen>> BY <1>7 DEF CancelClientTransaction, Unchanged
  <2>2. CASE ctx' = [ctx EXCEPT !.status = Cancel(@, {t})]
    BY <1>1, <1>3, <2>1, <2>2 DEF Context, Quiet, Ranked
  <2>3. CASE ctx' = [ctx EXCEPT !.status = Cancel(@, {t}),
                                !.cand = @ \ {t}, !.term = @ \cup {t}]
    <3> DEFINE st == Cancel(ctx.status, {t})
    <3>1. ctx' = [ctx EXCEPT !.status = st,
                             !.cand = @ \ {t}, !.term = @ \cup {t}]
      BY <1>1, <2>3 DEF Context
    <3> HIDE DEF st
    <3>2. Quiet(ctx, ctx') BY <1>1, <3>1 DEF Context, Quiet, Ranked
    <3> QED BY <1>3, <2>1, <3>2
  <2> QED BY <1>7, <2>2, <2>3 DEF CancelClientTransaction
<1>8. CASE BeginClientTransactions
  <2>1. UNCHANGED <<reply, seen>> BY <1>8 DEF BeginClientTransactions, Unchanged
  <2>2. PICK B \in SUBSET ctx.cand :
          /\ B \in IF ctx.final THEN {{}} ELSE FirstOfEachContact(ctx)
          /\ ctx' = Begin(Skip(ctx, ctx.cand \ B), B)
    BY <1>8 DEF BeginClientTransactions, FirstOfEachContact
  <2>3. /\ \A t \in B : ContactOf[t] \notin ctx.tried
        /\ \A t, u \in B : ContactOf[t] = ContactOf[u] => t = u
    BY <2>2 DEF FirstOfEachContact, IsDuplicate
  <2>4. B \in SUBSET Targets /\ ctx.cand \ B \in SUBSET Targets
        /\ ctx.cand \ B \in SUBSET ctx.cand
    BY <1>1 DEF Context
  <2> DEFINE c == Skip(ctx, ctx.cand \ B)
  <2>5. c \in Context BY <1>1, <2>4, SkipFollows DEF Follows, Good
  <2>6. Quiet(ctx, c) BY <1>1, <2>4, SettingsQuiet
  <2>7. ctx' = Begin(c, B) BY <2>2
  <2> HIDE DEF c
  <2> QED BY <2>1, <2>3, <2>4, <2>5, <2>6, <2>7, BeginRings
<1> QED BY <1>4, <1>5, <1>6, <1>7, <1>8 DEF ChainStep

LEMMA OtherStepRings ==
  ASSUME IInv, RInv,
         \/ EndOfChain \/ RequestArrives \/ ForkTimer
         \/ ProcessCancel \/ ProcessTimerC
         \/ \E t \in Targets :
              \/ RemoveClientTransaction(t)
              \/ \E code \in Codes : ProvisionalResponse(t, code)
  PROVE  RInv'
<1>1. ctx \in Context /\ Good(ctx) /\ Agree(ctx) BY DEF IInv, Good
<1>2. Quiet(ctx, ctx) BY <1>1, SettingsQuiet
<1>3. UNCHANGED <<reply, seen>>
  BY DEF EndOfChain, RejectRequest, EndRequestChain, EndTargetChain,
         TargetChainFails, EndTimedChain, RequestArrives, ForkTimer,
         ProcessCancel, ProcessTimerC, RemoveClientTransaction,
         ProvisionalResponse, Unchanged
<1>4. ASSUME NEW c \in Context, Quiet(ctx, c), NEW code, ctx' = Send(c, code)
      PROVE  Quiet(ctx, ctx')
  BY <1>4, SendQuiet, QuietTrans
<1>5. CASE EndOfChain
  <2>1. ClearCandidates(ctx) \in Context
    BY <1>1, ClearCandidatesSettles DEF Settles
  <2>2. \/ ctx' = ctx \/ (~ctx.final /\ ctx' = ForwardBest(ctx))
        \/ \E code : ctx' = Send(ctx, code) \/ ctx' = Send(ClearCandidates(ctx), code)
    BY <1>5 DEF EndOfChain, RejectRequest, EndRequestChain, EndTargetChain,
                TargetChainFails, EndTimedChain
  <2>3. Quiet(ctx, ctx')
    BY <1>1, <1>2, <1>4, <2>1, <2>2, SettingsQuiet, ForwardBestQuiet
  <2> QED BY <1>3, <2>3, QuietRings
<1>6. CASE ProcessCancel \/ ProcessTimerC
  <2>1. CancelAll(ctx) \in Context BY <1>1, CancelAllSettles DEF Settles
  <2>2. \/ ctx' = ctx \/ ctx' = CancelAll(ctx)
        \/ ctx' = Send(CancelAll(ctx), 487)
    BY <1>6 DEF ProcessCancel, ProcessTimerC
  <2>3. Quiet(ctx, ctx') BY <1>1, <1>2, <1>4, <2>1, <2>2, SettingsQuiet
  <2> QED BY <1>3, <2>3, QuietRings
<1>7. CASE \/ RequestArrives \/ ForkTimer
           \/ \E t \in Targets, code \in Codes : ProvisionalResponse(t, code)
  <2>1. ctx' = ctx
    BY <1>7 DEF RequestArrives, ForkTimer, ProvisionalResponse
  <2> QED BY <1>2, <1>3, <2>1, QuietRings
<1>8. ASSUME NEW t \in Targets, RemoveClientTransaction(t)
      PROVE  RInv'
  <2>1. Quiet(ctx, ctx')
    BY <1>1, <1>8 DEF RemoveClientTransaction, Context, Quiet, Ranked
  <2> QED BY <1>3, <2>1, QuietRings
<1> QED BY <1>5, <1>6, <1>7, <1>8

LEMMA BranchAnswersRings ==
  ASSUME IInv, RInv, ~ctx.garbage, NEW t \in Targets, BranchAnswers(t)
  PROVE  RInv'
<1>1. ctx \in Context /\ Good(ctx) /\ Agree(ctx) /\ seen \in SUBSET Codes
      /\ reply \in [Targets -> {"none", "final", "ok"}]
  BY DEF IInv, Good, TypeOK
<1>2. CASE UnforwardableResponse(t)
  <2>1. /\ ctx' = Terminate(ctx, t) /\ t \in ctx.actv
        /\ reply' = [reply EXCEPT ![t] = "final"] /\ seen' = seen
    BY <1>2 DEF UnforwardableResponse
  <2>2. Quiet(ctx, ctx') BY <1>1, <2>1, SettingsQuiet
  <2>3. \A u \in Targets : reply'[u] # "none" => reply[u] # "none" \/ u \in ctx.actv
    BY <1>1, <2>1
  <2> QED BY <2>1, <2>2, <2>3, QuietRings
<1>3. ASSUME NEW code \in Codes, NEW B \in SUBSET Targets,
             RedirectEaten(t, code, B)
      PROVE  RInv'
  <2> DEFINE c == IF ctx.final THEN ctx ELSE AddCandidates(ctx, B)
  <2>1. /\ ctx' = Terminate(c, t) /\ t \in ctx.actv
        /\ reply' = [reply EXCEPT ![t] = "final"] /\ seen' = seen
        /\ \A u \in B : ctx.status[u] = "none"
    BY <1>3 DEF RedirectEaten, Fresh
  <2>2. Quiet(ctx, c) BY <1>1, SettingsQuiet
  <2>3. c \in Context
    BY <1>1, <2>1, AddCandidatesFollows DEF Follows, Good
  <2> HIDE DEF c
  <2>4. Quiet(ctx, ctx') BY <2>1, <2>2, <2>3, SettingsQuiet, QuietTrans
  <2>5. \A u \in Targets : reply'[u] # "none" => reply[u] # "none" \/ u \in ctx.actv
    BY <1>1, <2>1
  <2> QED BY <2>1, <2>4, <2>5, QuietRings
<1>4. ASSUME NEW code \in Codes, FinalResponse(t, code)
      PROVE  RInv'
  <2>1. /\ ctx' = ProcessFinal(ctx, t, code) /\ code >= 200
        /\ CanAnswer(t, code)
        /\ reply' = [reply EXCEPT ![t] =
                       IF IsInvite /\ IsOk(code) THEN "ok" ELSE "final"]
        /\ seen' = IF t \in ctx.actv /\ ~ctx.final /\ ~IsOk(code)
                   THEN seen \cup {code} ELSE seen
    BY <1>4 DEF FinalResponse
  <2>2. /\ ctx'.actv \subseteq ctx.actv /\ ctx'.tried = ctx.tried
        /\ Best(ctx', seen')
    BY <1>1, <2>1, ProcessFinalBest DEF RInv
  <2>3. reply[t] # "none" \/ t \in ctx.actv BY <2>1 DEF CanAnswer
  <2>4. \A u \in Targets : reply'[u] # "none" => reply[u] # "none" \/ u \in ctx.actv
    BY <1>1, <2>1, <2>3
  <2> QED BY <2>2, <2>4, NoRingStep
<1> QED BY <1>2, <1>3, <1>4 DEF BranchAnswers

LEMMA RInvAlways == Spec => []RInv
<1>1. Init => RInv
  BY DEF Init, RInv, Begun, ForkOnce, Best
<1>2. IInv /\ RInv /\ [Next]_vars => RInv'
  <2>1. ASSUME RInv, UNCHANGED vars PROVE RInv'
    BY <2>1 DEF RInv, Begun, ForkOnce, Best, vars
  <2> QED BY <2>1, ChainStepRings, OtherStepRings, BranchAnswersRings DEF Next
<1> QED BY <1>1, <1>2, IInvAlways, PTL DEF Spec

(* No contact is rung twice, whatever the targets, contacts and events.    *)
THEOREM RungOnce == Spec => []ForkOnce
<1>1. RInv => ForkOnce BY DEF RInv
<1> QED BY <1>1, RInvAlways, PTL

(* The response kept is the best one, for any status codes.                *)
THEOREM KeepsTheBest == Spec => []BestIsBest
<1>1. RInv => BestIsBest
  BY DEF RInv, Best, BestIsBest, Rank
<1> QED BY <1>1, RInvAlways, PTL

(* An empty message goes upstream only if no response was compared.        *)
THEOREM EmptyIsUncompared == Spec => []EmptyOnlyUncompared
<1>1. RInv => EmptyOnlyUncompared BY DEF RInv, Best, EmptyOnlyUncompared
<1> QED BY <1>1, RInvAlways, PTL

-----------------------------------------------------------------------------
(* The context as one forked request.  Hushes(c, d): d asks no branch that *)
(* c did not, and of the branches it still awaits only those of an INVITE  *)
(* may have been called off.                                               *)

Rings(c) == {t \in Targets : c.status[t] = "Started"}

Hushes(c, d) ==
  /\ d.actv \subseteq c.actv
  /\ Rings(d) \subseteq Rings(c)
  /\ ~IsInvite => Rings(c) \cap d.actv \subseteq Rings(d)

VerdictOf(c) ==
  CASE c.rejections = 0 /\ ~c.accepted -> "none"
    [] c.rejections = 0 /\ c.accepted  -> "accepted"
    [] c.rejections = 1 /\ ~c.accepted -> "rejected"
    [] OTHER                           -> "contradictory"

(* The response kept until the final one is no 2xx: it would be forwarded  *)
(* as an acceptance when all branches have failed.                         *)
KeepsNoOk(c) == c.final \/ ~IsOk(c.bestCode)

LEMMA HushesTrans ==
  ASSUME NEW c, NEW d, NEW e, Hushes(c, d), Hushes(d, e)
  PROVE  Hushes(c, e)
BY DEF Hushes

LEMMA SameVerdict ==
  ASSUME NEW c \in Context, NEW d \in Context, SameAnswer(c, d)
  PROVE  VerdictOf(d) = VerdictOf(c)
BY DEF SameAnswer, VerdictOf

LEMMA QuietKeepsNoOk ==
  ASSUME NEW c, NEW d, KeepsNoOk(c), Ranked(c, d)
  PROVE  KeepsNoOk(d)
BY DEF KeepsNoOk, Ranked

LEMMA ClearCandidatesHushes ==
  ASSUME NEW c \in Context, Agree(c)
  PROVE  Hushes(c, ClearCandidates(c)) /\ Rings(ClearCandidates(c)) = Rings(c)
<1> DEFINE d == ClearCandidates(c)
<1>1. c.status \in [Targets -> Statuses] BY DEF Context
<1>2. d.actv = c.actv /\ d.status = Cancel(c.status, c.cand)
  BY DEF Context, ClearCandidates
<1>3. \A t \in Targets : d.status[t] = "Started" <=> c.status[t] = "Started"
  BY <1>1, <1>2, CancelStatus DEF Agree
<1> QED BY <1>2, <1>3 DEF Hushes, Rings

LEMMA CancelHushes ==
  ASSUME NEW c \in Context, Agree(c), IsInvite, NEW B \in SUBSET c.actv
  PROVE  Hushes(c, [c EXCEPT !.status = Cancel(@, B)])
<1> DEFINE d == [c EXCEPT !.status = Cancel(@, B)]
<1>1. c.status \in [Targets -> Statuses] BY DEF Context
<1>2. d.actv = c.actv /\ d.status = Cancel(c.status, B) BY DEF Context
<1>3. \A t \in Targets : d.status[t] = "Started" => c.status[t] = "Started"
  BY <1>1, <1>2, CancelStatus
<1> QED BY <1>2, <1>3 DEF Hushes, Rings

LEMMA CancelAllHushes ==
  ASSUME NEW c \in Context, Agree(c)
  PROVE  Hushes(c, CancelAll(c))
<1>1. CASE ~IsInvite
  <2>1. c = [c EXCEPT !.status = c.status] BY DEF Context
  <2>2. CancelAll(c) = ClearCandidates(c) BY <1>1, <2>1 DEF CancelAll
  <2> QED BY <2>2, ClearCandidatesHushes
<1>2. CASE IsInvite
  <2> DEFINE d == [c EXCEPT !.status = Cancel(@, c.actv)]
  <2>1. CancelAll(c) = ClearCandidates(d) BY <1>2 DEF CancelAll
  <2>2. Hushes(c, d) /\ Settles(c, d) BY <1>2, CancelHushes, CancelSettles
  <2> HIDE DEF d
  <2>3. Hushes(d, ClearCandidates(d)) BY <2>2, ClearCandidatesHushes DEF Settles
  <2> QED BY <2>1, <2>2, <2>3, HushesTrans
<1> QED BY <1>1, <1>2

LEMMA TerminateHushes ==
  ASSUME NEW c \in Context, Agree(c), NEW t \in Targets
  PROVE  Hushes(c, Terminate(c, t))
<1> DEFINE d == Terminate(c, t)
<1>1. CASE t \notin c.actv \cup c.cand
  BY <1>1 DEF Terminate, Hushes
<1>2. CASE t \in c.actv \cup c.cand
  <2>1. /\ d.actv = c.actv \ {t}
        /\ d.status = [c.status EXCEPT ![t] = "Terminated"]
    BY <1>2 DEF Terminate, Context
  <2>2. \A u \in Targets :
          d.status[u] = IF u = t THEN "Terminated" ELSE c.status[u]
    BY <2>1 DEF Context
  <2> HIDE DEF d
  <2> QED BY <2>1, <2>2 DEF Hushes, Rings, d
<1> QED BY <1>1, <1>2

LEMMA AddCandidatesHushes ==
  ASSUME NEW c \in Context, NEW B \in SUBSET Targets,
         \A t \in B : c.status[t] = "none"
  PROVE  Hushes(c, AddCandidates(c, B))
<1> DEFINE d == AddCandidates(c, B)
<1>1. d.actv = c.actv BY DEF AddCandidates, Context
<1>2. \A t \in Targets :
        d.status[t] = IF t \in B THEN "Candidate" ELSE c.status[t]
  BY DEF AddCandidates, Context
<1> HIDE DEF d
<1> QED BY <1>1, <1>2 DEF Hushes, Rings, d

LEMMA SkipHushes ==
  ASSUME NEW c \in Context, Agree(c), NEW B \in SUBSET c.cand
  PROVE  Hushes(c, Skip(c, B)) /\ Rings(Skip(c, B)) = Rings(c)
<1> DEFINE d == Skip(c, B)
<1>1. d.actv = c.actv BY DEF Skip, Context
<1>2. \A t \in Targets :
        d.status[t] = IF t \in B THEN "Terminated" ELSE c.status[t]
  BY DEF Skip, Context
<1>3. \A t \in B : c.status[t] = "Candidate" BY DEF Agree, Context
<1> HIDE DEF d
<1> QED BY <1>1, <1>2, <1>3 DEF Hushes, Rings, d

(* The same branches, whatever was noted of the responses.                 *)
LEMMA SameBranchesHush ==
  ASSUME NEW c, NEW d, d.actv = c.actv, d.status = c.status
  PROVE  Hushes(c, d) /\ Rings(d) = Rings(c)
BY DEF Hushes, Rings

LEMMA SendBranches ==
  ASSUME NEW c \in Context, NEW code
  PROVE  Send(c, code).actv = c.actv /\ Send(c, code).status = c.status
BY DEF Send, Context

(* What goes upstream is the verdict.                                      *)
LEMMA SendVerdict ==
  ASSUME NEW c, Good(c), NEW code, c.rejections = 0, ~IsOk(code) => ~c.final
  PROVE  VerdictOf(Send(c, code)) = IF IsOk(code) THEN "accepted" ELSE "rejected"
<1> DEFINE d == Send(c, code)
<1>1. c \in Context /\ (~c.final => ~c.accepted) BY DEF Good, Told
<1> DEFINE a == c.accepted \/ IsOk(code)
           n == IF IsOk(code) THEN c.rejections ELSE c.rejections + 1
<1>5. a \in BOOLEAN /\ n \in Nat BY <1>1 DEF Context, IsOk
<1>6. d = [c EXCEPT !.final = TRUE, !.accepted = a, !.rejections = n]
  BY DEF Send
<1>7. (a <=> c.accepted \/ IsOk(code))
      /\ n = IF IsOk(code) THEN c.rejections ELSE c.rejections + 1
  OBVIOUS
<1> HIDE DEF a, n
<1>8. (d.accepted <=> a) /\ d.rejections = n
  BY <1>1, <1>5, <1>6 DEF Context
<1>2. /\ d.accepted <=> (c.accepted \/ IsOk(code))
      /\ d.rejections = IF IsOk(code) THEN c.rejections ELSE c.rejections + 1
  BY <1>7, <1>8
<1> HIDE DEF d
<1>3. CASE IsOk(code) BY <1>2, <1>3 DEF VerdictOf, d
<1>4. CASE ~IsOk(code) BY <1>1, <1>2, <1>4 DEF VerdictOf, d
<1> QED BY <1>3, <1>4

LEMMA SendForked ==
  ASSUME NEW c, Good(c), NEW code, c.rejections = 0, ~IsOk(code) => ~c.final
  PROVE  LET d == Send(c, code)
         IN /\ d.actv = c.actv /\ Hushes(c, d)
            /\ VerdictOf(d) = IF IsOk(code) THEN "accepted" ELSE "rejected"
<1>1. c \in Context BY DEF Good
<1>2. Send(c, code).actv = c.actv /\ Send(c, code).status = c.status
  BY <1>1, SendBranches
<1>3. Hushes(c, Send(c, code)) BY <1>2, SameBranchesHush
<1> QED BY <1>2, <1>3, SendVerdict

(* When no branch is awaited, the best response is a rejection.            *)
LEMMA ForwardBestForked ==
  ASSUME NEW c, Good(c), KeepsNoOk(c), ~c.final, c.actv = {}
  PROVE  LET e == ForwardBest(c)
         IN /\ e.actv = {} /\ Hushes(c, e)
            /\ VerdictOf(e) \in {VerdictOf(c), "rejected"}
<1> DEFINE d    == IF IsInvite THEN CancelActive(ClearCandidates(c))
                               ELSE ClearCandidates(c)
           code == ForwardedCode(c.bestCode)
           b    == [d EXCEPT !.bestCode = code]
           e    == ForwardBest(c)
           f    == ClearCandidates(c)
<1>1. c \in Context /\ Agree(c) BY DEF Good
<1>2. Settles(c, f) /\ Hushes(c, f)
  BY <1>1, ClearCandidatesSettles, ClearCandidatesHushes
<1>3. Settles(c, d) /\ Hushes(c, d)
  <2> HIDE DEF f
  <2>1. f \in Context /\ Agree(f) BY <1>2 DEF Settles
  <2>2. Settles(f, CancelActive(f)) BY <2>1, CancelActiveSettles
  <2>3. IsInvite => Hushes(f, CancelActive(f))
    <3>1. CASE f.final BY <3>1 DEF CancelActive, Hushes
    <3>2. CASE ~f.final BY <2>1, <3>2, CancelHushes DEF CancelActive
    <3> QED BY <3>1, <3>2
  <2>4. d = IF IsInvite THEN CancelActive(f) ELSE f BY DEF f
  <2> HIDE DEF d
  <2> QED BY <1>2, <2>2, <2>3, <2>4, SettlesTrans, HushesTrans
<1>4. e = CASE code = 0                -> [d EXCEPT !.garbage = TRUE]
            [] code = 408 /\ ~IsInvite -> [d EXCEPT !.abandoned = TRUE]
            [] OTHER                   -> Send(b, code)
  BY Zenon DEF ForwardBest
<1>5. ~IsOk(code) /\ code \in Codes \cup {0, 300, 407, 480}
  BY <1>1 DEF KeepsNoOk, ForwardedCode, IsOk, Context
<1> HIDE DEF d, code, e, f
<1>6. d \in Context /\ Agree(d) /\ Good(d) /\ ~d.final /\ d.actv = {}
  BY <1>3, SettlesFollows DEF Settles, Follows, SameAnswer
<1>7. VerdictOf(d) = VerdictOf(c)
  BY <1>1, <1>3, <1>6, SameVerdict DEF Settles
<1>8. CASE e = [d EXCEPT !.garbage = TRUE] \/ e = [d EXCEPT !.abandoned = TRUE]
  <2>1. Settles(d, e) BY <1>6, <1>8, FlagSettles
  <2>2. e.actv = d.actv /\ e.status = d.status BY <1>6, <1>8 DEF Context
  <2>3. VerdictOf(e) = VerdictOf(d)
    BY <1>6, <2>1, SameVerdict DEF Settles
  <2>4. Hushes(d, e) BY <2>2, SameBranchesHush
  <2>5. Hushes(c, e) BY <1>3, <2>4, HushesTrans
  <2> QED BY <1>6, <1>7, <2>2, <2>3, <2>5 DEF e
<1>9. CASE e = Send(b, code)
  <2>1. 0 \in Priorities BY DEF Priorities
  <2>2. Settles(d, b) BY <1>5, <1>6, <2>1, BestSettles
  <2>3. b.actv = d.actv /\ b.status = d.status BY <1>6 DEF Context
  <2> HIDE DEF b
  <2>4. Hushes(d, b) BY <2>3, SameBranchesHush
  <2>5. Good(b) /\ ~b.final /\ b.rejections = 0
    BY <1>6, <2>2, SettlesFollows DEF Settles, Follows, SameAnswer, Good, Told
  <2>6. e.actv = b.actv /\ Hushes(b, e) /\ VerdictOf(e) = "rejected"
    BY <1>5, <1>9, <2>5, SendForked
  <2>7. Hushes(c, e) BY <1>3, <2>4, <2>6, HushesTrans
  <2> QED BY <1>6, <2>3, <2>6, <2>7 DEF e
<1> QED BY <1>4, <1>8, <1>9

(* A 2xx decides; it leaves another verdict as it is.                      *)
LEMMA AcceptForked ==
  ASSUME NEW c, Good(c), NEW code \in Codes, IsOk(code), c.rejections = 0
  PROVE  LET e == Accept(c, code)
         IN /\ e.actv = c.actv /\ Hushes(c, e)
            /\ VerdictOf(e) = "accepted" \/ e = c
            /\ e.final
<1> DEFINE d == IF IsInvite THEN CancelAll(c) ELSE ClearCandidates(c)
           b == [d EXCEPT !.bestCode = code]
           e == Accept(c, code)
<1>1. c \in Context /\ Agree(c) BY DEF Good
<1>2. Settles(c, d) /\ Hushes(c, d)
  BY <1>1, CancelAllSettles, ClearCandidatesSettles, CancelAllHushes,
     ClearCandidatesHushes
<1>3. e = Send(b, code) \/ (c.final /\ e = c) BY Zenon DEF Accept
<1> HIDE DEF d, e
<1>4. d \in Context /\ Agree(d) /\ d.actv = c.actv BY <1>2 DEF Settles
<1>5. CASE e = Send(b, code)
  <2>1. 0 \in Priorities BY DEF Priorities
  <2>2. Settles(d, b) BY <1>4, <2>1, BestSettles
  <2>3. b.actv = d.actv /\ b.status = d.status BY <1>4 DEF Context
  <2> HIDE DEF b
  <2>4. Settles(c, b) BY <1>2, <2>2, SettlesTrans
  <2>5. Good(b) /\ b.rejections = 0
    BY <2>4, SettlesFollows DEF Settles, Follows, SameAnswer
  <2>6. e.actv = b.actv /\ Hushes(b, e) /\ VerdictOf(e) = "accepted"
    BY <1>5, <2>5, SendForked
  <2>7. Hushes(d, b) BY <2>3, SameBranchesHush
  <2>8. Hushes(c, e) BY <1>2, <2>6, <2>7, HushesTrans
  <2>9. e.final
    <3>1. b \in Context BY <2>5 DEF Good
    <3> QED BY <1>5, <3>1 DEF Send, Context
  <2> QED BY <1>4, <2>3, <2>6, <2>8, <2>9 DEF e
<1>6. CASE c.final /\ e = c BY <1>6 DEF Hushes, e
<1> QED BY <1>3, <1>5, <1>6

(* A final response of an awaited branch ends it, and may be the verdict.  *)
LEMMA ProcessFinalForked ==
  ASSUME NEW c, Good(c), KeepsNoOk(c), NEW t \in c.actv,
         NEW code \in Codes, code >= 200
  PROVE  LET e == ProcessFinal(c, t, code)
         IN /\ e.actv = c.actv \ {t} /\ Hushes(c, e) /\ KeepsNoOk(e)
            /\ \/ VerdictOf(e) = VerdictOf(c)
               \/ VerdictOf(c) = "none" /\ VerdictOf(e) = "accepted" /\ e.final
               \/ VerdictOf(c) = "none" /\ VerdictOf(e) = "rejected" /\ e.actv = {}
<1> DEFINE d == Terminate(c, t)
           g == TakeGlobalFailure(d, code)
           e == ProcessFinal(c, t, code)
<1>1. c \in Context /\ Agree(c) /\ t \in Targets BY DEF Good, Context
<1>2. /\ Good(d) /\ SameAnswer(c, d) /\ d.actv = c.actv \ {t}
      /\ Hushes(c, d) /\ Ranked(c, d)
  BY <1>1, TerminateFollows, TerminateHushes, SettingsQuiet DEF Follows, Quiet
<1>3. VerdictOf(d) = VerdictOf(c) /\ KeepsNoOk(d)
  BY <1>1, <1>2, SameVerdict, QuietKeepsNoOk DEF Good
<1>4. c.rejections = 0 /\ d.rejections = 0
      /\ (~c.final => VerdictOf(c) = "none")
      /\ VerdictOf(c) \in {"none", "accepted"}
  BY <1>2 DEF Good, Told, SameAnswer, VerdictOf
<1>5. code \in 100 .. 699 BY TargetsAssumption
<1>6. CASE IsOk(code)
  <2>0. code \notin 300 .. 599 BY <1>6 DEF IsOk
  <2>1. e = Accept(d, code) BY <1>6, <2>0, Zenon DEF ProcessFinal
  <2> HIDE DEF d, e
  <2>2. e.actv = d.actv /\ Hushes(d, e) /\ e.final
        /\ (VerdictOf(e) = "accepted" \/ e = d)
    BY <1>2, <1>4, <1>6, <2>1, AcceptForked
  <2>3. Hushes(c, e) BY <1>2, <2>2, HushesTrans
  <2> QED BY <1>2, <1>3, <1>4, <2>2, <2>3 DEF KeepsNoOk, e
<1>7. CASE ~IsOk(code) /\ c.final
  <2>1. e = d BY <1>7 DEF ProcessFinal
  <2> QED BY <1>2, <1>3, <2>1
<1>8. CASE ~IsOk(code) /\ ~c.final
  <2>1. \E f \in {Compare(d, code), g} : e = ForwardIfAllTerminated(f)
    BY <1>8 DEF ProcessFinal
  <2> HIDE DEF d, e, g
  <2>2. PICK f \in {Compare(d, code), g} : e = ForwardIfAllTerminated(f)
    BY <2>1
  <2>3. d \in Context /\ Agree(d) /\ ~d.final
    BY <1>2, <1>8 DEF Good, SameAnswer
  <2>4. Settles(d, f) BY <2>3, CompareSettles, TakeGlobalFailureSettles DEF g
  <2>5. Hushes(d, f)
    <3>1. Hushes(d, Compare(d, code))
      <4>1. Compare(d, code).actv = d.actv /\ Compare(d, code).status = d.status
        BY <2>3 DEF Compare, Context
      <4> QED BY <4>1, SameBranchesHush
    <3>2. Hushes(d, g)
      <4> DEFINE h == [d EXCEPT !.bestCode = code, !.bestPriority = 0]
      <4>1. h.actv = d.actv /\ h.status = d.status BY <2>3 DEF Context
      <4>2. Settles(d, h)
        <5>1. 0 \in Priorities BY DEF Priorities
        <5> QED BY <2>3, <5>1, BestSettles
      <4>3. g \in {d, h, CancelAll(h)} BY DEF g, TakeGlobalFailure
      <4> HIDE DEF h
      <4>4. Hushes(d, h) BY <4>1, SameBranchesHush
      <4>5. Hushes(h, CancelAll(h)) BY <4>2, CancelAllHushes DEF Settles
      <4>6. Hushes(d, d) BY DEF Hushes
      <4> QED BY <4>3, <4>4, <4>5, <4>6, HushesTrans
    <3> QED BY <3>1, <3>2
  <2>6. KeepsNoOk(f)
    <3>1. ~IsOk(407) /\ ~IsOk(300) /\ ~IsOk(d.bestCode)
      BY <1>3, <2>3 DEF KeepsNoOk, IsOk
    <3>2. Compare(d, code).bestCode \in {d.bestCode, code, 407, 300}
      BY <2>3 DEF Compare, Context
    <3>3. g.bestCode \in {d.bestCode, code}
      <4> DEFINE h == [d EXCEPT !.bestCode = code, !.bestPriority = 0]
      <4>1. h.bestCode = code /\ ~h.final BY <2>3 DEF Context
      <4>2. h \in Context
        <5>1. 0 \in Priorities BY DEF Priorities
        <5> QED BY <2>3, <5>1, BestSettles DEF Settles
      <4>3. g \in {d, h, CancelAll(h)} BY DEF g, TakeGlobalFailure
      <4> HIDE DEF h
      <4>4. CancelAll(h).bestCode = h.bestCode
        BY <4>2 DEF CancelAll, ClearCandidates, Context
      <4> QED BY <4>1, <4>3, <4>4
    <3> QED BY <1>8, <3>1, <3>2, <3>3 DEF KeepsNoOk
  <2>7. Good(f) /\ ~f.final /\ f.actv = d.actv /\ VerdictOf(f) = VerdictOf(d)
    <3>1. Good(f) BY <1>2, <2>4, SettlesFollows DEF Follows
    <3>2. VerdictOf(f) = VerdictOf(d)
      BY <2>3, <2>4, <3>1, SameVerdict DEF Settles, Good
    <3> QED BY <2>3, <2>4, <3>1, <3>2 DEF Settles, SameAnswer
  <2>8. CASE f.cand = {} /\ f.actv = {}
    <3>1. e = ForwardBest(f) BY <2>2, <2>8 DEF ForwardIfAllTerminated
    <3>2. e.actv = {} /\ Hushes(f, e) /\ VerdictOf(e) \in {VerdictOf(f), "rejected"}
      BY <2>6, <2>7, <2>8, <3>1, ForwardBestForked
    <3>3. KeepsNoOk(e)
      BY <2>6, <2>7, <3>1, ForwardBestQuiet, QuietKeepsNoOk DEF Quiet
    <3>4. Hushes(d, e) BY <2>5, <3>2, HushesTrans
    <3>5. Hushes(c, e) BY <1>2, <3>4, HushesTrans
    <3> QED BY <1>2, <1>3, <1>4, <1>8, <2>7, <2>8, <3>2, <3>3, <3>5 DEF e
  <2>9. CASE ~(f.cand = {} /\ f.actv = {})
    <3>1. e = f BY <2>2, <2>9 DEF ForwardIfAllTerminated
    <3>2. Hushes(c, f) BY <1>2, <2>5, HushesTrans
    <3> QED BY <1>2, <1>3, <2>6, <2>7, <3>1, <3>2 DEF e
  <2> QED BY <2>8, <2>9
<1> QED BY <1>6, <1>7, <1>8

-----------------------------------------------------------------------------
(* Each step of the context is a step of the forked request.               *)

FInv == KeepsNoOk(ctx)

LEMMA MappedState ==
  /\ Verdict = VerdictOf(ctx) /\ Verdict' = VerdictOf(ctx')
  /\ Ringing = Rings(ctx) /\ Ringing' = Rings(ctx')
BY DEF Verdict, VerdictOf, Ringing, Rings

ForkStep == Fork!Next \/ UNCHANGED Fork!vars

(* Branches of an INVITE are called off, or none.                          *)
LEMMA CallOffStep ==
  ASSUME Good(ctx), Good(ctx'), UNCHANGED <<method, reply>>,
         ctx'.actv = ctx.actv, Hushes(ctx, ctx'), VerdictOf(ctx') = VerdictOf(ctx)
  PROVE  ForkStep
<1>1. /\ IsInvite' = IsInvite /\ Verdict' = Verdict /\ Asked' = Asked
      /\ Ringing = Rings(ctx) /\ Ringing' = Rings(ctx')
  BY MappedState DEF IsInvite, Asked, Begun
<1>2. Ringing \subseteq ctx.actv /\ Ringing \subseteq Targets
  BY <1>1 DEF Good, Agree, Rings
<1>3. Ringing' \subseteq Ringing /\ (~IsInvite => Ringing' = Ringing)
  BY <1>1, <1>2 DEF Hushes
<1>4. CASE ~IsInvite
  BY <1>1, <1>3, <1>4 DEF ForkStep, Fork!vars
<1>5. CASE IsInvite
  <2> DEFINE B == Ringing \ Ringing'
  <2>1. B \in SUBSET Targets /\ B \subseteq Ringing /\ Ringing' = Ringing \ B
    BY <1>2, <1>3
  <2> HIDE DEF B
  <2>2. Fork!CallOff(B) BY <1>1, <1>5, <2>1 DEF Fork!CallOff
  <2> QED BY <2>1, <2>2 DEF ForkStep, Fork!Next
<1> QED BY <1>4, <1>5

(* A verdict that is no acceptance, when no branch is awaited.             *)
LEMMA RejectStep ==
  ASSUME Good(ctx), Good(ctx'), UNCHANGED <<method, reply>>,
         ctx.actv = {}, ctx'.actv = {},
         VerdictOf(ctx) = "none", VerdictOf(ctx') \in {"none", "rejected"}
  PROVE  ForkStep
<1>1. /\ IsInvite' = IsInvite /\ Asked' = Asked
      /\ Verdict = "none" /\ Verdict' \in {"none", "rejected"}
      /\ Ringing = Rings(ctx) /\ Ringing' = Rings(ctx')
  BY MappedState DEF IsInvite, Asked, Begun
<1>2. Ringing = {} /\ Ringing' = {} BY <1>1 DEF Good, Agree, Rings
<1>3. CASE Verdict' = "none"
  BY <1>1, <1>2, <1>3 DEF ForkStep, Fork!vars
<1>4. CASE Verdict' = "rejected"
  <2>1. Fork!Reject BY <1>1, <1>2, <1>4 DEF Fork!Reject
  <2> QED BY <2>1 DEF ForkStep, Fork!Next
<1> QED BY <1>1, <1>3, <1>4

(* The targets of B, none of which was asked before, are begun.            *)
LEMMA AskStep ==
  ASSUME IInv, NEW c, Good(c), SameAnswer(ctx, c), c.actv = ctx.actv,
         Rings(c) = Rings(ctx), NEW B \in SUBSET Targets,
         \A t \in B : ctx.status[t] \in {"none", "Candidate"},
         ctx.final => B = {},
         ctx' = Begin(c, B), UNCHANGED <<method, reply>>, Good(ctx'),
         SameAnswer(c, ctx'), ctx'.actv = c.actv \cup B
  PROVE  ForkStep
<1>1. Good(ctx) /\ ctx \in Context /\ c \in Context /\ ctx' \in Context /\ Agree(ctx)
  BY DEF IInv, Good
<1>2. VerdictOf(c) = VerdictOf(ctx) /\ VerdictOf(ctx') = VerdictOf(c)
  BY <1>1, SameVerdict
<1>3. IsInvite' = IsInvite /\ Verdict' = Verdict /\ Verdict = VerdictOf(ctx)
      /\ Ringing = Rings(ctx) /\ Ringing' = Rings(ctx')
  BY <1>2, MappedState DEF IsInvite
<1>4. \A t \in Targets :
        ctx'.status[t] = IF t \in B THEN "Started" ELSE c.status[t]
  <2>1. ctx'.status =
          [t \in Targets |-> IF t \in B THEN "Started" ELSE c.status[t]]
    BY <1>1 DEF Begin, Context
  <2> QED BY <2>1
<1>5. Ringing' = Ringing \cup B BY <1>3, <1>4 DEF Rings
<1>6. Asked' = Asked \cup B BY DEF Asked, Begun
<1>7. CASE B = {}
  BY <1>3, <1>5, <1>6, <1>7 DEF ForkStep, Fork!vars
<1>8. CASE B # {}
  <2>1. Verdict = "none"
    BY <1>1, <1>3, <1>8 DEF Good, Told, VerdictOf
  <2>2. B \cap Asked = {}
    BY <1>1 DEF Asked, Begun, Agree, IInv, Replied
  <2>3. Fork!Ask(B) BY <1>3, <1>5, <1>6, <2>1, <2>2 DEF Fork!Ask
  <2> QED BY <2>3 DEF ForkStep, Fork!Next
<1> QED BY <1>7, <1>8

(* Branch t has its final response.                                        *)
LEMMA BranchEndsStep ==
  ASSUME IInv, NEW t \in ctx.actv, Good(ctx'), UNCHANGED method,
         NEW r, r # "none", reply' = [reply EXCEPT ![t] = r],
         ctx'.actv = ctx.actv \ {t}, Hushes(ctx, ctx'),
         \/ VerdictOf(ctx') = VerdictOf(ctx)
         \/ VerdictOf(ctx) = "none" /\ VerdictOf(ctx') = "accepted" /\ ctx'.final
         \/ VerdictOf(ctx) = "none" /\ VerdictOf(ctx') = "rejected" /\ ctx'.actv = {}
  PROVE  ForkStep
<1>1. Good(ctx) /\ Agree(ctx) /\ Agree(ctx') /\ t \in Targets
      /\ reply \in [Targets -> {"none", "final", "ok"}]
  BY DEF IInv, Good, Context, TypeOK
<1>2. IsInvite' = IsInvite /\ Verdict = VerdictOf(ctx) /\ Verdict' = VerdictOf(ctx')
      /\ Ringing = Rings(ctx) /\ Ringing' = Rings(ctx')
  BY MappedState DEF IsInvite
<1>3. Asked' = Asked BY <1>1 DEF Asked, Begun
<1>4. Ringing \subseteq ctx.actv /\ Ringing' \subseteq ctx'.actv /\ t \notin Ringing'
  BY <1>1, <1>2 DEF Agree, Rings
<1>5. Ringing' \subseteq Ringing \ {t} /\ (~IsInvite => Ringing' = Ringing \ {t})
  BY <1>2, <1>4 DEF Hushes
<1>6. CASE Verdict = "none" /\ Verdict' = "accepted" /\ ctx'.final
  <2>1. IsInvite => Ringing' = {}
    BY <1>1, <1>2, <1>4, <1>6 DEF Good, AllCancelled, Rings
  <2>2. Fork!Win(t) BY <1>2, <1>3, <1>5, <1>6, <2>1 DEF Fork!Win
  <2> QED BY <1>1, <2>2 DEF ForkStep, Fork!Next
<1>7. CASE \/ Verdict' = Verdict
           \/ Verdict = "none" /\ ctx'.actv = {} /\ Verdict' = "rejected"
  <2> DEFINE B == (Ringing \ {t}) \ Ringing'
  <2>1. /\ B \in SUBSET (Ringing \ {t}) /\ (~IsInvite => B = {})
        /\ Ringing' = (Ringing \ {t}) \ B
    BY <1>5
  <2> HIDE DEF B
  <2>2. Fork!Drop(t) BY <1>2, <1>3, <1>7, <2>1 DEF Fork!Drop
  <2> QED BY <1>1, <2>2 DEF ForkStep, Fork!Next
<1> QED BY <1>2, <1>6, <1>7

LEMMA ChainStepForked ==
  ASSUME IInv, IInv', ChainStep
  PROVE  ForkStep
<1>1. Good(ctx) /\ ctx \in Context /\ Agree(ctx) /\ Good(ctx')
  <2>1. Good(ctx)' BY DEF IInv
  <2>2. IsInvite' = IsInvite
    BY DEF ChainStep, AddTargetBatch, AddOutboundBatch, AddTargetNow,
           BeginClientTransaction, CancelClientTransaction,
           BeginClientTransactions, Unchanged, IsInvite
  <2> QED BY <2>1, <2>2 DEF IInv, Good, AllCancelled
<1>2. UNCHANGED <<method, reply>>
  BY DEF ChainStep, AddTargetBatch, AddOutboundBatch, AddTargetNow,
         BeginClientTransaction, CancelClientTransaction,
         BeginClientTransactions, Unchanged
<1>3. SameAnswer(ctx, ctx) BY DEF SameAnswer
<1>4. ASSUME NEW B \in SUBSET Targets,
             AddTargetBatch(B) \/ AddOutboundBatch(B)
      PROVE  ForkStep
  <2>1. ctx' = AddCandidates(ctx, B) /\ \A t \in B : ctx.status[t] = "none"
    BY <1>4 DEF AddTargetBatch, AddOutboundBatch, Fresh
  <2>2. SameAnswer(ctx, ctx') /\ ctx'.actv = ctx.actv /\ Hushes(ctx, ctx')
    BY <1>1, <2>1, AddCandidatesFollows, AddCandidatesHushes
  <2>3. VerdictOf(ctx') = VerdictOf(ctx) BY <1>1, <2>2, SameVerdict DEF Good
  <2> QED BY <1>1, <1>2, <2>2, <2>3, CallOffStep
<1>5. ASSUME NEW B \in SUBSET Targets, ctx' = Begin(ctx, B), ~ctx.final,
             \A t \in B : ctx.status[t] \in {"none", "Candidate"}
      PROVE  ForkStep
  <2>1. SameAnswer(ctx, ctx') /\ ctx'.actv = ctx.actv \cup B
    BY <1>1, <1>5, BeginFollows
  <2> QED BY <1>1, <1>2, <1>3, <1>5, <2>1, AskStep
<1>6. ASSUME NEW B \in SUBSET ctx.cand, ctx' = Skip(ctx, B) PROVE ForkStep
  <2>1. /\ Hushes(ctx, ctx') /\ ctx'.actv = ctx.actv
        /\ VerdictOf(ctx') = VerdictOf(ctx)
    BY <1>1, <1>6, SkipHushes, SkipFollows, SameVerdict DEF Good
  <2> QED BY <1>1, <1>2, <2>1, CallOffStep
<1>7. ASSUME NEW t \in Targets, AddTargetNow(t) PROVE ForkStep
  <2>1. ctx.status[t] = "none" /\ ~ctx.final /\ ctx' = Begin(ctx, {t})
    BY <1>7 DEF AddTargetNow, Fresh
  <2> QED BY <1>5, <2>1
<1>8. ASSUME NEW t \in Targets, BeginClientTransaction(t) PROVE ForkStep
  <2>1. t \in ctx.cand /\ ctx.status[t] = "Candidate" /\ ctx' = BeginOne(ctx, t)
    BY <1>1, <1>8 DEF BeginClientTransaction, Agree
  <2>2. CASE ctx' = Skip(ctx, {t}) BY <1>6, <2>1, <2>2
  <2>3. CASE ctx' = Begin(ctx, {t}) /\ ~ctx.final BY <1>5, <2>1, <2>3
  <2> QED BY <2>1, <2>2, <2>3 DEF BeginOne
<1>9. ASSUME NEW t \in Targets, CancelClientTransaction(t) PROVE ForkStep
  <2>1. CASE /\ IsInvite /\ t \in ctx.actv
             /\ ctx' = [ctx EXCEPT !.status = Cancel(@, {t})]
    <3>1. Settles(ctx, ctx') /\ Hushes(ctx, ctx')
      BY <1>1, <2>1, CancelSettles, CancelHushes
    <3>2. VerdictOf(ctx') = VerdictOf(ctx) /\ ctx'.actv = ctx.actv
      BY <1>1, <3>1, SameVerdict DEF Settles
    <3> QED BY <1>1, <1>2, <3>1, <3>2, CallOffStep
  <2>2. CASE /\ t \in ctx.cand
             /\ ctx' = [ctx EXCEPT !.status = Cancel(@, {t}),
                                   !.cand = @ \ {t}, !.term = @ \cup {t}]
    <3>1. Cancel(ctx.status, {t}) =
            [u \in Targets |-> IF u \in {t} THEN "Terminated" ELSE ctx.status[u]]
      BY <1>1, <2>2 DEF Cancel, Agree
    <3>2. ctx' = Skip(ctx, {t}) BY <1>1, <2>2, <3>1 DEF Skip, Context
    <3> QED BY <1>6, <2>2, <3>2
  <2> QED BY <1>9, <2>1, <2>2 DEF CancelClientTransaction
<1>10. CASE BeginClientTransactions
  <2>1. PICK B \in SUBSET ctx.cand :
          /\ ctx.final => B = {}
          /\ ctx' = Begin(Skip(ctx, ctx.cand \ B), B)
    BY <1>10 DEF BeginClientTransactions, FirstOfEachContact
  <2> DEFINE d == Skip(ctx, ctx.cand \ B)
  <2>2. /\ Follows(ctx, d) /\ SameAnswer(ctx, d)
        /\ d.cand = B /\ d.actv = ctx.actv /\ Rings(d) = Rings(ctx)
    <3>1. ctx.cand \ B \in SUBSET ctx.cand OBVIOUS
    <3>2. ctx.cand \ (ctx.cand \ B) = B BY <2>1
    <3> QED BY <1>1, <3>1, <3>2, SkipFollows, SkipHushes
  <2> HIDE DEF d
  <2>3. Good(d) /\ (d.final => B = {}) /\ B \in SUBSET Targets
        /\ (\A t \in B : d.status[t] = "Candidate")
        /\ (\A t \in B : ctx.status[t] = "Candidate")
    BY <1>1, <2>1, <2>2 DEF Follows, SameAnswer, Good, Agree, Context
  <2>4. ctx' = Begin(d, B) BY <2>1 DEF d
  <2>5. SameAnswer(d, ctx') /\ ctx'.actv = d.actv \cup B
    BY <2>3, <2>4, BeginFollows
  <2> QED BY <1>1, <1>2, <2>1, <2>2, <2>3, <2>4, <2>5, AskStep
<1> QED BY <1>4, <1>7, <1>8, <1>9, <1>10 DEF ChainStep

LEMMA OtherStepForked ==
  ASSUME IInv, IInv', FInv,
         \/ EndOfChain \/ RequestArrives \/ ForkTimer
         \/ ProcessCancel \/ ProcessTimerC
         \/ \E t \in Targets :
              \/ RemoveClientTransaction(t)
              \/ \E code \in Codes : ProvisionalResponse(t, code)
  PROVE  ForkStep
<1>1. UNCHANGED <<method, reply>>
  BY DEF EndOfChain, RejectRequest, EndRequestChain, EndTargetChain,
         TargetChainFails, EndTimedChain, RequestArrives, ForkTimer,
         ProcessCancel, ProcessTimerC, RemoveClientTransaction,
         ProvisionalResponse, Unchanged
<1>2. Good(ctx) /\ ctx \in Context /\ Agree(ctx) /\ Good(ctx')
  <2>1. Good(ctx)' BY DEF IInv
  <2>2. IsInvite' = IsInvite BY <1>1 DEF IsInvite
  <2> QED BY <2>1, <2>2 DEF IInv, Good, AllCancelled
<1>3. ~ctx.final => ctx.rejections = 0 /\ VerdictOf(ctx) = "none"
  BY <1>2 DEF Good, Told, VerdictOf
<1>4. CASE ctx' = ctx
  <2>1. Hushes(ctx, ctx') BY <1>4 DEF Hushes
  <2> QED BY <1>1, <1>2, <1>4, <2>1, CallOffStep
<1>5. ASSUME NEW c, Good(c), Settles(ctx, c), Hushes(ctx, c), NEW code, ~IsOk(code),
             ctx' = Send(c, code), ~ctx.final, ctx.actv = {}
      PROVE  ForkStep
  <2>1. c.rejections = 0 /\ ~c.final /\ c.actv = {}
    BY <1>3, <1>5 DEF Settles, SameAnswer
  <2>2. ctx'.actv = c.actv /\ VerdictOf(ctx') = "rejected"
    BY <1>5, <2>1, SendForked
  <2> QED BY <1>1, <1>2, <1>3, <1>5, <2>1, <2>2, RejectStep
<1>6. Settles(ctx, ctx) /\ Hushes(ctx, ctx) BY <1>2 DEF Settles, SameAnswer, Hushes
<1>7. /\ Settles(ctx, CancelAll(ctx)) /\ Hushes(ctx, CancelAll(ctx))
      /\ Settles(ctx, ClearCandidates(ctx)) /\ Hushes(ctx, ClearCandidates(ctx))
      /\ Good(CancelAll(ctx)) /\ Good(ClearCandidates(ctx))
  BY <1>2, CancelAllSettles, CancelAllHushes, ClearCandidatesSettles,
     ClearCandidatesHushes, SettlesFollows DEF Follows
<1>8. ASSUME NEW code \in Codes, RejectRequest(code) PROVE ForkStep
  <2>1. ~IsOk(code) /\ ~ctx.final /\ ctx.actv = {} /\ ctx' = Send(ctx, code)
    BY <1>8, TargetsAssumption DEF RejectRequest, IsOk, IInv, NothingStarted
  <2> QED BY <1>2, <1>5, <1>6, <2>1
<1>9. CASE EndRequestChain
  <2>1. ctx.actv = {} /\ ~IsOk(480) BY <1>9 DEF EndRequestChain, IInv, NothingStarted, IsOk
  <2>2. ctx' = ctx \/ (ctx' = Send(ctx, 480) /\ ~ctx.final)
    BY <1>9 DEF EndRequestChain
  <2> QED BY <1>2, <1>4, <1>5, <1>6, <2>1, <2>2
<1>10. CASE EndTargetChain
  <2>1. \/ ctx' = ctx
        \/ ctx' = Send(ctx, 500) /\ ~ctx.final /\ ctx.actv = {}
        \/ ctx' = ForwardBest(ctx) /\ ~ctx.final /\ ctx.actv = {}
    BY <1>10 DEF EndTargetChain
  <2>2. CASE ctx' = Send(ctx, 500) /\ ~ctx.final /\ ctx.actv = {}
    <3>1. ~IsOk(500) BY DEF IsOk
    <3> QED BY <1>2, <1>5, <1>6, <2>2, <3>1
  <2>3. CASE ctx' = ForwardBest(ctx) /\ ~ctx.final /\ ctx.actv = {}
    <3>1. ctx'.actv = {} /\ VerdictOf(ctx') \in {VerdictOf(ctx), "rejected"}
      BY <1>2, <2>3, ForwardBestForked DEF FInv
    <3> QED BY <1>1, <1>2, <1>3, <2>3, <3>1, RejectStep
  <2> QED BY <1>4, <2>1, <2>2, <2>3
<1>11. CASE TargetChainFails
  <2>1. \/ ctx' = ctx
        \/ ctx' = Send(ClearCandidates(ctx), 500) /\ ~ctx.final /\ ctx.actv = {}
    BY <1>11 DEF TargetChainFails
  <2>2. ~IsOk(500) BY DEF IsOk
  <2> QED BY <1>4, <1>5, <1>7, <2>1, <2>2
<1>12. CASE ProcessCancel \/ ProcessTimerC
  <2>1. \/ ctx' = ctx \/ ctx' = CancelAll(ctx)
        \/ /\ ctx' = Send(CancelAll(ctx), 487)
           /\ ~ctx.final /\ CancelAll(ctx).actv = {}
    BY <1>12 DEF ProcessCancel, ProcessTimerC
  <2>2. CASE ctx' = CancelAll(ctx)
    <3>1. ctx'.actv = ctx.actv /\ VerdictOf(ctx') = VerdictOf(ctx)
      BY <1>2, <1>7, <2>2, SameVerdict DEF Settles, Good
    <3> QED BY <1>1, <1>2, <1>7, <2>2, <3>1, CallOffStep
  <2>3. CASE /\ ctx' = Send(CancelAll(ctx), 487)
             /\ ~ctx.final /\ CancelAll(ctx).actv = {}
    <3>1. ctx.actv = {} BY <1>7, <2>3 DEF Settles
    <3>2. ~IsOk(487) BY DEF IsOk
    <3> QED BY <1>5, <1>7, <2>3, <3>1, <3>2
  <2> QED BY <1>4, <2>1, <2>2, <2>3
<1>13. ASSUME NEW t \in Targets, RemoveClientTransaction(t) PROVE ForkStep
  <2>1. t \notin ctx.actv /\ ctx.status[t] = "Terminated"
    BY <1>2, <1>13 DEF RemoveClientTransaction, IInv, Replied, Agree
  <2>2. /\ ctx'.actv = ctx.actv \ {t} /\ SameAnswer(ctx, ctx')
        /\ ctx'.status = [ctx.status EXCEPT ![t] = "gone"]
    BY <1>2, <1>13 DEF RemoveClientTransaction, Context, SameAnswer
  <2>3. \A u \in Targets : ctx'.status[u] = IF u = t THEN "gone" ELSE ctx.status[u]
    BY <1>2, <2>2 DEF Context
  <2>4. Hushes(ctx, ctx') /\ ctx'.actv = ctx.actv
    BY <2>1, <2>2, <2>3 DEF Hushes, Rings
  <2>5. VerdictOf(ctx') = VerdictOf(ctx) BY <1>2, <2>2, SameVerdict DEF Good
  <2> QED BY <1>1, <1>2, <2>4, <2>5, CallOffStep
<1>14. CASE \/ RequestArrives \/ ForkTimer \/ EndTimedChain
            \/ \E t \in Targets, code \in Codes : ProvisionalResponse(t, code)
  BY <1>4, <1>14 DEF RequestArrives, ForkTimer, EndTimedChain, ProvisionalResponse
<1> QED BY <1>8, <1>9, <1>10, <1>11, <1>12, <1>13, <1>14 DEF EndOfChain

(* A branch that answers ends, and so may the request; a 2xx that repeats  *)
(* the one of an accepted INVITE changes nothing.                          *)
LEMMA BranchAnswersForked ==
  ASSUME IInv, IInv', FInv, NEW t \in Targets, BranchAnswers(t)
  PROVE  ForkStep
<1>1. Good(ctx) /\ ctx \in Context /\ Agree(ctx) /\ Good(ctx') /\ UNCHANGED method
      /\ reply \in [Targets -> {"none", "final", "ok"}]
  <2>1. Good(ctx)' BY DEF IInv
  <2>2. UNCHANGED method
    BY DEF BranchAnswers, UnforwardableResponse, FinalResponse, RedirectEaten
  <2>3. IsInvite' = IsInvite BY <2>2 DEF IsInvite
  <2> QED BY <2>1, <2>2, <2>3 DEF IInv, Good, AllCancelled, TypeOK
<1>2. CASE UnforwardableResponse(t)
  <2>1. /\ t \in ctx.actv /\ ctx' = Terminate(ctx, t)
        /\ reply' = [reply EXCEPT ![t] = "final"]
    BY <1>2 DEF UnforwardableResponse
  <2>2. /\ Hushes(ctx, ctx') /\ ctx'.actv = ctx.actv \ {t}
        /\ VerdictOf(ctx') = VerdictOf(ctx)
    BY <1>1, <2>1, TerminateHushes, TerminateFollows, SameVerdict DEF Good
  <2> QED BY <1>1, <2>1, <2>2, BranchEndsStep
<1>3. ASSUME NEW code \in Codes, NEW B \in SUBSET Targets,
             RedirectEaten(t, code, B)
      PROVE  ForkStep
  <2> DEFINE c == IF ctx.final THEN ctx ELSE AddCandidates(ctx, B)
  <2>1. /\ t \in ctx.actv /\ ctx' = Terminate(c, t)
        /\ reply' = [reply EXCEPT ![t] = "final"]
        /\ \A u \in B : ctx.status[u] = "none"
    BY <1>3 DEF RedirectEaten, Fresh
  <2>2. Good(c) /\ c.actv = ctx.actv /\ SameAnswer(ctx, c) /\ Hushes(ctx, c)
    <3>1. CASE ctx.final BY <1>1, <3>1 DEF SameAnswer, Hushes
    <3>2. CASE ~ctx.final
      BY <1>1, <2>1, <3>2, AddCandidatesFollows, AddCandidatesHushes DEF Follows
    <3> QED BY <3>1, <3>2
  <2> HIDE DEF c
  <2>3. /\ Hushes(c, ctx') /\ ctx'.actv = ctx.actv \ {t}
        /\ VerdictOf(ctx') = VerdictOf(ctx)
    BY <1>1, <2>1, <2>2, TerminateHushes, TerminateFollows, SameVerdict DEF Good
  <2>4. Hushes(ctx, ctx') BY <2>2, <2>3, HushesTrans
  <2> QED BY <1>1, <2>1, <2>3, <2>4, BranchEndsStep
<1>4. ASSUME NEW code \in Codes, FinalResponse(t, code) PROVE ForkStep
  <2> DEFINE r == IF IsInvite /\ IsOk(code) THEN "ok" ELSE "final"
  <2>1. /\ ctx' = ProcessFinal(ctx, t, code) /\ CanAnswer(t, code)
        /\ reply' = [reply EXCEPT ![t] = r] /\ r # "none" /\ code >= 200
    BY <1>4 DEF FinalResponse
  <2>2. CASE t \in ctx.actv
    <3>1. /\ ctx'.actv = ctx.actv \ {t} /\ Hushes(ctx, ctx')
          /\ \/ VerdictOf(ctx') = VerdictOf(ctx)
             \/ VerdictOf(ctx) = "none" /\ VerdictOf(ctx') = "accepted" /\ ctx'.final
             \/ VerdictOf(ctx) = "none" /\ VerdictOf(ctx') = "rejected" /\ ctx'.actv = {}
      BY <1>1, <2>1, <2>2, ProcessFinalForked DEF FInv
    <3> HIDE DEF r
    <3> QED BY <1>1, <2>1, <2>2, <3>1, BranchEndsStep
  <2>3. CASE t \notin ctx.actv
    <3>1. IsOk(code) /\ reply[t] = "ok" /\ IsInvite /\ ctx.accepted
      BY <2>1, <2>3 DEF CanAnswer, IInv, Replied
    <3>2. ctx' = Send(ctx, code) BY <2>1, <2>3, <3>1 DEF ProcessFinal
    <3>3. ctx.rejections = 0 /\ VerdictOf(ctx) = "accepted"
      BY <1>1, <3>1 DEF Good, Told, VerdictOf
    <3>4. /\ ctx'.actv = ctx.actv /\ Hushes(ctx, ctx')
          /\ VerdictOf(ctx') = "accepted"
      BY <1>1, <3>1, <3>2, <3>3, SendForked
    <3>5. reply' = reply BY <1>1, <2>1, <3>1
    <3> QED BY <1>1, <3>3, <3>4, <3>5, CallOffStep
  <2> QED BY <2>2, <2>3
<1> QED BY <1>2, <1>3, <1>4 DEF BranchAnswers

(* Only a response that is compared changes the best one before the end.   *)
LEMMA FInvStep == IInv /\ FInv /\ [Next]_vars => FInv'
<1> SUFFICES ASSUME IInv, FInv, [Next]_vars PROVE FInv'
  OBVIOUS
<1>1. ctx \in Context /\ Good(ctx) /\ Agree(ctx) BY DEF IInv, Good
<1>2. ASSUME Ranked(ctx, ctx') PROVE FInv'
  BY <1>2, QuietKeepsNoOk DEF FInv
<1>3. ASSUME Quiet(ctx, ctx') PROVE FInv'
  BY <1>2, <1>3 DEF Quiet
<1>4. CASE UNCHANGED vars BY <1>4 DEF vars, FInv
<1>5. CASE ChainStep
  <2>1. ASSUME NEW B, ctx' = Begin(ctx, B) PROVE FInv'
    BY <1>1, <1>2, <2>1 DEF Begin, Context, Ranked
  <2>2. ASSUME NEW B \in SUBSET ctx.cand, ctx' = Skip(ctx, B) PROVE FInv'
    BY <1>1, <1>2, <2>2 DEF Skip, Context, Ranked
  <2>3. ASSUME NEW B, ctx' = AddCandidates(ctx, B) PROVE FInv'
    BY <1>1, <1>2, <2>3 DEF AddCandidates, Context, Ranked
  <2>4. ASSUME NEW t \in Targets, CancelClientTransaction(t) PROVE FInv'
    <3> DEFINE st == Cancel(ctx.status, {t})
    <3>1. \/ ctx' = [ctx EXCEPT !.status = st]
          \/ ctx' = [ctx EXCEPT !.status = st, !.cand = @ \ {t}, !.term = @ \cup {t}]
      BY <1>1, <2>4 DEF CancelClientTransaction, Context
    <3> HIDE DEF st
    <3>2. CASE ctx' = [ctx EXCEPT !.status = st]
      BY <1>1, <1>2, <3>2 DEF Context, Ranked
    <3>3. CASE ctx' = [ctx EXCEPT !.status = st, !.cand = @ \ {t}, !.term = @ \cup {t}]
      BY <1>1, <1>2, <3>3 DEF Context, Ranked
    <3> QED BY <3>1, <3>2, <3>3
  <2>5. CASE BeginClientTransactions
    <3>1. PICK B \in SUBSET ctx.cand : ctx' = Begin(Skip(ctx, ctx.cand \ B), B)
      BY <1>5, <2>5 DEF BeginClientTransactions, FirstOfEachContact
    <3> DEFINE d == Skip(ctx, ctx.cand \ B)
    <3>2. Ranked(ctx, d) /\ d \in Context
      <4>1. ctx.cand \ B \in SUBSET ctx.cand /\ ctx.cand \ B \in SUBSET Targets
        BY <1>1 DEF Context
      <4> QED BY <1>1, <4>1, SettingsQuiet, SkipFollows DEF Quiet, Follows, Good
    <3>3. ctx' = Begin(d, B) BY <3>1
    <3> HIDE DEF d
    <3>4. Ranked(d, ctx') BY <3>2, <3>3 DEF Begin, Context, Ranked
    <3> QED BY <1>2, <3>2, <3>4 DEF Ranked
  <2> QED BY <1>5, <2>1, <2>2, <2>3, <2>4, <2>5
      DEF ChainStep, AddTargetBatch, AddOutboundBatch, AddTargetNow,
          BeginClientTransaction, BeginOne
<1>6. CASE EndOfChain \/ ProcessCancel \/ ProcessTimerC
  <2>1. /\ Good(ClearCandidates(ctx)) /\ Good(CancelAll(ctx))
    BY <1>1, ClearCandidatesSettles, CancelAllSettles, SettlesFollows DEF Follows
  <2>2. \/ ctx' = ctx \/ (~ctx.final /\ ctx' = ForwardBest(ctx))
        \/ ctx' = CancelAll(ctx)
        \/ \E code, c : /\ c \in {ctx, ClearCandidates(ctx), CancelAll(ctx)}
                        /\ ctx' = Send(c, code)
    BY <1>6 DEF EndOfChain, RejectRequest, EndRequestChain, EndTargetChain,
                TargetChainFails, EndTimedChain, ProcessCancel, ProcessTimerC
  <2>3. ASSUME NEW code, NEW c \in {ctx, ClearCandidates(ctx), CancelAll(ctx)},
               ctx' = Send(c, code)
        PROVE  FInv'
    BY <1>1, <2>1, <2>3 DEF Good, Send, Context, FInv, KeepsNoOk
  <2> QED BY <1>1, <1>3, <2>2, <2>3, SettingsQuiet, ForwardBestQuiet
<1>7. ASSUME NEW t \in Targets, BranchAnswers(t) PROVE FInv'
  <2>1. CASE UnforwardableResponse(t)
    BY <1>1, <1>3, <2>1, SettingsQuiet DEF UnforwardableResponse
  <2>2. ASSUME NEW code \in Codes, NEW B \in SUBSET Targets, RedirectEaten(t, code, B)
        PROVE  FInv'
    <3> DEFINE c == IF ctx.final THEN ctx ELSE AddCandidates(ctx, B)
    <3>1. ctx' = Terminate(c, t) /\ \A u \in B : ctx.status[u] = "none"
      BY <2>2 DEF RedirectEaten, Fresh
    <3>2. Quiet(ctx, c) BY <1>1, SettingsQuiet
    <3>3. c \in Context
      BY <1>1, <3>1, AddCandidatesFollows DEF Follows, Good
    <3> HIDE DEF c
    <3>4. Quiet(ctx, ctx') BY <3>1, <3>2, <3>3, SettingsQuiet, QuietTrans
    <3> QED BY <1>3, <3>4
  <2>3. ASSUME NEW code \in Codes, FinalResponse(t, code) PROVE FInv'
    <3>1. /\ ctx' = ProcessFinal(ctx, t, code) /\ CanAnswer(t, code)
          /\ code >= 200
      BY <2>3 DEF FinalResponse
    <3>2. CASE t \in ctx.actv
      BY <1>1, <3>1, <3>2, ProcessFinalForked DEF FInv
    <3>3. CASE t \notin ctx.actv
      <4>1. ctx' = Send(ctx, code) BY <3>1, <3>3 DEF CanAnswer, ProcessFinal
      <4> QED BY <1>1, <4>1 DEF Send, Context, FInv, KeepsNoOk
    <3> QED BY <3>2, <3>3
  <2> QED BY <1>7, <2>1, <2>2, <2>3 DEF BranchAnswers
<1>8. ASSUME NEW t \in Targets, RemoveClientTransaction(t) PROVE FInv'
  BY <1>1, <1>2, <1>8 DEF RemoveClientTransaction, Context, Ranked
<1>9. CASE \/ RequestArrives \/ ForkTimer
           \/ \E t \in Targets, code \in Codes : ProvisionalResponse(t, code)
  <2>1. ctx' = ctx BY <1>9 DEF RequestArrives, ForkTimer, ProvisionalResponse
  <2> QED BY <2>1 DEF FInv
<1> QED BY <1>4, <1>5, <1>6, <1>7, <1>8, <1>9 DEF Next

(* The context is one forked request, for any targets, contacts and codes: *)
(* it asks no branch twice or after the answer, the first 2xx decides and  *)
(* silences every other phone of an INVITE, a rejection waits for the last *)
(* branch, and only an INVITE is ever cancelled.                           *)
THEOREM ImplementsForkedRequest == Spec => IsForkedRequest
<1>1. Init => FInv BY DEF Init, FInv, KeepsNoOk, IsOk
<1>2. Init => Fork!Init
  <2> SUFFICES ASSUME Init PROVE Fork!Init OBVIOUS
  <2>1. Asked = {} /\ Ringing = {} /\ ctx.actv = {}
    BY DEF Init, Asked, Begun, Ringing
  <2>2. Verdict = "none" BY DEF Init, Verdict
  <2>3. IsInvite \in BOOLEAN BY DEF IsInvite
  <2> QED BY <2>1, <2>2, <2>3 DEF Fork!Init
<1>3. IInv /\ IInv' /\ FInv /\ [Next]_vars => [Fork!Next]_(Fork!vars)
  <2> SUFFICES ASSUME IInv, IInv', FInv, [Next]_vars PROVE ForkStep
    BY DEF ForkStep
  <2>1. CASE UNCHANGED vars
    BY <2>1 DEF vars, ForkStep, Fork!vars, IsInvite, Verdict, Asked, Begun, Ringing
  <2>2. CASE Next
    BY <2>2, ChainStepForked, OtherStepForked, BranchAnswersForked DEF Next
  <2> QED BY <2>1, <2>2
<1> QED BY <1>1, <1>2, <1>3, FInvStep, IInvAlways, PTL
    DEF Spec, IsForkedRequest, Fork!Spec

-----------------------------------------------------------------------------
(* What follows from being one forked request                              *)

LEMMA ForkInitSettled == Fork!Init => Fork!Settled
BY DEF Fork!Init, Fork!Settled

LEMMA ForkNextSettled ==
  ASSUME Fork!Settled, [Fork!Next]_(Fork!vars)
  PROVE  Fork!Settled'
<1>1. CASE UNCHANGED Fork!vars BY <1>1 DEF Fork!vars, Fork!Settled
<1>2. ASSUME NEW B \in SUBSET Targets, Fork!Ask(B) PROVE Fork!Settled'
  BY <1>2 DEF Fork!Ask, Fork!Settled
<1>3. ASSUME NEW B \in SUBSET Targets, Fork!CallOff(B) PROVE Fork!Settled'
  BY <1>3 DEF Fork!CallOff, Fork!Settled
<1>4. ASSUME NEW b \in Targets, Fork!Win(b) PROVE Fork!Settled'
  BY <1>4 DEF Fork!Win, Fork!Settled
<1>5. ASSUME NEW b \in Targets, Fork!Drop(b) PROVE Fork!Settled'
  <2>1. PICK B \in SUBSET (Ringing \ {b}) : Ringing' = (Ringing \ {b}) \ B
    BY <1>5 DEF Fork!Drop
  <2> QED BY <1>5, <2>1 DEF Fork!Drop, Fork!Settled
<1>6. CASE Fork!Reject BY <1>6 DEF Fork!Reject, Fork!Settled
<1> QED BY <1>1, <1>2, <1>3, <1>4, <1>5, <1>6 DEF Fork!Next

LEMMA ForkNextFinal ==
  ASSUME Fork!Settled, Fork!Next
  PROVE  /\ Verdict # "none" => Verdict' = Verdict /\ Asked' = Asked
         /\ Asked \subseteq Asked'
         /\ Ringing' \cap Asked \subseteq Ringing
<1>1. ASSUME NEW B \in SUBSET Targets, Fork!Ask(B) \/ Fork!CallOff(B)
      PROVE  /\ Verdict # "none" => Verdict' = Verdict /\ Asked' = Asked
             /\ Asked \subseteq Asked'
             /\ Ringing' \cap Asked \subseteq Ringing
  BY <1>1 DEF Fork!Ask, Fork!CallOff
<1>2. ASSUME NEW b \in Targets, Fork!Win(b) \/ Fork!Drop(b)
      PROVE  /\ Verdict # "none" => Verdict' = Verdict /\ Asked' = Asked
             /\ Asked \subseteq Asked'
             /\ Ringing' \cap Asked \subseteq Ringing
  BY <1>2 DEF Fork!Win, Fork!Drop
<1> QED BY <1>1, <1>2 DEF Fork!Next, Fork!Reject

(* For any targets, contacts and codes: only branches that were asked are  *)
(* active, an accepted INVITE rings nowhere, and the caller is told no     *)
(* only when no branch is active that could still say yes.                 *)
THEOREM RejectedWhenNobodyIsLeft == Spec => []Fork!Settled
<1>1. Spec => Fork!Spec BY ImplementsForkedRequest DEF IsForkedRequest
<1>2. Fork!Spec => []Fork!Settled
  BY ForkInitSettled, ForkNextSettled, PTL DEF Fork!Spec
<1> QED BY <1>1, <1>2

(* For any targets, contacts and codes: what the caller was told is never  *)
(* taken back, no branch is begun after it, and a branch that was called   *)
(* off never rings again.                                                  *)
THEOREM VerdictIsFinal == Spec => Fork!Final
<1>1. Spec => Fork!Spec BY ImplementsForkedRequest DEF IsForkedRequest
<1>2. Fork!Settled /\ [Fork!Next]_(Fork!vars) =>
        [/\ Verdict # "none" => Verdict' = Verdict /\ Asked' = Asked
         /\ Asked \subseteq Asked'
         /\ Ringing' \cap Asked \subseteq Ringing]_(Fork!vars)
  BY ForkNextFinal
<1>3. Fork!Spec => Fork!Final
  BY <1>2, ForkInitSettled, ForkNextSettled, PTL DEF Fork!Spec, Fork!Final
<1> QED BY <1>1, <1>3

-----------------------------------------------------------------------------
(* The answers that are left                                               *)

Unasked == Targets \ Asked

LEMMA LeftTypes ==
  ASSUME IsFiniteSet(Targets), Fork!Settled
  PROVE  /\ IsFiniteSet(Unasked) /\ Cardinality(Unasked) \in Nat
         /\ IsFiniteSet(ctx.actv) /\ Cardinality(ctx.actv) \in Nat
         /\ ctx.actv \subseteq Targets
         /\ AnswersLeft = 2 * Cardinality(Unasked) + Cardinality(ctx.actv)
<1>1. ctx.actv \subseteq Targets BY DEF Fork!Settled, Asked
<1>2. IsFiniteSet(ctx.actv) BY <1>1, FS_Subset
<1>3. IsFiniteSet(Unasked) BY FS_Subset DEF Unasked
<1> QED BY <1>1, <1>2, <1>3, FS_CardinalityType DEF AnswersLeft, Unasked

LEMMA LeftSum ==
  ASSUME NEW u \in Nat, NEW v \in Nat, NEW n \in Nat, NEW a \in Nat,
         NEW b \in Nat, u = v + n, b <= a + n
  PROVE  /\ 2 * v + b <= 2 * u + a
         /\ n # 0 => 2 * v + b < 2 * u + a
OBVIOUS

(* Who is asked is one of those who can still be asked.                    *)
LEMMA AskLeavesLess ==
  ASSUME IsFiniteSet(Targets), Fork!Settled, Fork!Settled',
         NEW B \in SUBSET Targets, Fork!Ask(B)
  PROVE  /\ AnswersLeft' <= AnswersLeft
         /\ ctx.actv' # ctx.actv => AnswersLeft' < AnswersLeft
<1>1. /\ B \cap Asked = {} /\ Asked' = Asked \cup B
      /\ ctx.actv' = ctx.actv \cup B
  BY DEF Fork!Ask
<1>2. IsFiniteSet(B) /\ Cardinality(B) \in Nat BY FS_Subset, FS_CardinalityType
<1>3. /\ Unasked = Unasked' \cup B /\ Unasked' \cap B = {} /\ Unasked' \subseteq Unasked
  BY <1>1 DEF Unasked
<1>4. IsFiniteSet(Unasked') /\ Cardinality(Unasked') \in Nat
  BY <1>3, LeftTypes, FS_Subset, FS_CardinalityType
<1>5. Cardinality(Unasked) = Cardinality(Unasked') + Cardinality(B)
  <2>1. Cardinality(Unasked)
          = Cardinality(Unasked') + Cardinality(B) - Cardinality({})
    BY <1>2, <1>3, <1>4, FS_Union
  <2> QED BY <1>2, <1>4, <2>1, FS_EmptySet
<1>6. /\ Cardinality(ctx.actv') \in Nat
      /\ Cardinality(ctx.actv') <= Cardinality(ctx.actv) + Cardinality(B)
  <2>1. /\ IsFiniteSet(ctx.actv')
        /\ Cardinality(ctx.actv') = Cardinality(ctx.actv) + Cardinality(B)
                                      - Cardinality(ctx.actv \cap B)
    BY <1>1, <1>2, LeftTypes, FS_Union
  <2>2. IsFiniteSet(ctx.actv \cap B) BY LeftTypes, FS_Subset
  <2>3. Cardinality(ctx.actv \cap B) \in Nat /\ Cardinality(ctx.actv') \in Nat
    BY <2>1, <2>2, FS_CardinalityType
  <2> QED BY <1>2, <2>1, <2>3, LeftTypes
<1>7. AnswersLeft' = 2 * Cardinality(Unasked') + Cardinality(ctx.actv')
  BY DEF AnswersLeft, Unasked
<1>8. ctx.actv' # ctx.actv => Cardinality(B) # 0
  BY <1>1, <1>2, FS_EmptySet
<1> QED BY <1>2, <1>4, <1>5, <1>6, <1>7, <1>8, LeftTypes, LeftSum

(* A branch that answers was awaited.                                      *)
LEMMA AnswerLeavesLess ==
  ASSUME IsFiniteSet(Targets), Fork!Settled,
         NEW b \in ctx.actv, ctx.actv' = ctx.actv \ {b}, Asked' = Asked
  PROVE  /\ AnswersLeft' < AnswersLeft
         /\ AnswersLeft' <= AnswersLeft
<1>1. Cardinality(ctx.actv') = Cardinality(ctx.actv) - 1
  BY LeftTypes, FS_RemoveElement
<1>2. AnswersLeft' = 2 * Cardinality(Unasked) + Cardinality(ctx.actv')
  BY DEF AnswersLeft, Unasked
<1> QED BY <1>1, <1>2, LeftTypes

LEMMA ForkLeavesLess ==
  ASSUME IsFiniteSet(Targets), Fork!Settled, Fork!Settled',
         [Fork!Next]_(Fork!vars)
  PROVE  /\ AnswersLeft' <= AnswersLeft
         /\ ctx.actv' # ctx.actv => AnswersLeft' < AnswersLeft
<1>1. AnswersLeft \in Nat BY LeftTypes
<1>2. CASE UNCHANGED <<ctx.actv, Asked>>
  BY <1>1, <1>2 DEF AnswersLeft
<1>3. ASSUME NEW B \in SUBSET Targets, Fork!Ask(B)
      PROVE  /\ AnswersLeft' <= AnswersLeft
             /\ ctx.actv' # ctx.actv => AnswersLeft' < AnswersLeft
  BY <1>3, AskLeavesLess
<1>4. ASSUME NEW b \in Targets, Fork!Win(b) \/ Fork!Drop(b)
      PROVE  /\ AnswersLeft' <= AnswersLeft
             /\ ctx.actv' # ctx.actv => AnswersLeft' < AnswersLeft
  <2>1. b \in ctx.actv /\ ctx.actv' = ctx.actv \ {b} /\ Asked' = Asked
    BY <1>4 DEF Fork!Win, Fork!Drop
  <2> QED BY <2>1, AnswerLeavesLess
<1> QED BY <1>2, <1>3, <1>4 DEF Fork!Next, Fork!CallOff, Fork!Reject, Fork!vars

(* For any finite set of targets and any contacts and codes: no event adds *)
(* to the answers a request can still get, and each final response of an   *)
(* active branch takes at least one away.                                  *)
THEOREM AnswersDoRunOut ==
  ASSUME IsFiniteSet(Targets)
  PROVE  Spec => AnswersRunOut
<1>1. Spec => Fork!Spec BY ImplementsForkedRequest DEF IsForkedRequest
<1>2. IInv' /\ Fork!Settled /\ Fork!Settled' /\ [Fork!Next]_(Fork!vars) /\ [Next]_vars =>
        [/\ AnswersLeft' <= AnswersLeft
         /\ \A t \in ctx.actv :
              reply'[t] # "none" => AnswersLeft' < AnswersLeft]_vars
  <2> SUFFICES ASSUME IInv', Fork!Settled, Fork!Settled', [Fork!Next]_(Fork!vars)
               PROVE  /\ AnswersLeft' <= AnswersLeft
                      /\ \A t \in ctx.actv :
                           reply'[t] # "none" => AnswersLeft' < AnswersLeft
    OBVIOUS
  <2>1. \A t \in Targets : reply'[t] # "none" => t \notin ctx'.actv
    BY DEF IInv, Replied, Good, Agree
  <2>2. ctx.actv \subseteq Targets BY LeftTypes
  <2> QED BY <2>1, <2>2, ForkLeavesLess
<1>3. Spec => []Fork!Settled BY RejectedWhenNobodyIsLeft
<1> QED BY <1>1, <1>2, <1>3, IInvAlways, PTL DEF Spec, Fork!Spec, AnswersRunOut
=============================================================================
