---------------------------- MODULE StoreProofs ----------------------------
(***************************************************************************)
(* What the store guarantees for every set of packages, identities and     *)
(* candidates, every bound and every order of calls.                       *)
(***************************************************************************)
EXTENDS Store, TLAPS

\* The lifecycle: from where the states of the review pipeline are entered.
LEMMA Predecessor ==
    ASSUME NEW s \in States, NEW to \in Transitions[s]
    PROVE  /\ to \in States
           /\ s # "ACCEPTED"
           /\ to = "SPEC_REVIEW" => s = "EXECUTING"
           /\ to = "CODE_REVIEW" => s = "SPEC_REVIEW"
           /\ to = "VERIFYING" => s = "CODE_REVIEW"
           /\ to = "TECH_COMPLETE" => s = "VERIFYING"
           /\ to = "ACCEPTANCE_READY" => s = "TECH_COMPLETE"
           /\ to = "ACCEPTED" => s = "ACCEPTANCE_READY"
BY DEF States, Transitions, Stop

\* A permitted transition starts from a state of the lifecycle.
LEMMA PermittedFrom ==
    ASSUME TypeOK, NEW w \in WP, NEW to, Permitted(w, to)
    PROVE  state[w] \in States /\ to \in Transitions[state[w]]
BY DEF TypeOK, Permitted, Known

\* The candidate a call is about is a candidate, or none.
LEMMA EffectiveType ==
    ASSUME TypeOK, NEW w \in WP, NEW c \in Candidate \cup {None}
    PROVE  Effective(w, c) \in Candidate \cup {None}
BY DEF TypeOK, Effective

(***************************************************************************)
(* What one call of Next is.                                               *)
(***************************************************************************)
Call(w) ==
    \/ \E ds \in Catalogue[w] : Register(w, ds)
    \/ \E c \in Candidate : SetCandidate(w, c)
    \/ \E e \in Evidence : AddEvidence(w, e)
    \/ \E s \in Severity, c \in Candidate \cup {None} : AddFinding(w, s, c)
    \/ \E c \in Candidate : SupersedeFindings(w, c)
    \/ \E to \in States, a \in Actor \cup {None}, c \in Candidate \cup {None} :
          /\ to = "EXECUTING" => a \in Actor
          /\ Transition(w, to, a, c)

\* Every step of Next is one of six calls with arguments of the right type.
LEMMA NextIsCall == Next => \E w \in WP : Call(w)
<1> SUFFICES ASSUME NEW w \in WP,
                    \/ \E ds \in Catalogue[w] : Register(w, ds)
                    \/ \E c \in Candidate : SetCandidate(w, c)
                    \/ \E c \in Candidate, v \in {"PASS", "FAIL"} :
                          \/ \E k \in Kinds : \E a \in Reviewer[k] :
                                RecordReview(w, k, c, a, v)
                          \/ \E k \in Kinds, a \in Attestor :
                                AddEvidence(w, [kind |-> k, candidate |-> c,
                                                actor |-> a, verdict |-> v])
                    \/ \E s \in Severity, c \in Candidate \cup {None} :
                          AddFinding(w, s, c)
                    \/ \E c \in Candidate : SupersedeFindings(w, c)
                    \/ \E to \in States :
                          \E a \in Signatory(to), c \in Candidate \cup {None} :
                              Transition(w, to, a, c)
             PROVE  Call(w)
  BY DEF Next
<1>1. ASSUME NEW c \in Candidate, NEW v \in {"PASS", "FAIL"}, NEW k \in Kinds,
             NEW a \in Actor,
             AddEvidence(w, [kind |-> k, candidate |-> c, actor |-> a, verdict |-> v])
      PROVE  Call(w)
  <2>1. [kind |-> k, candidate |-> c, actor |-> a, verdict |-> v] \in Evidence
    BY DEF Evidence
  <2> QED BY <2>1, <1>1 DEF Call
<1>2. ASSUME NEW c \in Candidate, NEW v \in {"PASS", "FAIL"}, NEW k \in Kinds,
             NEW a \in Reviewer[k], RecordReview(w, k, c, a, v)
      PROVE  Call(w)
  <2>1. a \in Actor  BY CallerAssumption
  <2> QED BY <2>1, <1>1, <1>2 DEF RecordReview
<1>3. ASSUME NEW c \in Candidate, NEW v \in {"PASS", "FAIL"}, NEW k \in Kinds,
             NEW a \in Attestor,
             AddEvidence(w, [kind |-> k, candidate |-> c, actor |-> a, verdict |-> v])
      PROVE  Call(w)
  <2>1. a \in Actor  BY CallerAssumption
  <2> QED BY <2>1, <1>1, <1>3
<1>4. ASSUME NEW to \in States, NEW a \in Signatory(to),
             NEW c \in Candidate \cup {None}, Transition(w, to, a, c)
      PROVE  Call(w)
  <2>1. a \in Actor \cup {None} /\ (to = "EXECUTING" => a \in Actor)
    BY CallerAssumption DEF Signatory
  <2> QED BY <2>1, <1>4 DEF Call
<1> QED BY <1>2, <1>3, <1>4 DEF Call

(***************************************************************************)
(* Types.                                                                  *)
(***************************************************************************)

LEMMA TypeOKInit == Init => TypeOK
BY DEF Init, TypeOK

LEMMA TypeOKCall ==
    ASSUME TypeOK, NEW w \in WP, Call(w)
    PROVE  TypeOK'
<1> USE DEF TypeOK
<1>1. ASSUME NEW ds \in Catalogue[w], Register(w, ds) PROVE TypeOK'
  <2>1. ds \subseteq WP  BY CallerAssumption
  <2>2. "DISCOVERED" \in States  BY DEF States
  <2> QED BY <1>1, <2>1, <2>2 DEF Register
<1>2. ASSUME NEW c \in Candidate, SetCandidate(w, c) PROVE TypeOK'
  BY <1>2 DEF SetCandidate
<1>3. ASSUME NEW e \in Evidence, AddEvidence(w, e) PROVE TypeOK'
  BY <1>3 DEF AddEvidence, rows
<1>4. ASSUME NEW s \in Severity, NEW c \in Candidate \cup {None}, AddFinding(w, s, c)
      PROVE  TypeOK'
  <2>1. [severity |-> s, candidate |-> Effective(w, c), status |-> "OPEN"] \in Finding
    BY EffectiveType DEF Finding
  <2> QED BY <1>4, <2>1 DEF AddFinding, rows
<1>5. ASSUME NEW c \in Candidate, SupersedeFindings(w, c) PROVE TypeOK'
  <2>1. \A f \in Finding : [f EXCEPT !.status = "SUPERSEDED"] \in Finding
    BY DEF Finding
  <2> QED BY <1>5, <2>1 DEF SupersedeFindings, rows
<1>6. ASSUME NEW to \in States, NEW a \in Actor \cup {None},
             NEW c \in Candidate \cup {None}, to = "EXECUTING" => a \in Actor,
             Transition(w, to, a, c)
      PROVE  TypeOK'
  <2>1. Effective(w, c) \in Candidate \cup {None}  BY EffectiveType
  <2> QED BY <1>6, <2>1 DEF Transition
<1> QED BY <1>1, <1>2, <1>3, <1>4, <1>5, <1>6 DEF Call

\* Every row holds a value its column can hold, whatever is called.
THEOREM TypeCorrect == Spec => []TypeOK
<1>1. TypeOK /\ [Next]_vars => TypeOK'
  <2>1. TypeOK /\ UNCHANGED vars => TypeOK'  BY DEF TypeOK, vars
  <2> QED BY <2>1, NextIsCall, TypeOKCall
<1> QED BY <1>1, TypeOKInit, PTL DEF Spec

(***************************************************************************)
(* Independence.  CompletionIndependent is not inductive by itself: the    *)
(* pipeline check compares identities with the producer, so a producer     *)
(* must have been recorded by the time a package can be complete.          *)
(***************************************************************************)
UnderWay == {"EXECUTING", "SPEC_REVIEW", "CODE_REVIEW", "VERIFYING"} \cup Complete

ProducerKnown == \A w \in WP : state[w] \in UnderWay => producer[w] # None

IInv == TypeOK /\ ProducerKnown /\ CompletionIndependent /\ AcceptedOnVerified

\* An answer, once recorded, stays an answer while the producer is the same.
LEMMA AnswerKept ==
    ASSUME TypeOK, NEW v \in WP, NEW w \in WP, NEW e \in Evidence, AddEvidence(w, e),
           NEW k \in Kinds, NEW c \in Candidate, NEW i \in DOMAIN evidence[v],
           IndependentPass(v, k, c, i)
    PROVE  /\ i \in DOMAIN evidence'[v]
           /\ evidence'[v][i] = evidence[v][i]
           /\ IndependentPass(v, k, c, i)'
<1>1. evidence[v] \in Seq(Evidence) /\ evidence[w] \in Seq(Evidence)  BY DEF TypeOK
<1>2. evidence' = [evidence EXCEPT ![w] = Append(@, e)]  BY DEF AddEvidence
<1>3. evidence'[v] = IF v = w THEN Append(evidence[v], e) ELSE evidence[v]
  BY <1>2 DEF TypeOK
<1>4. i \in DOMAIN evidence'[v] /\ evidence'[v][i] = evidence[v][i]
  BY <1>1, <1>3
<1>5. producer' = producer  BY DEF AddEvidence, rows
<1> QED BY <1>4, <1>5 DEF IndependentPass, Passing, Records

\* TECH_COMPLETE's check establishes independent review.
LEMMA CompleteIsReviewed ==
    ASSUME TypeOK, NEW w \in WP, NEW c \in Candidate \cup {None},
           producer[w] # None, PipelineComplete(w, c)
    PROVE  IndependentlyReviewed(w, Effective(w, c))
<1> DEFINE cand == Effective(w, c)
<1>1. cand # None  BY DEF PipelineComplete
<1>2. ASSUME NEW k \in Kinds \ {"verification"}
      PROVE  \E i \in DOMAIN evidence[w], j \in DOMAIN evidence[w] :
                 /\ IndependentPass(w, k, cand, i)
                 /\ IndependentPass(w, "verification", cand, j)
                 /\ evidence[w][i].actor # evidence[w][j].actor
  <2>1. "verification" \in Kinds /\ k \in Kinds  BY DEF Kinds
  <2>2. PICK i \in Latest(Passing(w, cand, k)),
             j \in Latest(Passing(w, cand, "verification")) :
                evidence[w][i].actor # evidence[w][j].actor
    BY <2>1 DEF PipelineComplete
  <2>3. i \in Passing(w, cand, k) /\ j \in Passing(w, cand, "verification")
    BY DEF Latest
  <2>4. i \in DOMAIN evidence[w] /\ j \in DOMAIN evidence[w]
    BY <2>3 DEF Passing, Records
  <2>5. IndependentPass(w, k, cand, i) /\ IndependentPass(w, "verification", cand, j)
    BY <2>1, <2>3 DEF PipelineComplete, IndependentPass
  <2> QED BY <2>2, <2>4, <2>5
<1> QED BY <1>1, <1>2 DEF IndependentlyReviewed

\* A call that moves no package keeps the invariant.
LEMMA StillIndependent ==
    ASSUME IInv, TypeOK',
           \A v \in WP : /\ state'[v] \in UnderWay => state'[v] = state[v]
                         /\ producer'[v] = producer[v]
                         /\ completed'[v] = completed[v]
                         /\ accepted'[v] = accepted[v],
           evidence' = evidence
    PROVE  IInv'
<1>1. ProducerKnown'  BY DEF IInv, ProducerKnown
<1>2. CompletionIndependent'
  <2> SUFFICES ASSUME NEW v \in WP, state'[v] \in Complete
               PROVE  IndependentlyReviewed(v, completed[v])'
    BY DEF CompletionIndependent
  <2>1. state[v] \in Complete  BY DEF UnderWay
  <2>2. IndependentlyReviewed(v, completed[v])
    BY <2>1 DEF IInv, CompletionIndependent
  <2> QED BY <2>2 DEF IndependentlyReviewed, IndependentPass, Passing, Records
<1>3. AcceptedOnVerified'
  BY DEF IInv, AcceptedOnVerified, UnderWay, Complete, IndependentPass, Passing, Records
<1> QED BY <1>1, <1>2, <1>3 DEF IInv

\* New evidence keeps the invariant.
LEMMA EvidenceIndependent ==
    ASSUME IInv, TypeOK', NEW w \in WP, NEW e \in Evidence, AddEvidence(w, e)
    PROVE  IInv'
<1>1. TypeOK  BY DEF IInv
<1>2. UNCHANGED rows  BY DEF AddEvidence
<1>3. ProducerKnown'  BY <1>2 DEF IInv, ProducerKnown, rows
<1>4. CompletionIndependent'
  <2> SUFFICES ASSUME NEW v \in WP, state[v] \in Complete
               PROVE  IndependentlyReviewed(v, completed[v])'
    BY <1>2 DEF CompletionIndependent, rows
  <2>1. IndependentlyReviewed(v, completed[v])  BY DEF IInv, CompletionIndependent
  <2>2. completed[v] \in Candidate
    BY <1>1, <2>1 DEF TypeOK, IndependentlyReviewed
  <2>3. ASSUME NEW k \in Kinds \ {"verification"}
        PROVE  \E i \in DOMAIN evidence'[v], j \in DOMAIN evidence'[v] :
                   /\ IndependentPass(v, k, completed[v], i)'
                   /\ IndependentPass(v, "verification", completed[v], j)'
                   /\ evidence'[v][i].actor # evidence'[v][j].actor
    <3>1. "verification" \in Kinds /\ k \in Kinds  BY DEF Kinds
    <3>2. PICK i \in DOMAIN evidence[v], j \in DOMAIN evidence[v] :
              /\ IndependentPass(v, k, completed[v], i)
              /\ IndependentPass(v, "verification", completed[v], j)
              /\ evidence[v][i].actor # evidence[v][j].actor
      BY <2>1 DEF IndependentlyReviewed
    <3>3. completed'[v] = completed[v]  BY <1>2 DEF rows
    <3>4. /\ i \in DOMAIN evidence'[v]
          /\ evidence'[v][i] = evidence[v][i]
          /\ IndependentPass(v, k, completed[v], i)'
      BY <1>1, <2>2, <3>1, <3>2, <3>3, AnswerKept
    <3>5. /\ j \in DOMAIN evidence'[v]
          /\ evidence'[v][j] = evidence[v][j]
          /\ IndependentPass(v, "verification", completed[v], j)'
      BY <1>1, <2>2, <3>1, <3>2, <3>3, AnswerKept
    <3> QED BY <3>2, <3>4, <3>5
  <2> QED BY <1>2, <2>1, <2>3 DEF IndependentlyReviewed, rows
<1>5. AcceptedOnVerified'
  <2> SUFFICES ASSUME NEW v \in WP, state[v] = "ACCEPTED"
               PROVE  /\ accepted'[v] # None
                      /\ \E i \in DOMAIN evidence'[v] :
                            IndependentPass(v, "verification", accepted[v], i)'
    BY <1>2 DEF AcceptedOnVerified, rows
  <2>1. accepted[v] \in Candidate
    BY <1>1 DEF IInv, AcceptedOnVerified, TypeOK
  <2>2. "verification" \in Kinds  BY DEF Kinds
  <2>3. PICK i \in DOMAIN evidence[v] : IndependentPass(v, "verification", accepted[v], i)
    BY DEF IInv, AcceptedOnVerified
  <2>4. i \in DOMAIN evidence'[v] /\ IndependentPass(v, "verification", accepted[v], i)'
    BY <1>1, <1>2, <2>1, <2>2, <2>3, AnswerKept DEF rows
  <2> QED BY <1>2, <2>1, <2>4, NoneAssumption DEF rows
<1> QED BY <1>3, <1>4, <1>5 DEF IInv

\* A transition keeps the invariant: TECH_COMPLETE and ACCEPTED by their checks,
\* every other state because it is entered from one the invariant speaks of.
LEMMA TransitionIndependent ==
    ASSUME IInv, TypeOK', NEW w \in WP, NEW to \in States, NEW a \in Actor \cup {None},
           NEW c \in Candidate \cup {None}, to = "EXECUTING" => a \in Actor,
           Transition(w, to, a, c)
    PROVE  IInv'
<1>1. TypeOK  BY DEF IInv
<1>2. Allowed(w, to, a, c) /\ evidence' = evidence  BY DEF Transition
<1>3. state[w] \in States /\ to \in Transitions[state[w]]
  BY <1>1, <1>2, PermittedFrom DEF Allowed
<1>4. state' = [state EXCEPT ![w] = to]  BY DEF Transition
<1>5. ProducerKnown'
  <2>1. to \in UnderWay => to = "EXECUTING" \/ state[w] \in UnderWay
    BY <1>3, Predecessor DEF UnderWay, Complete
  <2>2. producer' = [producer EXCEPT ![w] = IF to = "EXECUTING" THEN a ELSE @]
    BY DEF Transition
  <2> QED BY <1>1, <1>4, <2>1, <2>2, NoneAssumption DEF IInv, ProducerKnown, TypeOK
<1>6. to \in Complete => producer' = producer
  BY <1>1 DEF Transition, Complete, TypeOK
<1>7. CompletionIndependent'
  <2> SUFFICES ASSUME NEW v \in WP, state'[v] \in Complete
               PROVE  IndependentlyReviewed(v, completed[v])'
    BY DEF CompletionIndependent
  <2>1. producer'[v] = producer[v]
    BY <1>1, <1>4, <1>6 DEF Transition, TypeOK
  <2>2. IndependentlyReviewed(v, completed'[v])
    <3>1. CASE v = w /\ to = "TECH_COMPLETE"
      <4>1. producer[w] # None
        BY <1>3, <3>1, Predecessor DEF IInv, ProducerKnown, UnderWay
      <4>2. IndependentlyReviewed(w, Effective(w, c))
        BY <1>1, <1>2, <3>1, <4>1, CompleteIsReviewed DEF Allowed
      <4>3. completed'[w] = Effective(w, c)
        BY <1>1, <3>1 DEF Transition, TypeOK
      <4> QED BY <3>1, <4>2, <4>3
    <3>2. CASE ~(v = w /\ to = "TECH_COMPLETE")
      <4>1. state[v] \in Complete
        BY <1>1, <1>3, <1>4, <3>2, Predecessor DEF Complete, TypeOK
      <4>2. completed'[v] = completed[v]
        BY <1>1, <3>2 DEF Transition, TypeOK
      <4> QED BY <4>1, <4>2 DEF IInv, CompletionIndependent
    <3> QED BY <3>1, <3>2
  <2> QED BY <1>2, <2>1, <2>2
      DEF IndependentlyReviewed, IndependentPass, Passing, Records
<1>8. AcceptedOnVerified'
  <2> SUFFICES ASSUME NEW v \in WP, state'[v] = "ACCEPTED"
               PROVE  /\ accepted'[v] # None
                      /\ \E i \in DOMAIN evidence'[v] :
                            IndependentPass(v, "verification", accepted[v], i)'
    BY DEF AcceptedOnVerified
  <2>1. producer'[v] = producer[v]
    BY <1>1, <1>4, <1>6 DEF Transition, TypeOK, Complete
  <2>2. /\ accepted'[v] # None
        /\ \E i \in DOMAIN evidence[v] :
              IndependentPass(v, "verification", accepted'[v], i)
    <3>1. CASE v = w
      <4>1. to = "ACCEPTED"  BY <1>1, <1>4, <3>1 DEF TypeOK
      <4>2. accepted'[w] = Effective(w, c)
        BY <1>1, <4>1 DEF Transition, TypeOK
      <4>3. AcceptanceAllowed(w, a, c)  BY <1>2, <4>1 DEF Allowed
      <4>4. PICK i \in Passing(w, Effective(w, c), "verification") : TRUE
        BY <4>3 DEF AcceptanceAllowed
      <4>5. /\ i \in DOMAIN evidence[w]
            /\ IndependentPass(w, "verification", Effective(w, c), i)
        BY <4>3, <4>4 DEF AcceptanceAllowed, IndependentPass, Passing, Records
      <4> QED BY <3>1, <4>2, <4>3, <4>5 DEF AcceptanceAllowed
    <3>2. CASE v # w
      <4>1. state[v] = "ACCEPTED" /\ accepted'[v] = accepted[v]
        BY <1>1, <1>4, <3>2 DEF Transition, TypeOK
      <4> QED BY <4>1 DEF IInv, AcceptedOnVerified
    <3> QED BY <3>1, <3>2
  <2> QED BY <1>2, <2>1, <2>2 DEF IndependentPass, Passing, Records
<1> QED BY <1>5, <1>7, <1>8 DEF IInv

LEMMA IInvInit == Init => IInv
<1> SUFFICES ASSUME Init PROVE IInv  OBVIOUS
<1>1. \A w \in WP : state[w] = "ABSENT"  BY DEF Init, Absent
<1> QED BY <1>1, TypeOKInit
    DEF IInv, ProducerKnown, CompletionIndependent, AcceptedOnVerified, UnderWay, Complete

LEMMA IInvCall ==
    ASSUME IInv, NEW w \in WP, Call(w)
    PROVE  IInv'
<1>1. TypeOK /\ TypeOK'  BY TypeOKCall DEF IInv
<1>2. ASSUME NEW ds \in Catalogue[w], Register(w, ds) PROVE IInv'
  <2>1. \A v \in WP : state'[v] \in UnderWay => state'[v] = state[v]
    BY <1>1, <1>2 DEF Register, UnderWay, Complete, TypeOK
  <2> QED BY <1>1, <1>2, <2>1, StillIndependent DEF Register
<1>3. ASSUME NEW c \in Candidate, SetCandidate(w, c) PROVE IInv'
  BY <1>1, <1>3, StillIndependent DEF SetCandidate
<1>4. ASSUME NEW e \in Evidence, AddEvidence(w, e) PROVE IInv'
  BY <1>1, <1>4, EvidenceIndependent
<1>5. ASSUME NEW s \in Severity, NEW c \in Candidate \cup {None}, AddFinding(w, s, c)
      PROVE  IInv'
  BY <1>1, <1>5, StillIndependent DEF AddFinding, rows
<1>6. ASSUME NEW c \in Candidate, SupersedeFindings(w, c) PROVE IInv'
  BY <1>1, <1>6, StillIndependent DEF SupersedeFindings, rows
<1>7. ASSUME NEW to \in States, NEW a \in Actor \cup {None},
             NEW c \in Candidate \cup {None}, to = "EXECUTING" => a \in Actor,
             Transition(w, to, a, c)
      PROVE  IInv'
  BY <1>1, <1>7, TransitionIndependent
<1> QED BY <1>2, <1>3, <1>4, <1>5, <1>6, <1>7 DEF Call

LEMMA IInvUnchanged == IInv /\ UNCHANGED vars => IInv'
BY DEF IInv, TypeOK, ProducerKnown, CompletionIndependent, AcceptedOnVerified,
       IndependentlyReviewed, IndependentPass, Passing, Records, vars

LEMMA Inductive == Spec => []IInv
<1>1. IInv /\ [Next]_vars => IInv'
  BY IInvUnchanged, NextIsCall, IInvCall
<1> QED BY <1>1, IInvInit, PTL DEF Spec

\* A package at or past TECH_COMPLETE was independently reviewed on the candidate
\* it was completed on, whoever calls the store and in any order.
THEOREM CompletionIsIndependent == Spec => []CompletionIndependent
<1>1. IInv => CompletionIndependent  BY DEF IInv
<1> QED BY <1>1, Inductive, PTL

\* An accepted package was verified, on the accepted candidate, by an identity
\* other than its producer.
THEOREM AcceptanceIsVerified == Spec => []AcceptedOnVerified
<1>1. IInv => AcceptedOnVerified  BY DEF IInv
<1> QED BY <1>1, Inductive, PTL

\* No call removes or rewrites evidence.
THEOREM EvidenceIsKept == Spec => EvidenceKept
<1> DEFINE Kept == \A w \in WP :
        /\ Len(evidence[w]) <= Len(evidence'[w])
        /\ \A i \in DOMAIN evidence[w] : evidence'[w][i] = evidence[w][i]
<1>1. ASSUME TypeOK, NEW w \in WP, Call(w) PROVE Kept
  <2>1. \A v \in WP : evidence[v] \in Seq(Evidence)  BY <1>1 DEF TypeOK
  <2>2. ASSUME NEW e \in Evidence, AddEvidence(w, e) PROVE Kept
    <3>1. \A v \in WP : evidence'[v] = IF v = w THEN Append(evidence[v], e) ELSE evidence[v]
      BY <1>1, <2>2 DEF AddEvidence, TypeOK
    <3>2. \A s \in Seq(Evidence) : /\ Len(s) <= Len(Append(s, e))
                                   /\ \A i \in DOMAIN s : Append(s, e)[i] = s[i]
      OBVIOUS
    <3>3. \A s \in Seq(Evidence) : Len(s) <= Len(s)  OBVIOUS
    <3> SUFFICES ASSUME NEW v \in WP
                 PROVE  /\ Len(evidence[v]) <= Len(evidence'[v])
                        /\ \A i \in DOMAIN evidence[v] : evidence'[v][i] = evidence[v][i]
      OBVIOUS
    <3> QED BY <2>1, <3>1, <3>2, <3>3
  <2>3. evidence' = evidence => Kept  BY <2>1
  <2> QED BY <1>1, <2>2, <2>3
      DEF Call, Register, SetCandidate, AddFinding, SupersedeFindings, Transition
<1>2. TypeOK /\ [Next]_vars => [Kept]_vars
  BY <1>1, NextIsCall
<1> QED BY <1>2, TypeCorrect, PTL DEF Spec, EvidenceKept

(***************************************************************************)
(* Dependencies.  A seed may add rows to dependency at any time, so READY  *)
(* is only as good as the catalogue is stable.                             *)
(***************************************************************************)
FixedCatalogue == \A w \in WP : \A ds, es \in Catalogue[w] : ds = es

Catalogued ==
    \A w \in WP : IF Known(w) THEN \A ds \in Catalogue[w] : deps[w] = ds
                              ELSE deps[w] = {}

DepInv == TypeOK /\ Catalogued /\ ReadyOnAccepted

LEMMA DepInvCall ==
    ASSUME FixedCatalogue, DepInv, NEW w \in WP, Call(w)
    PROVE  DepInv'
<1>1. TypeOK /\ TypeOK'  BY TypeOKCall DEF DepInv
<1>2. ASSUME state' = state, deps' = deps PROVE DepInv'
  BY <1>1, <1>2 DEF DepInv, Catalogued, ReadyOnAccepted, UnmetDependencies, Known
<1>3. ASSUME NEW ds \in Catalogue[w], Register(w, ds) PROVE DepInv'
  <2>1. ds \subseteq WP /\ Absent # "ACCEPTED" /\ Absent # "READY" /\ Absent # "DISCOVERED"
    BY CallerAssumption DEF Absent
  <2>2. deps'[w] = ds /\ \A v \in WP \ {w} : deps'[v] = deps[v]
    <3>1. deps[w] = ds \/ deps[w] = {}  BY DEF DepInv, Catalogued
    <3>2. deps[w] \cup ds = ds  BY <3>1
    <3>3. deps' = [deps EXCEPT ![w] = ds]  BY <1>3, <3>2 DEF Register
    <3> QED BY <1>1, <3>3 DEF TypeOK
  <2>3. /\ state'[w] = IF state[w] = Absent THEN "DISCOVERED" ELSE state[w]
        /\ \A v \in WP \ {w} : state'[v] = state[v]
    BY <1>1, <1>3 DEF Register, TypeOK
  <2>4. Catalogued'
    BY <2>1, <2>2, <2>3 DEF DepInv, Catalogued, FixedCatalogue, Known
  <2>5. ReadyOnAccepted'
    <3> SUFFICES ASSUME NEW v \in WP, state'[v] = "READY", NEW d \in deps'[v]
                 PROVE  state'[d] = "ACCEPTED"
      BY DEF ReadyOnAccepted, UnmetDependencies
    <3>1. state[v] = "READY"  BY <2>1, <2>3
    <3>2. deps'[v] = deps[v]
      BY <2>1, <2>2, <3>1 DEF DepInv, Catalogued, Known, FixedCatalogue
    <3>3. d \in WP /\ state[d] = "ACCEPTED"
      BY <1>1, <3>1, <3>2 DEF DepInv, ReadyOnAccepted, UnmetDependencies, TypeOK
    <3> QED BY <2>1, <2>3, <3>3
  <2> QED BY <1>1, <2>4, <2>5 DEF DepInv
<1>4. ASSUME NEW to \in States, NEW a \in Actor \cup {None},
             NEW c \in Candidate \cup {None}, Transition(w, to, a, c)
      PROVE  DepInv'
  <2>1. state' = [state EXCEPT ![w] = to] /\ deps' = deps  BY <1>4 DEF Transition
  <2>2. state[w] # "ACCEPTED" /\ state[w] # Absent /\ to # Absent
    <3>1. "ABSENT" \notin States  BY DEF States
    <3> QED BY <1>1, <1>4, <3>1, PermittedFrom, Predecessor DEF Transition, Allowed, Absent
  <2>3. Catalogued'
    BY <1>1, <2>1, <2>2 DEF DepInv, Catalogued, Known, TypeOK
  <2>4. ReadyOnAccepted'
    <3> SUFFICES ASSUME NEW v \in WP, state'[v] = "READY", NEW d \in deps[v]
                 PROVE  state'[d] = "ACCEPTED"
      BY <2>1 DEF ReadyOnAccepted, UnmetDependencies
    <3>1. d \in WP  BY <1>1 DEF TypeOK
    <3>2. state[d] = "ACCEPTED"
      <4>1. CASE v = w
        <5>1. to = "READY"  BY <1>1, <2>1, <4>1 DEF TypeOK
        <5> QED BY <1>4, <4>1, <5>1 DEF Transition, Allowed, UnmetDependencies
      <4>2. CASE v # w
        BY <1>1, <2>1, <4>2 DEF DepInv, ReadyOnAccepted, UnmetDependencies, TypeOK
      <4> QED BY <4>1, <4>2
    <3> QED BY <1>1, <2>1, <2>2, <3>1, <3>2 DEF TypeOK
  <2> QED BY <1>1, <2>3, <2>4 DEF DepInv
<1> QED BY <1>2, <1>3, <1>4
    DEF Call, SetCandidate, AddEvidence, AddFinding, SupersedeFindings, rows

\* READY goes on meaning that every dependency is ACCEPTED, as long as every
\* seed registers the same dependencies.
THEOREM ReadyMeansAccepted == FixedCatalogue => (Spec => []ReadyOnAccepted)
<1> SUFFICES ASSUME FixedCatalogue PROVE Spec => []ReadyOnAccepted  OBVIOUS
<1>1. Init => DepInv
  <2> SUFFICES ASSUME Init PROVE DepInv  OBVIOUS
  <2>1. \A w \in WP : state[w] = "ABSENT"  BY DEF Init, Absent
  <2> QED BY <2>1, TypeOKInit
      DEF Init, DepInv, Catalogued, ReadyOnAccepted, Known, Absent
<1>2. DepInv /\ [Next]_vars => DepInv'
  <2>1. DepInv /\ UNCHANGED vars => DepInv'
    BY DEF DepInv, TypeOK, Catalogued, ReadyOnAccepted, UnmetDependencies, Known, vars
  <2> QED BY <2>1, NextIsCall, DepInvCall
<1>3. DepInv => ReadyOnAccepted  BY DEF DepInv
<1> QED BY <1>1, <1>2, <1>3, PTL DEF Spec

(***************************************************************************)
(* Vetoes.                                                                 *)
(***************************************************************************)
VetoStands ==
    \A w \in WP : \A f \in OpenBlockingFindings(w) :
        f.candidate = None =>
            /\ f \in OpenBlockingFindings(w)'
            /\ state[w] # "ACCEPTED" => state'[w] # "ACCEPTED"

LEMMA VetoCall ==
    ASSUME TypeOK, NEW w \in WP, Call(w)
    PROVE  VetoStands
<1> SUFFICES ASSUME NEW v \in WP, NEW f \in OpenBlockingFindings(v), f.candidate = None
             PROVE  /\ f \in findings'[v]
                    /\ state[v] # "ACCEPTED" => state'[v] # "ACCEPTED"
  BY DEF VetoStands, OpenBlockingFindings
<1>1. f \in findings[v] /\ f.status = "OPEN"  BY DEF OpenBlockingFindings
<1>2. ASSUME NEW ds \in Catalogue[w], Register(w, ds)
      PROVE  /\ f \in findings'[v]
             /\ state[v] # "ACCEPTED" => state'[v] # "ACCEPTED"
  BY <1>1, <1>2 DEF Register, TypeOK
<1>3. ASSUME NEW s \in Severity, NEW c \in Candidate \cup {None}, AddFinding(w, s, c)
      PROVE  f \in findings'[v] /\ state' = state
  BY <1>1, <1>3 DEF AddFinding, TypeOK, rows
<1>4. ASSUME NEW c \in Candidate, SupersedeFindings(w, c)
      PROVE  f \in findings'[v] /\ state' = state
  <2>1. ~Superseded(f, c)  BY DEF Superseded
  <2>2. CASE v = w
    <3>1. findings'[w] = {IF Superseded(g, c) THEN [g EXCEPT !.status = "SUPERSEDED"]
                                              ELSE g : g \in findings[w]}
      BY <1>4 DEF SupersedeFindings, TypeOK
    <3> QED BY <1>1, <1>4, <2>1, <2>2, <3>1 DEF SupersedeFindings, rows
  <2>3. CASE v # w
    BY <1>1, <1>4, <2>3 DEF SupersedeFindings, TypeOK, rows
  <2> QED BY <2>2, <2>3
<1>5. ASSUME NEW to \in States, NEW a \in Actor \cup {None},
             NEW c \in Candidate \cup {None}, Transition(w, to, a, c)
      PROVE  /\ f \in findings'[v]
             /\ state[v] # "ACCEPTED" => state'[v] # "ACCEPTED"
  <2>1. v = w => to # "ACCEPTED"
    BY <1>5 DEF Transition, Allowed, AcceptanceAllowed
  <2> QED BY <1>1, <1>5, <2>1 DEF Transition, TypeOK
<1> QED BY <1>1, <1>2, <1>3, <1>4, <1>5 DEF Call, SetCandidate, AddEvidence, rows

\* A finding that names no candidate, once filed, blocks for ever: nobody's call
\* supersedes it and no package is accepted over it.
THEOREM VetoesStand == Spec => UnattributedVetoStands
<1>1. TypeOK /\ [Next]_vars => [VetoStands]_vars
  BY NextIsCall, VetoCall
<1> QED BY <1>1, TypeCorrect, PTL DEF Spec, UnattributedVetoStands, VetoStands

(***************************************************************************)
(* The store implements Lifecycle: a call is one step of the abstract      *)
(* specification, or changes nothing it speaks of.                         *)
(***************************************************************************)

\* A package under the refinement mapping.
phases == [w \in WP |-> Phase(state[w])]
ballots == [w \in WP |-> Votes(w)]

\* Who answered, seen from either side.
LEMMA Answers ==
    ASSUME TypeOK, NEW w \in WP, NEW c \in Candidate, NEW k \in Kinds,
           NEW i \in DOMAIN evidence[w], IndependentPass(w, k, c, i)
    PROVE  evidence[w][i].actor \in Abstract!AnsweredBy(w, k, c)
<1>1. evidence[w][i] \in Evidence  BY DEF TypeOK
<1>2. /\ evidence[w][i].kind = k /\ evidence[w][i].candidate = c
      /\ evidence[w][i].verdict = "PASS" /\ evidence[w][i].actor # producer[w]
  BY NoneAssumption DEF IndependentPass, Passing, Records
<1>3. evidence[w][i].actor \in Actor  BY <1>1 DEF Evidence
<1>4. <<k, c, evidence[w][i].actor>> \in Votes(w)  BY <1>2 DEF Votes
<1> QED BY <1>2, <1>3, <1>4 DEF Abstract!AnsweredBy

LEMMA ReviewedIsAnswered ==
    ASSUME TypeOK, NEW w \in WP, NEW c \in Candidate, IndependentlyReviewed(w, c)
    PROVE  Abstract!IndependentlyAnswered(w, c)
<1>1. "verification" \in Kinds /\ "code_quality" \in Kinds
      /\ "verification" # "code_quality"
  BY DEF Kinds
<1>2. \A k \in Kinds \ {"verification"} :
          \E a \in Abstract!AnsweredBy(w, k, c),
             v \in Abstract!AnsweredBy(w, "verification", c) : a # v
  BY <1>1, Answers DEF IndependentlyReviewed
<1>3. \A k \in Kinds : Abstract!AnsweredBy(w, k, c) # {}
  BY <1>1, <1>2
<1> QED BY <1>2, <1>3 DEF Abstract!IndependentlyAnswered

LEMMA AbstractInit == Init => Abstract!Init
<1> SUFFICES ASSUME Init PROVE Abstract!Init  OBVIOUS
<1>1. \A w \in WP : Phase(state[w]) = "waiting"  BY DEF Init, Absent, Phase
<1>2. \A w \in WP : DOMAIN evidence[w] = {}
  <2>1. \A w \in WP : evidence[w] = <<>>  BY DEF Init
  <2>2. <<>> \in Seq(Evidence) /\ Len(<<>>) = 0  OBVIOUS
  <2>3. \A s \in Seq(Evidence) : Len(s) = 0 => DOMAIN s = {}  OBVIOUS
  <2> QED BY <2>1, <2>2, <2>3
<1>3. \A w \in WP : Votes(w) = {}  BY <1>2 DEF Votes
<1> QED BY <1>1, <1>3 DEF Abstract!Init, Init

\* New evidence is a vote when it says PASS, and nothing otherwise.
LEMMA AbstractEvidence ==
    ASSUME TypeOK, NEW w \in WP, NEW e \in Evidence, AddEvidence(w, e)
    PROVE  [Abstract!Next]_(Abstract!lvars)
<1> DEFINE vote == <<e.kind, e.candidate, e.actor>>
<1>1. UNCHANGED rows  BY DEF AddEvidence
<1>2. evidence[w] \in Seq(Evidence)  BY DEF TypeOK
<1>3. evidence' = [evidence EXCEPT ![w] = Append(@, e)]  BY DEF AddEvidence
<1>4. evidence'[w] = Append(evidence[w], e)
      /\ \A v \in WP \ {w} : evidence'[v] = evidence[v]
  BY <1>3 DEF TypeOK
<1>5. /\ DOMAIN evidence'[w] = DOMAIN evidence[w] \cup {Len(evidence[w]) + 1}
      /\ Len(evidence[w]) + 1 \notin DOMAIN evidence[w]
      /\ evidence'[w][Len(evidence[w]) + 1] = e
      /\ \A i \in DOMAIN evidence[w] : evidence'[w][i] = evidence[w][i]
  BY <1>2, <1>4
<1>6. \A v \in WP \ {w} : Votes(v)' = Votes(v)  BY <1>4 DEF Votes
<1>7. Votes(w)' = IF e.verdict = "PASS" THEN Votes(w) \cup {vote} ELSE Votes(w)
  BY <1>5 DEF Votes
<1>8. phases' = phases  BY <1>1 DEF phases, rows
<1>9. CASE e.verdict = "PASS"
  <2>1. ballots' = [ballots EXCEPT ![w] = @ \cup {vote}]
    BY <1>6, <1>7, <1>9 DEF ballots
  <2>2. vote \in Abstract!Vote  BY DEF Evidence, Abstract!Vote
  <2>3. Abstract!CastVote(w, vote)
    BY <1>1, <1>8, <2>1 DEF Abstract!CastVote, phases, ballots, rows
  <2> QED BY <2>2, <2>3 DEF Abstract!Next
<1>10. CASE e.verdict # "PASS"
  <2>1. ballots' = ballots  BY <1>6, <1>7, <1>10 DEF ballots
  <2> QED BY <1>1, <1>8, <2>1 DEF Abstract!lvars, phases, ballots, rows
<1> QED BY <1>9, <1>10

\* The phase a transition leads from and to.
LEMMA PhaseStep ==
    ASSUME NEW s \in States, NEW to \in Transitions[s]
    PROVE  \/ to = "EXECUTING" /\ Phase(s) = "waiting" /\ Phase(to) = "making"
           \/ to = "TECH_COMPLETE" /\ Phase(s) = "making" /\ Phase(to) = "complete"
           \/ to = "ACCEPTED" /\ Phase(s) = "complete" /\ Phase(to) = "accepted"
           \/ /\ to \notin {"EXECUTING", "TECH_COMPLETE", "ACCEPTED"}
              /\ \/ Phase(s) = Phase(to)
                 \/ Phase(s) \in {"making", "complete"} /\ Phase(to) = "waiting"
BY DEF States, Transitions, Stop, Phase

LEMMA AbstractTransition ==
    ASSUME IInv, NEW w \in WP, NEW to \in States, NEW a \in Actor \cup {None},
           NEW c \in Candidate \cup {None}, to = "EXECUTING" => a \in Actor,
           Transition(w, to, a, c)
    PROVE  [Abstract!Next]_(Abstract!lvars)
<1>1. TypeOK  BY DEF IInv
<1>2. Allowed(w, to, a, c)  BY DEF Transition
<1>3. state[w] \in States /\ to \in Transitions[state[w]]
  BY <1>1, <1>2, PermittedFrom DEF Allowed
<1>4. phases' = [phases EXCEPT ![w] = Phase(to)]
  BY <1>1 DEF Transition, phases, TypeOK
<1>5. ballots' = ballots  BY DEF Transition, ballots, Votes
<1>6. phases[w] = Phase(state[w])  BY DEF phases
<1>7. Effective(w, c) \in Candidate \cup {None}  BY <1>1, EffectiveType
<1>8. CASE to = "EXECUTING" /\ Phase(state[w]) = "waiting" /\ Phase(to) = "making"
  <2>1. producer' = [producer EXCEPT ![w] = a] /\ completed' = completed
    BY <1>1, <1>8 DEF Transition, TypeOK
  <2>2. Abstract!Begin(w, a)
    BY <1>4, <1>5, <1>6, <1>8, <2>1 DEF Abstract!Begin, phases, ballots
  <2> QED BY <1>8, <2>2 DEF Abstract!Next
<1>9. CASE to = "TECH_COMPLETE" /\ Phase(state[w]) = "making" /\ Phase(to) = "complete"
  <2>1. producer' = producer /\ completed' = [completed EXCEPT ![w] = Effective(w, c)]
    BY <1>1, <1>9 DEF Transition, TypeOK
  <2>2. PipelineComplete(w, c)  BY <1>2, <1>9 DEF Allowed
  <2>3. producer[w] # None
    BY <1>3, <1>9, Predecessor DEF IInv, ProducerKnown, UnderWay
  <2>4. Effective(w, c) \in Candidate  BY <1>7, <2>2 DEF PipelineComplete
  <2>5. Abstract!IndependentlyAnswered(w, Effective(w, c))
    BY <1>1, <2>2, <2>3, <2>4, CompleteIsReviewed, ReviewedIsAnswered
  <2>6. Abstract!Complete(w, Effective(w, c))
    BY <1>4, <1>5, <1>6, <1>9, <2>1, <2>3, <2>5 DEF Abstract!Complete, phases, ballots
  <2> QED BY <2>4, <2>6 DEF Abstract!Next
<1>10. CASE to = "ACCEPTED" /\ Phase(state[w]) = "complete" /\ Phase(to) = "accepted"
  <2>1. producer' = producer /\ completed' = completed
    BY <1>1, <1>10 DEF Transition, TypeOK
  <2>2. AcceptanceAllowed(w, a, c)  BY <1>2, <1>10 DEF Allowed
  <2>3. Effective(w, c) \in Candidate  BY <1>7, <2>2 DEF AcceptanceAllowed
  <2>4. PICK i \in Passing(w, Effective(w, c), "verification") : TRUE
    BY <2>2 DEF AcceptanceAllowed
  <2>5. /\ i \in DOMAIN evidence[w]
        /\ IndependentPass(w, "verification", Effective(w, c), i)
    BY <2>2, <2>4 DEF AcceptanceAllowed, IndependentPass, Passing, Records
  <2>6. Abstract!AnsweredBy(w, "verification", Effective(w, c)) # {}
    <3>1. "verification" \in Kinds  BY DEF Kinds
    <3> QED BY <1>1, <2>3, <2>5, <3>1, Answers
  <2>7. IndependentlyReviewed(w, completed[w])
    BY <1>3, <1>10, Predecessor DEF IInv, CompletionIndependent, Complete
  <2>8. Abstract!IndependentlyAnswered(w, completed[w])
    <3>1. completed[w] \in Candidate
      BY <1>1, <2>7 DEF IndependentlyReviewed, TypeOK
    <3> QED BY <1>1, <2>7, <3>1, ReviewedIsAnswered
  <2>9. Abstract!Accept(w, Effective(w, c))
    BY <1>4, <1>5, <1>6, <1>10, <2>1, <2>6, <2>8 DEF Abstract!Accept, phases, ballots
  <2> QED BY <2>3, <2>9 DEF Abstract!Next
<1>11. CASE /\ to \notin {"EXECUTING", "TECH_COMPLETE", "ACCEPTED"}
            /\ \/ Phase(state[w]) = Phase(to)
               \/ Phase(state[w]) \in {"making", "complete"} /\ Phase(to) = "waiting"
  <2>1. producer' = producer /\ completed' = completed
    BY <1>1, <1>11 DEF Transition, TypeOK
  <2>2. CASE Phase(state[w]) = Phase(to)
    <3>1. phases' = phases  BY <1>4, <1>6, <2>2 DEF phases
    <3> QED BY <1>5, <2>1, <3>1 DEF Abstract!lvars, phases, ballots
  <2>3. CASE Phase(state[w]) \in {"making", "complete"} /\ Phase(to) = "waiting"
    <3>1. Abstract!Abandon(w)
      BY <1>4, <1>5, <1>6, <2>1, <2>3 DEF Abstract!Abandon, phases, ballots
    <3> QED BY <3>1 DEF Abstract!Next
  <2> QED BY <1>11, <2>2, <2>3
<1> QED BY <1>3, <1>8, <1>9, <1>10, <1>11, PhaseStep

LEMMA AbstractCall ==
    ASSUME IInv, NEW w \in WP, Call(w)
    PROVE  [Abstract!Next]_(Abstract!lvars)
<1>1. TypeOK  BY DEF IInv
<1>2. ASSUME UNCHANGED <<producer, evidence, completed>>, phases' = phases
      PROVE  [Abstract!Next]_(Abstract!lvars)
  <2>1. ballots' = ballots  BY <1>2 DEF ballots, Votes
  <2> QED BY <1>2, <2>1 DEF Abstract!lvars, phases, ballots
<1>3. ASSUME NEW ds \in Catalogue[w], Register(w, ds)
      PROVE  [Abstract!Next]_(Abstract!lvars)
  <2>1. \A v \in WP : Phase(state'[v]) = Phase(state[v])
    BY <1>1, <1>3 DEF Register, TypeOK, Phase, Absent
  <2> QED BY <1>2, <1>3, <2>1 DEF Register, phases
<1>4. state' = state => phases' = phases  BY DEF phases
<1>5. ASSUME NEW e \in Evidence, AddEvidence(w, e)
      PROVE  [Abstract!Next]_(Abstract!lvars)
  BY <1>1, <1>5, AbstractEvidence
<1>6. ASSUME NEW to \in States, NEW a \in Actor \cup {None},
             NEW c \in Candidate \cup {None}, to = "EXECUTING" => a \in Actor,
             Transition(w, to, a, c)
      PROVE  [Abstract!Next]_(Abstract!lvars)
  BY <1>6, AbstractTransition
<1> QED BY <1>2, <1>3, <1>4, <1>5, <1>6
    DEF Call, SetCandidate, AddFinding, SupersedeFindings, rows

\* Whatever calls are made, the store does what Lifecycle promises.
THEOREM StoreImplementsLifecycle == Spec => ImplementsLifecycle
<1>1. IInv /\ [Next]_vars => [Abstract!Next]_(Abstract!lvars)
  <2>1. UNCHANGED vars => UNCHANGED Abstract!lvars
    BY DEF vars, Abstract!lvars, Votes
  <2> QED BY <2>1, NextIsCall, AbstractCall
<1> QED BY <1>1, AbstractInit, Inductive, PTL DEF Spec, ImplementsLifecycle, Abstract!Spec
=============================================================================
