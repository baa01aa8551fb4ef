-------------------------- MODULE CommissionProofs --------------------------
(***************************************************************************)
(* What commissioning guarantees for every number of processes, packages   *)
(* and candidates, however often processes are killed and whatever the     *)
(* operator does meanwhile.  A commission only moves the store through the *)
(* calls StoreProofs speaks of, so what is proved there holds here.        *)
(***************************************************************************)
EXTENDS Commission, StoreProofs

(***************************************************************************)
(* The inductive invariant.                                                *)
(***************************************************************************)

\* The steps at which a run has a candidate to work on.
WithCandidate ==
    {"record", "supersede", "inspect", "stage", "review", "refused",
     "tech_complete", "ready", "gate"}

HasCandidate ==
    \A p \in Proc : run[p].at \in WithCandidate => run[p].candidate \in Candidate

CTypeInv == CommissionTypeOK /\ HasCandidate

\* The questions the run has still to ask about its candidate.
Rank == [specification_compliance |-> 1, code_quality |-> 2, verification |-> 3]

Pending(r) ==
    {k \in Kinds : \/ r.at \in {"record", "supersede", "inspect"}
                   \/ r.at \in {"stage", "review"} /\ Rank[r.kind] <= Rank[k]}

\* Candidates are made once, each by one run, before anything is said of them.
CandidatesMade ==
    /\ \A p \in Proc : run[p].candidate \in made \cup {None}
    /\ \A w \in WP : \A i \in DOMAIN evidence[w] : evidence[w][i].candidate \in made

CandidatesDistinct ==
    \A p, q \in Proc : run[p].candidate = run[q].candidate =>
        p = q \/ run[p].candidate = None

NotYetAnswered ==
    \A p \in Proc, w \in WP : \A i \in Reviews(w) :
        evidence[w][i].candidate = run[p].candidate
            => evidence[w][i].kind \notin Pending(run[p])

AnswerInv == CandidatesMade /\ CandidatesDistinct /\ NotYetAnswered /\ OneAnswerPerCandidate

\* A verdict is what a run returned, until its process goes on.
VerdictReturned == \A p \in Proc : run[p].verdict # "none" => run[p].at = "returned"

\* The steps at which no review has refused the candidate of the run.
Clean == WithCandidate \ {"refused"}

NotRefused ==
    \A p \in Proc, w \in WP : run[p].at \in Clean =>
        \A i \in Reviews(w) : evidence[w][i].candidate = run[p].candidate
                                  => evidence[w][i].verdict = "PASS"

EligibleInv == VerdictReturned /\ NotRefused /\ EligibleNeverRefused

(***************************************************************************)
(* What one step of a run does.                                            *)
(***************************************************************************)

\* The steps inside orchestrator.run.
Inside == Steps \ BeforeRun
Working == Inside \ {"returned", "raised"}

\* A step of p's run moves p alone, inside the run and on the same package; it
\* makes a candidate or keeps the one it has; it answers at most the question
\* it is at, and a refusal takes it off the way to the gate; and it returns
\* MERGE_ELIGIBLE only from there.
Effect(p) ==
    /\ run' \in [Proc -> RunState]
    /\ \A q \in Proc \ {p} : run'[q] = run[q]
    /\ run[p].at \in Working /\ run'[p].at \in Inside
    /\ run'[p].wp = W(p)
    /\ run'[p].at \in WithCandidate => run'[p].candidate \in Candidate
    /\ \/ /\ run'[p].candidate = run[p].candidate
          /\ made' = made
          /\ run'[p].at \in Clean => run[p].at \in Clean
          /\ Pending(run'[p]) \subseteq Pending(run[p])
       \/ /\ run'[p].candidate \in Candidate \ made
          /\ made' = made \cup {run'[p].candidate}
          /\ evidence' = evidence
    /\ \/ evidence' = evidence
       \/ /\ run[p].at = "review"
          /\ run[p].kind \notin Pending(run'[p])
          /\ \E e \in Evidence : /\ e.kind = run[p].kind
                                 /\ e.candidate = run[p].candidate
                                 /\ run'[p].at \in Clean => e.verdict = "PASS"
                                 /\ evidence' = [evidence EXCEPT ![W(p)] = Append(@, e)]
    /\ \/ run'[p].verdict = run[p].verdict
       \/ run'[p].at = "returned"
    /\ run'[p].verdict = "MERGE_ELIGIBLE" =>
          \/ run[p].verdict = "MERGE_ELIGIBLE"
          \/ /\ run[p].at = "gate"
             /\ run'[p].candidate = run[p].candidate
             /\ evidence' = evidence

\* A run's record under a change of one field or two, the others being kept.
LEMMA Fields ==
    ASSUME run \in [Proc -> RunState], NEW p \in Proc, NEW r \in RunState,
           run' = [run EXCEPT ![p] = r]
    PROVE  /\ run' \in [Proc -> RunState]
           /\ run'[p] = r
           /\ \A q \in Proc \ {p} : run'[q] = run[q]
OBVIOUS

LEMMA AtStep ==
    ASSUME run \in [Proc -> RunState], NEW p \in Proc, NEW s \in Steps, Goto(p, s)
    PROVE  /\ run' \in [Proc -> RunState]
           /\ \A q \in Proc \ {p} : run'[q] = run[q]
           /\ run'[p].at = s
           /\ run'[p].wp = run[p].wp /\ run'[p].candidate = run[p].candidate
           /\ run'[p].kind = run[p].kind /\ run'[p].verdict = run[p].verdict
<1> DEFINE r == [run[p] EXCEPT !.at = s]
<1>1. run[p] \in RunState OBVIOUS
<1>2. r \in RunState /\ r.at = s /\ r.wp = run[p].wp /\ r.candidate = run[p].candidate
      /\ r.kind = run[p].kind /\ r.verdict = run[p].verdict
  BY <1>1 DEF RunState
<1>3. run' = [run EXCEPT ![p] = r]  BY DEF Goto
<1> HIDE DEF r
<1> QED BY <1>2, <1>3, Fields

LEMMA FailStep ==
    ASSUME run \in [Proc -> RunState], NEW p \in Proc, NEW c \in FailureClasses,
           FailWith(p, c)
    PROVE  /\ run' \in [Proc -> RunState]
           /\ \A q \in Proc \ {p} : run'[q] = run[q]
           /\ run'[p].at = "failing"
           /\ run'[p].wp = run[p].wp /\ run'[p].candidate = run[p].candidate
           /\ run'[p].verdict = run[p].verdict
<1> DEFINE r == [run[p] EXCEPT !.at = "failing", !.failure = c]
<1>1. run[p] \in RunState OBVIOUS
<1>2. r \in RunState /\ r.at = "failing" /\ r.wp = run[p].wp
      /\ r.candidate = run[p].candidate /\ r.verdict = run[p].verdict
  BY <1>1 DEF RunState, Steps
<1>3. run' = [run EXCEPT ![p] = r]  BY DEF FailWith
<1> HIDE DEF r
<1> QED BY <1>2, <1>3, Fields

LEMMA EndStep ==
    ASSUME run \in [Proc -> RunState], NEW p \in Proc, NEW s \in Steps, NEW v \in Verdicts,
           run' = [run EXCEPT ![p] = Ended(p, s, v)]
    PROVE  /\ run' \in [Proc -> RunState]
           /\ \A q \in Proc \ {p} : run'[q] = run[q]
           /\ run'[p].at = s
           /\ run'[p].wp = run[p].wp /\ run'[p].candidate = run[p].candidate
           /\ run'[p].verdict = v
<1> DEFINE r == Ended(p, s, v)
<1>1. run[p] \in RunState OBVIOUS
<1>2. r \in RunState /\ r.at = s /\ r.wp = run[p].wp
      /\ r.candidate = run[p].candidate /\ r.verdict = v
  BY <1>1 DEF Ended, Idle, W, RunState, Kinds, FailureClasses
<1>3. run' = [run EXCEPT ![p] = r]  OBVIOUS
<1> HIDE DEF r
<1> QED BY <1>2, <1>3, Fields

(***************************************************************************)
(* Effect, for the shapes a step of a run has.                             *)
(***************************************************************************)
Asking == {"record", "supersede", "inspect", "stage", "review"}

\* Going on to a step that still asks nothing new.
LEMMA GotoEffect ==
    ASSUME CTypeInv, NEW p \in Proc, run[p].at \in Working, NEW s \in Inside,
           Goto(p, s), UNCHANGED <<made, evidence>>,
           s \in WithCandidate => run[p].at \in WithCandidate,
           s \in Clean => run[p].at \in Clean,
           \/ s \notin Asking
           \/ s \in {"stage", "review"} /\ run[p].at \in Asking
           \/ run[p].at \in {"record", "supersede", "inspect"}
    PROVE  Effect(p)
<1>1. run \in [Proc -> RunState]  BY DEF CTypeInv, CommissionTypeOK
<1>2. s \in Steps  BY DEF Inside
<1> QED BY <1>1, <1>2, AtStep DEF Effect, CTypeInv, HasCandidate, Pending, Asking, W

\* Leaving the steps of the run, by a failure or by its end.
LEMMA FailEffect ==
    ASSUME CTypeInv, NEW p \in Proc, run[p].at \in Working, NEW c \in FailureClasses,
           FailWith(p, c), UNCHANGED <<made, evidence>>
    PROVE  Effect(p)
<1>1. run \in [Proc -> RunState]  BY DEF CTypeInv, CommissionTypeOK
<1>2. "failing" \in Inside /\ "failing" \notin WithCandidate \cup Asking \cup Clean
  BY DEF Clean, Inside, Steps, BeforeRun, WithCandidate, Asking
<1> QED BY <1>1, <1>2, FailStep DEF Effect, Pending, Asking, W

LEMMA EndEffect ==
    ASSUME CTypeInv, NEW p \in Proc, run[p].at \in Working, NEW v \in Verdicts,
           NEW s \in {"returned", "raised"},
           run' = [run EXCEPT ![p] = Ended(p, s, v)], UNCHANGED <<made, evidence>>,
           v # "none" => s = "returned",
           v = "none" => run[p].verdict = "none",
           v = "MERGE_ELIGIBLE" => run[p].at = "gate"
    PROVE  Effect(p)
<1>1. run \in [Proc -> RunState]  BY DEF CTypeInv, CommissionTypeOK
<1>2. s \in Inside /\ s \in Steps /\ s \notin WithCandidate \cup Asking \cup Clean
  BY DEF Clean, Inside, Steps, BeforeRun, WithCandidate, Asking
<1>3. /\ run' \in [Proc -> RunState]
      /\ \A q \in Proc \ {p} : run'[q] = run[q]
      /\ run'[p].at = s
      /\ run'[p].wp = run[p].wp /\ run'[p].candidate = run[p].candidate
      /\ run'[p].verdict = v
  BY <1>1, <1>2, EndStep
<1> QED BY <1>2, <1>3 DEF Effect, Pending, Asking, W

LEMMA RaiseEffect ==
    ASSUME CTypeInv, NEW p \in Proc, run[p].at \in Working, run[p].verdict = "none", Raise(p)
    PROVE  Effect(p)
<1>1. "none" \in Verdicts  BY DEF Verdicts
<1> QED BY <1>1, EndEffect DEF Raise, vars

\* A review answers the question the run is at and goes on to the next, or to
\* the findings of a refusal.
LEMMA ReviewEffect ==
    ASSUME CTypeInv, VerdictReturned, NEW p \in Proc, Review(p)
    PROVE  Effect(p)
<1> DEFINE k == run[p].kind
           e(v) == [kind |-> k, candidate |-> run[p].candidate,
                    actor |-> Asked[k], verdict |-> v]
<1>0. /\ run \in [Proc -> RunState] /\ run[p] \in RunState
      /\ run[p].at = "review" /\ run[p].verdict = "none"
      /\ run[p].candidate \in Candidate /\ k \in Kinds
  BY DEF Review, VerdictReturned, CTypeInv, CommissionTypeOK, HasCandidate,
         WithCandidate, RunState
<1>1. "review" \in Working /\ "HARNESS_FAILURE" \in FailureClasses
  BY DEF Working, Inside, Steps, BeforeRun, FailureClasses
<1>2. Asked[k] \in Actor  BY <1>0, RoleAssumption DEF Asked, Kinds
<1>3. \A v \in {"PASS", "FAIL"} : e(v) \in Evidence  BY <1>0, <1>2 DEF Evidence
<1>4. ASSUME NEW v \in {"PASS", "FAIL"}, RecordReview(W(p), k, run[p].candidate, Asked[k], v)
      PROVE  /\ e(v) \in Evidence /\ e(v).kind = k /\ e(v).candidate = run[p].candidate
             /\ e(v).verdict = v
             /\ evidence' = [evidence EXCEPT ![W(p)] = Append(@, e(v))]
  BY <1>3, <1>4 DEF RecordReview, AddEvidence
<1>5. ASSUME NEW v \in {"PASS", "FAIL"}, RecordReview(W(p), k, run[p].candidate, Asked[k], v),
             made' = made, NEW r \in RunState, run' = [run EXCEPT ![p] = r],
             r.at \in Inside, r.wp = run[p].wp, r.candidate = run[p].candidate,
             r.verdict = run[p].verdict,
             r.at \notin Asking \/ (r.at = "stage" /\ Rank[k] < Rank[r.kind]),
             v = "PASS" \/ r.at = "refused"
      PROVE  Effect(p)
  <2>1. /\ run' \in [Proc -> RunState] /\ run'[p] = r
        /\ \A q \in Proc \ {p} : run'[q] = run[q]
    BY <1>0, <1>5, Fields
  <2>2. r.kind \in Kinds  BY DEF RunState
  <2>3. k \notin Pending(r) /\ Pending(r) \subseteq Pending(run[p])
    BY <1>0, <1>5, <2>2 DEF Pending, Asking, Rank, Kinds
  <2>4. \E x \in Evidence : /\ x.kind = run[p].kind
                            /\ x.candidate = run[p].candidate
                            /\ run'[p].at \in Clean => x.verdict = "PASS"
                            /\ evidence' = [evidence EXCEPT ![W(p)] = Append(@, x)]
    BY <1>4, <1>5, <2>1 DEF Clean
  <2>5. run'[p].at \in Clean => run[p].at \in Clean
    BY <1>0 DEF Clean, WithCandidate
  <2> QED BY <1>0, <1>1, <1>5, <2>1, <2>3, <2>4, <2>5 DEF Effect, W
<1>6. CASE Raise(p)  BY <1>0, <1>1, <1>6, RaiseEffect
<1>7. CASE FailWith(p, "HARNESS_FAILURE") /\ UNCHANGED <<vars, made>>
  BY <1>0, <1>1, <1>7, FailEffect DEF vars
<1>8. CASE /\ RecordReview(W(p), k, run[p].candidate, Asked[k], "PASS")
           /\ run' = IF k = "verification"
                       THEN [run EXCEPT ![p].at = "tech_complete"]
                       ELSE [run EXCEPT ![p].at = "stage", ![p].kind = NextKind[k]]
           /\ UNCHANGED made
  <2> DEFINE r == IF k = "verification"
                    THEN [run[p] EXCEPT !.at = "tech_complete"]
                    ELSE [run[p] EXCEPT !.at = "stage", !.kind = NextKind[k]]
  <2>0. k # "verification" => NextKind[k] \in Kinds
    BY <1>0 DEF NextKind, Kinds
  <2>1. r \in RunState
    <3>1. CASE k = "verification"  BY <1>0, <3>1 DEF RunState, Steps
    <3>2. CASE k # "verification"  BY <1>0, <2>0, <3>2 DEF RunState, Steps
    <3> QED BY <3>1, <3>2
  <2>2. /\ r.at \in Inside /\ r.wp = run[p].wp /\ r.candidate = run[p].candidate
        /\ r.verdict = run[p].verdict
        /\ r.at \notin Asking \/ (r.at = "stage" /\ Rank[k] < Rank[r.kind])
    BY <1>0 DEF RunState, Kinds, NextKind, Rank, Inside, Steps, BeforeRun, Asking
  <2>3. run' = [run EXCEPT ![p] = r]  BY <1>8
  <2> HIDE DEF r
  <2> QED BY <1>5, <1>8, <2>1, <2>2, <2>3
<1>9. CASE /\ RecordReview(W(p), k, run[p].candidate, Asked[k], "FAIL")
           /\ Goto(p, "refused")
           /\ UNCHANGED made
  <2> DEFINE r == [run[p] EXCEPT !.at = "refused"]
  <2>1. /\ r \in RunState
        /\ r.at \in Inside /\ r.wp = run[p].wp /\ r.candidate = run[p].candidate
        /\ r.verdict = run[p].verdict /\ r.at \notin Asking /\ r.at = "refused"
    BY <1>0 DEF RunState, Inside, Steps, BeforeRun, Asking
  <2>2. run' = [run EXCEPT ![p] = r]  BY <1>9 DEF Goto
  <2> HIDE DEF r
  <2> QED BY <1>5, <1>9, <2>1, <2>2
<1> QED BY <1>6, <1>7, <1>8, <1>9 DEF Review

\* Every step of a run is such a step.
LEMMA RunEffect ==
    ASSUME CTypeInv, VerdictReturned, NEW p \in Proc, RunStep(p)
    PROVE  Effect(p)
<1> USE DEF Working, Inside, Steps, BeforeRun, WithCandidate, Clean, Asking
<1>0. /\ run[p] \in RunState
      /\ run[p].at # "returned" => run[p].verdict = "none"
  BY DEF VerdictReturned, CTypeInv, CommissionTypeOK
<1>1. CASE Precondition(p)
  <2>1. CASE state[W(p)] \in {"READY", "PLANNED"}
    <3> DEFINE r == [run[p] EXCEPT !.at = "packet", !.resuming = (state[W(p)] = "PLANNED")]
    <3>1. r \in RunState /\ r.at = "packet" /\ r.wp = run[p].wp
          /\ r.candidate = run[p].candidate /\ r.verdict = run[p].verdict
      BY <1>0 DEF RunState
    <3>2. run' = [run EXCEPT ![p] = r]  BY <1>1, <2>1 DEF Precondition
    <3>3. run[p].at = "precondition" /\ UNCHANGED <<made, evidence>>
      BY <1>1 DEF Precondition, vars
    <3>4. run \in [Proc -> RunState]  BY DEF CTypeInv, CommissionTypeOK
    <3> HIDE DEF r
    <3>5. /\ run' \in [Proc -> RunState] /\ run'[p] = r
          /\ \A q \in Proc \ {p} : run'[q] = run[q]
      BY <3>1, <3>2, <3>4, Fields
    <3> QED BY <1>0, <3>1, <3>3, <3>5 DEF Effect, Pending, W
  <2>2. CASE state[W(p)] \notin {"READY", "PLANNED"}
    BY <1>0, <1>1, <2>2, EndEffect DEF Precondition, Return, Verdicts, vars
  <2> QED BY <2>1, <2>2
<1>2. CASE BuildPacket(p)
  BY <1>0, <1>2, GotoEffect, RaiseEffect DEF BuildPacket, Moving, Transition, vars
<1>3. CASE BindCohort(p)
  <2>1. ASSUME Bound(p), UNCHANGED <<made, evidence>> PROVE Effect(p)
    <3> DEFINE r == [run[p] EXCEPT !.at = "plan", !.resuming = FALSE]
    <3>1. r \in RunState /\ r.at = "plan" /\ r.wp = run[p].wp
          /\ r.candidate = run[p].candidate /\ r.verdict = run[p].verdict
      BY <1>0 DEF RunState
    <3>2. run' = [run EXCEPT ![p] = r]  BY <2>1 DEF Bound
    <3>3. run[p].at = "binding"  BY <1>3 DEF BindCohort
    <3>4. run \in [Proc -> RunState]  BY DEF CTypeInv, CommissionTypeOK
    <3> HIDE DEF r
    <3>5. /\ run' \in [Proc -> RunState] /\ run'[p] = r
          /\ \A q \in Proc \ {p} : run'[q] = run[q]
      BY <3>1, <3>2, <3>4, Fields
    <3> QED BY <1>0, <2>1, <3>1, <3>3, <3>5 DEF Effect, Pending, W
  <2> QED BY <1>0, <1>3, <2>1, GotoEffect, RaiseEffect DEF BindCohort, Moving, Transition, vars
<1>4. CASE Plan(p)
  BY <1>0, <1>4, GotoEffect, FailEffect, RaiseEffect
     DEF Plan, AddFinding, FailureClasses, vars, rows
<1>5. CASE StopBlocked(p)
  BY <1>0, <1>5, EndEffect, RaiseEffect
     DEF StopBlocked, Moving, Transition, Return, Verdicts
<1>6. CASE PrepareWorktree(p)
  BY <1>0, <1>6, GotoEffect, FailEffect DEF PrepareWorktree, FailureClasses, vars
<1>7. CASE Execute(p)
  BY <1>0, <1>7, GotoEffect, RaiseEffect DEF Execute, Moving, Transition
<1>8. CASE Implement(p)
  <2>1. ASSUME NEW c \in Candidate \ made,
               run' = [run EXCEPT ![p].at = "record", ![p].candidate = c],
               made' = made \cup {c}
        PROVE  Effect(p)
    <3> DEFINE r == [run[p] EXCEPT !.at = "record", !.candidate = c]
    <3>1. r \in RunState /\ r.at = "record" /\ r.wp = run[p].wp
          /\ r.candidate = c /\ r.verdict = run[p].verdict
      BY <1>0 DEF RunState
    <3>2. run' = [run EXCEPT ![p] = r]  BY <2>1
    <3>3. run[p].at = "implement" /\ UNCHANGED evidence
      BY <1>8 DEF Implement, vars
    <3>4. run \in [Proc -> RunState]  BY DEF CTypeInv, CommissionTypeOK
    <3> HIDE DEF r
    <3>5. /\ run' \in [Proc -> RunState] /\ run'[p] = r
          /\ \A q \in Proc \ {p} : run'[q] = run[q]
      BY <3>1, <3>2, <3>4, Fields
    <3> QED BY <1>0, <2>1, <3>1, <3>3, <3>5 DEF Effect, W
  <2> QED BY <1>0, <1>8, <2>1, GotoEffect, FailEffect DEF Implement, FailureClasses, vars,
             CandidateImplicated
<1>9. CASE RecordCandidate(p)
  BY <1>0, <1>9, GotoEffect DEF RecordCandidate, SetCandidate
<1>10. CASE Supersede(p)
  BY <1>0, <1>10, GotoEffect DEF Supersede, SupersedeFindings, rows
<1>11. CASE Inspect(p)
  <2>1. ASSUME run' = [run EXCEPT ![p].at = "stage", ![p].kind = "specification_compliance"],
               UNCHANGED <<made, evidence>>
        PROVE  Effect(p)
    <3> DEFINE r == [run[p] EXCEPT !.at = "stage", !.kind = "specification_compliance"]
    <3>1. r \in RunState /\ r.at = "stage" /\ r.wp = run[p].wp
          /\ r.candidate = run[p].candidate /\ r.verdict = run[p].verdict
      BY <1>0 DEF RunState, Kinds
    <3>2. run' = [run EXCEPT ![p] = r]  BY <2>1
    <3>3. run[p].at = "inspect" /\ run[p].candidate \in Candidate
      BY <1>11 DEF Inspect, CTypeInv, HasCandidate
    <3>4. run \in [Proc -> RunState]  BY DEF CTypeInv, CommissionTypeOK
    <3> HIDE DEF r
    <3>5. /\ run' \in [Proc -> RunState] /\ run'[p] = r
          /\ \A q \in Proc \ {p} : run'[q] = run[q]
      BY <3>1, <3>2, <3>4, Fields
    <3> QED BY <1>0, <2>1, <3>1, <3>3, <3>5 DEF Effect, Pending, W
  <2> QED BY <1>0, <1>11, <2>1, FailEffect, RaiseEffect
          DEF Inspect, AddFinding, FailureClasses, CandidateImplicated, vars, rows
<1>12. CASE EnterStage(p)
  BY <1>0, <1>12, GotoEffect, RaiseEffect DEF EnterStage, Moving, Transition
<1>13. CASE Review(p)
  BY <1>0, <1>13, ReviewEffect
<1>14. CASE FileFindings(p)
  <2>1. CASE UNCHANGED <<run, made, evidence>>
    BY <1>0, <1>14, <2>1 DEF FileFindings, Effect, CTypeInv, CommissionTypeOK, HasCandidate, W
  <2> QED BY <1>0, <1>14, <2>1, FailEffect
          DEF FileFindings, AddFinding, ReportedClasses, FailureClasses,
              CandidateImplicated, vars, rows
<1>15. CASE TechComplete(p)
  BY <1>0, <1>15, GotoEffect, RaiseEffect DEF TechComplete, Moving, Transition
<1>16. CASE AcceptanceReady(p)
  BY <1>0, <1>16, GotoEffect, RaiseEffect DEF AcceptanceReady, Moving, Transition
<1>17. CASE EvaluateGate(p)
  <2>1. \A v \in {"MERGE_ELIGIBLE", "REFUSED"} : v \in Verdicts /\ v # "none"
    BY DEF Verdicts
  <2> QED BY <1>0, <1>17, <2>1, EndEffect, RaiseEffect DEF EvaluateGate, Return, vars
<1>18. CASE Fail(p)
  <2>1. "FAILED" \in Verdicts /\ "FAILED" # "none"  BY DEF Verdicts
  <2> QED BY <1>0, <1>18, <2>1, GotoEffect, EndEffect, RaiseEffect
          DEF Fail, Moving, Transition, Return
<1>19. CASE FailRetry(p)
  <2>1. "FAILED" \in Verdicts /\ "FAILED" # "none"  BY DEF Verdicts
  <2> QED BY <1>0, <1>19, <2>1, EndEffect, RaiseEffect
          DEF FailRetry, Moving, Transition, Return
<1> QED BY <1>1, <1>2, <1>3, <1>4, <1>5, <1>6, <1>7, <1>8, <1>9, <1>10, <1>11, <1>12,
           <1>13, <1>14, <1>15, <1>16, <1>17, <1>18, <1>19 DEF RunStep

(***************************************************************************)
(* What one step of anybody does.                                          *)
(***************************************************************************)

\* A step of p's process outside orchestrator.run: on the way in, on the way
\* out, its death, or an answer of the relay that ends the run.  It makes nothing, says nothing of a candidate and leaves
\* the pid of p in the file only when p goes inside.
Approach(p) ==
    /\ run' \in [Proc -> RunState]
    /\ \A q \in Proc \ {p} : run'[q] = run[q]
    /\ run'[p].at \notin WithCandidate
    /\ run'[p].at # "idle" => run'[p].wp \in WP
    /\ run'[p].candidate \in {run[p].candidate, None}
    /\ run'[p].verdict = "none"
    /\ UNCHANGED <<made, evidence, blocking, attested>>
    /\ incidents' \in 0 .. MaxIncidents
    /\ \/ lock' = p /\ run'[p].at \in Inside
       \/ lock' = lock /\ (lock = p => run[p].at \in BeforeRun)
       \/ lock' \in {None, Stale}

LEMMA ApproachByStep ==
    ASSUME CTypeInv, VerdictReturned, NEW p \in Proc, NEW s \in Steps \ WithCandidate,
           Goto(p, s), run[p].at \in BeforeRun \ {"idle"},
           UNCHANGED <<made, evidence, blocking, incidents, attested>>,
           lock' = lock \/ (lock' = p /\ s \in Inside)
    PROVE  Approach(p)
<1>1. /\ run \in [Proc -> RunState] /\ run[p].verdict = "none"
      /\ run[p].wp \in WP
      /\ incidents \in 0 .. MaxIncidents
  BY DEF CTypeInv, CommissionTypeOK, VerdictReturned, BeforeRun, W
<1>2. s \in Steps /\ s \notin WithCandidate  OBVIOUS
<1> QED BY <1>1, <1>2, AtStep DEF Approach

\* A process that starts on a package or is left with none.
LEMMA ApproachFromIdle ==
    ASSUME CTypeInv, NEW p \in Proc, NEW r \in RunState, run' = [run EXCEPT ![p] = r],
           r.at = "idle" \/ (r.at = "admit" /\ r.wp \in WP),
           r.candidate = None, r.verdict = "none",
           UNCHANGED <<made, evidence, blocking, attested>>, incidents' \in 0 .. MaxIncidents,
           \/ lock' = lock /\ (lock = p => run[p].at \in BeforeRun)
           \/ lock' \in {None, Stale}
    PROVE  Approach(p)
<1>1. run \in [Proc -> RunState]  BY DEF CTypeInv, CommissionTypeOK
<1>2. /\ run' \in [Proc -> RunState] /\ run'[p] = r
      /\ \A q \in Proc \ {p} : run'[q] = run[q]
  BY <1>1, Fields
<1> QED BY <1>2 DEF Approach, WithCandidate

LEMMA ProcessStep ==
    ASSUME CTypeInv, VerdictReturned, NEW p \in Proc,
           (\E w \in WP : Invoke(p, w)) \/ Invocation(p) \/ Kill(p) \/ Garble(p)
    PROVE  Running(p) \/ Approach(p)
<1> USE DEF BeforeRun
<1>0. incidents \in 0 .. MaxIncidents /\ (run[p].at # "idle" => run[p].wp \in WP) /\ Inside \subseteq Steps
  BY DEF CTypeInv, CommissionTypeOK, W, Inside
<1>1. ASSUME NEW w \in WP, Invoke(p, w) PROVE Approach(p)
  <2> DEFINE r == [Idle EXCEPT !.at = "admit", !.wp = w]
  <2>1. /\ r \in RunState /\ r.at = "admit" /\ r.wp \in WP
        /\ r.candidate = None /\ r.verdict = "none"
    BY DEF Idle, RunState, Steps, Kinds, FailureClasses, Verdicts
  <2>2. run' = [run EXCEPT ![p] = r]  BY <1>1 DEF Invoke
  <2> HIDE DEF r
  <2> QED BY <1>0, <1>1, <2>1, <2>2, ApproachFromIdle DEF Invoke, outside, vars
<1>2. CASE Admit(p)
  <2>1. Admission(run[p].at, state[W(p)]) \in Steps \ WithCandidate
    BY DEF Admission, Steps, WithCandidate
  <2> QED BY <1>2, <2>1, ApproachByStep DEF Admit, outside, vars
<1>3. CASE AskHolder(p)
  <2>1. "idle" \in Steps \ WithCandidate /\ "giveup" \in Steps \ WithCandidate
    BY DEF Steps, WithCandidate
  <2> QED BY <1>3, <2>1, ApproachByStep DEF AskHolder, outside, vars
<1>4. CASE GiveUpDeadRun(p) \/ RetryFailed(p) \/ ReplanRetry(p)
  <2>1. {"idle", "given_up", "replan", "replanned"} \subseteq Steps \ WithCandidate
    BY DEF Steps, WithCandidate
  <2> QED BY <1>4, <2>1, ApproachByStep
          DEF GiveUpDeadRun, RetryFailed, ReplanRetry, Walking, Transition, vars
<1>5. CASE Prepare(p)
  <2>1. "idle" \in Steps \ WithCandidate /\ "lock" \in Steps \ WithCandidate
    BY DEF Steps, WithCandidate
  <2> QED BY <1>5, <2>1, ApproachByStep DEF Prepare, outside, vars
<1>6. CASE TakeLock(p)
  <2>1. "precondition" \in Steps \ WithCandidate /\ "precondition" \in Inside
    BY DEF Steps, WithCandidate, Inside
  <2> QED BY <1>6, <2>1, ApproachByStep DEF TakeLock, outside, vars
<1>8. /\ Idle \in RunState /\ Idle.at = "idle"
      /\ Idle.candidate = None /\ Idle.verdict = "none"
  BY DEF Idle, RunState, Steps, Kinds, FailureClasses, Verdicts
<1>9. CASE Release(p)
  BY <1>0, <1>8, <1>9, ApproachFromIdle DEF Release, outside, vars
<1>10. CASE Kill(p)
  <2>1. incidents' \in 0 .. MaxIncidents  BY <1>0, <1>10, ProcessAssumption DEF Kill
  <2>2. (lock' = lock /\ lock # p) \/ lock' = Stale  BY <1>10 DEF Kill
  <2> QED BY <1>8, <1>10, <2>1, <2>2, ApproachFromIdle DEF Kill, vars
<1>11. CASE Garble(p)
  <2>1. /\ run \in [Proc -> RunState] /\ run[p].wp \in WP /\ run[p].verdict = "none"
    BY <1>11 DEF CTypeInv, CommissionTypeOK, VerdictReturned, Garble, Telling, W
  <2>2. /\ run' \in [Proc -> RunState]
        /\ \A q \in Proc \ {p} : run'[q] = run[q]
        /\ run'[p].at = "raised" /\ run'[p].verdict = "none"
        /\ run'[p].wp = run[p].wp /\ run'[p].candidate = run[p].candidate
    <3>1. "raised" \in Steps /\ "none" \in Verdicts  BY DEF Steps, Verdicts
    <3> QED BY <1>11, <2>1, <3>1, EndStep DEF Garble, Raise
  <2>3. incidents' \in 0 .. MaxIncidents  BY <1>0, <1>11, ProcessAssumption DEF Garble
  <2>4. "raised" \in Inside /\ "raised" \notin WithCandidate
    BY DEF Inside, Steps, WithCandidate
  <2>5. UNCHANGED <<made, evidence, lock, blocking, attested>>
    BY <1>11 DEF Garble, Raise, vars
  <2> QED BY <2>1, <2>2, <2>3, <2>4, <2>5 DEF Approach
<1> QED BY <1>1, <1>2, <1>3, <1>4, <1>5, <1>6, <1>9, <1>10, <1>11 DEF Invocation

\* An answer the operator appends is marked as his.
Attesting(w) ==
    /\ \E e \in Evidence : /\ e.candidate \in made
                           /\ evidence' = [evidence EXCEPT ![w] = Append(@, e)]
    /\ attested' = [attested EXCEPT ![w] = @ \cup {Len(evidence[w]) + 1}]

\* The operator moves packages and appends evidence; runs, candidates and the
\* answers of reviews are not his.
OperatorEffect ==
    /\ UNCHANGED <<run, made, lock>>
    /\ blocking' \subseteq WP
    /\ incidents' \in 0 .. MaxIncidents
    /\ UNCHANGED <<evidence, attested>> \/ \E w \in WP : Attesting(w)

LEMMA OperatorStep ==
    ASSUME CTypeInv, NEW w \in WP, Operator(w)
    PROVE  OperatorEffect
<1>1. /\ blocking \subseteq WP /\ incidents \in 0 .. MaxIncidents /\ MaxIncidents \in Nat
      /\ made \subseteq Candidate
  BY ProcessAssumption DEF CTypeInv, CommissionTypeOK
<1>2. CASE Seed(w) \/ Block(w) \/ NoteBlock(w)
           \/ \E to \in OperatorTargets, c \in made \cup {None} : OperatorMove(w, to, c)
  BY <1>1, <1>2 DEF OperatorEffect, Seed, Block, NoteBlock, OperatorMove, Register,
                    Transition, AddFinding, ovars, rows
<1>3. ASSUME NEW c \in made, NEW t \in Attestations, Attest(w, c, t)
      PROVE  OperatorEffect
  <2> DEFINE e == [kind |-> t.kind, candidate |-> c, actor |-> t.actor, verdict |-> t.verdict]
  <2>1. e \in Evidence /\ e.candidate \in made
    BY <1>1, ProcessAssumption DEF Evidence
  <2>2. evidence' = [evidence EXCEPT ![w] = Append(@, e)]
    BY <1>3 DEF Attest, AddEvidence
  <2> HIDE DEF e
  <2>3. Attesting(w)  BY <1>3, <2>1, <2>2 DEF Attesting, Attest
  <2>4. incidents' \in 0 .. MaxIncidents  BY <1>1, <1>3 DEF Attest
  <2> QED BY <1>1, <1>3, <2>3, <2>4 DEF OperatorEffect, Attest, ovars
<1> QED BY <1>2, <1>3 DEF Operator

\* A step of a run calls the store on its package, or leaves the store alone.
LEMMA RunCalls ==
    ASSUME CTypeInv, NEW p \in Proc, RunStep(p)
    PROVE  Call(W(p)) \/ UNCHANGED vars
<1>0. /\ run[p] \in RunState
      /\ run[p].at \in WithCandidate => run[p].candidate \in Candidate
  BY DEF CTypeInv, CommissionTypeOK, HasCandidate
<1>1. ASSUME NEW to \in States, NEW a \in Actor, NEW c \in Candidate \cup {None},
             NEW w, Transition(w, to, a, c)
      PROVE  Call(w)
  BY <1>1 DEF Call
<1>2. {"implementer", "architect", "operator"} \subseteq Actor  BY RoleAssumption
<1>3. ASSUME NEW w, NEW s \in Blocking, NEW c \in Candidate \cup {None}, AddFinding(w, s, c)
      PROVE  Call(w)
  BY <1>3 DEF Call, Blocking
<1>4. None \in Candidate \cup {None}  OBVIOUS
<1>5. /\ {"PACKAGED", "PLANNED", "BLOCKED", "EXECUTING", "TECH_COMPLETE",
          "ACCEPTANCE_READY", "FAILED", "RETRY"} \subseteq States
      /\ StageState[run[p].kind] \in States
  BY <1>0 DEF States, StageState, RunState, Kinds
<1>6. CASE \/ Precondition(p) \/ PrepareWorktree(p) \/ Implement(p) \/ EvaluateGate(p)
  BY <1>6 DEF Precondition, PrepareWorktree, Implement, EvaluateGate, Raise
<1>7. CASE \/ BuildPacket(p) \/ BindCohort(p) \/ StopBlocked(p) \/ Execute(p)
           \/ EnterStage(p) \/ AcceptanceReady(p) \/ Fail(p) \/ FailRetry(p)
  BY <1>1, <1>2, <1>4, <1>5, <1>7
     DEF BuildPacket, BindCohort, StopBlocked, Execute, EnterStage, AcceptanceReady,
         Fail, FailRetry, Moving, Raise
<1>8. CASE Plan(p)  BY <1>3, <1>4, <1>8 DEF Plan, Raise
<1>9. CASE RecordCandidate(p) \/ Supersede(p)
  BY <1>0, <1>9 DEF RecordCandidate, Supersede, WithCandidate, Call
<1>10. CASE Inspect(p)
  BY <1>0, <1>3, <1>10 DEF Inspect, Raise, WithCandidate
<1>11. CASE Review(p)
  <2>1. /\ run[p].candidate \in Candidate /\ run[p].kind \in Kinds
    BY <1>0, <1>11 DEF Review, RunState, WithCandidate
  <2>2. Asked[run[p].kind] \in Actor
    BY <2>1, RoleAssumption DEF Asked, Kinds
  <2>3. ASSUME NEW v \in {"PASS", "FAIL"},
               RecordReview(W(p), run[p].kind, run[p].candidate, Asked[run[p].kind], v)
        PROVE  Call(W(p))
    <3> DEFINE e == [kind |-> run[p].kind, candidate |-> run[p].candidate,
                     actor |-> Asked[run[p].kind], verdict |-> v]
    <3>1. e \in Evidence  BY <2>1, <2>2 DEF Evidence
    <3>2. AddEvidence(W(p), e)  BY <2>3 DEF RecordReview
    <3> QED BY <3>1, <3>2 DEF Call
  <2> QED BY <1>11, <2>3 DEF Review, Raise
<1>12. CASE FileFindings(p)  BY <1>4, <1>12 DEF FileFindings, Call
<1>13. CASE TechComplete(p)
  BY <1>0, <1>1, <1>2, <1>5, <1>13 DEF TechComplete, Moving, Raise, WithCandidate
<1> QED BY <1>6, <1>7, <1>8, <1>9, <1>10, <1>11, <1>12, <1>13 DEF RunStep

\* Nothing moves the store but the calls of class Store.
LEMMA StepIsCall ==
    ASSUME CTypeInv, CommissionNext
    PROVE  (\E w \in WP : Call(w)) \/ UNCHANGED vars
<1>1. ASSUME NEW to \in States, NEW c \in Candidate \cup {None},
             NEW w, Transition(w, to, "operator", c)
      PROVE  Call(w)
  BY <1>1, RoleAssumption DEF Call
<1>2. {"FAILED", "RETRY", "PLANNED", "BLOCKED"} \subseteq States  BY DEF States
<1>3. ASSUME NEW p \in Proc, NEW w \in WP, Invoke(p, w) PROVE UNCHANGED vars
  BY <1>3 DEF Invoke, outside
<1>4. ASSUME NEW p \in Proc, Kill(p) \/ Garble(p) PROVE UNCHANGED vars
  BY <1>4 DEF Kill, Garble, Raise
<1>5. ASSUME NEW p \in Proc, Invocation(p) PROVE (\E w \in WP : Call(w)) \/ UNCHANGED vars
  <2>1. run[p].at # "idle" => W(p) \in WP
    BY DEF CTypeInv, CommissionTypeOK
  <2>2. CASE Running(p)
    <3>1. run[p].at # "idle"
      BY <2>2 DEF Running, RunStep, Precondition, BuildPacket, BindCohort, Plan,
         StopBlocked, PrepareWorktree, Execute, Implement, RecordCandidate, Supersede,
         Inspect, EnterStage, Review, FileFindings, TechComplete, AcceptanceReady,
         EvaluateGate, Fail, FailRetry
    <3> QED BY <2>1, <2>2, <3>1, RunCalls DEF Running
  <2>3. CASE GiveUpDeadRun(p) \/ RetryFailed(p) \/ ReplanRetry(p)
    BY <1>1, <1>2, <2>1, <2>3 DEF GiveUpDeadRun, RetryFailed, ReplanRetry, Walking
  <2>4. CASE Admit(p) \/ AskHolder(p) \/ Prepare(p) \/ TakeLock(p) \/ Release(p)
    BY <2>4 DEF Admit, AskHolder, Prepare, TakeLock, Release, outside
  <2> QED BY <1>5, <2>2, <2>3, <2>4 DEF Invocation
<1>6. ASSUME NEW w \in WP, Operator(w) PROVE Call(w)
  <2>1. ASSUME NEW to \in OperatorTargets, NEW c \in made \cup {None}, OperatorMove(w, to, c)
        PROVE  Call(w)
    <3>1. to \in States /\ c \in Candidate \cup {None}
      BY ProcessAssumption DEF CTypeInv, CommissionTypeOK
    <3> QED BY <1>1, <2>1, <3>1 DEF OperatorMove
  <2>2. CASE Seed(w)  BY <2>2 DEF Seed, Call
  <2>3. CASE Block(w)  BY <1>1, <1>2, <2>3 DEF Block
  <2>4. CASE NoteBlock(w)  BY <2>4 DEF NoteBlock, Call, Blocking
  <2>5. ASSUME NEW c \in made, NEW t \in Attestations, Attest(w, c, t) PROVE Call(w)
    <3> DEFINE e == [kind |-> t.kind, candidate |-> c, actor |-> t.actor,
                     verdict |-> t.verdict]
    <3>1. e \in Evidence
      BY ProcessAssumption DEF Evidence, CTypeInv, CommissionTypeOK
    <3>2. AddEvidence(w, e)  BY <2>5 DEF Attest
    <3> QED BY <3>1, <3>2 DEF Call
  <2> QED BY <1>6, <2>1, <2>2, <2>3, <2>4, <2>5 DEF Operator
<1> QED BY <1>3, <1>4, <1>5, <1>6 DEF CommissionNext

(***************************************************************************)
(* The invariant holds.                                                    *)
(***************************************************************************)
CInv ==
    /\ CTypeInv /\ IInv
    /\ LockNamesLiveRun
    /\ AnswerInv
    /\ EligibleInv

\* The three things a step can be.
Stepped ==
    \/ \E p \in Proc : Effect(p) /\ UNCHANGED <<lock, blocking, incidents, attested>>
    \/ \E p \in Proc : Approach(p)
    \/ OperatorEffect

LEMMA NextIsStepped == CInv /\ CommissionNext => Stepped
BY ProcessStep, RunEffect, OperatorStep
   DEF CInv, EligibleInv, CommissionNext, Stepped, Running

LEMMA CTypeInvStep ==
    ASSUME CTypeInv, TypeOK', Stepped
    PROVE  CTypeInv'
<1> USE DEF CTypeInv, CommissionTypeOK, HasCandidate, W
<1>1. ASSUME NEW p \in Proc, Effect(p), UNCHANGED <<lock, blocking, incidents, attested>>
      PROVE  CTypeInv'
  BY <1>1 DEF Effect, Working, Inside, BeforeRun
<1>2. ASSUME NEW p \in Proc, Approach(p) PROVE CTypeInv'
  BY <1>2 DEF Approach
<1>3. CASE OperatorEffect
  <2>1. \A w \in WP : Len(evidence[w]) + 1 \in Nat
    BY DEF TypeOK
  <2>2. attested' \in [WP -> SUBSET Nat]
    BY <1>3, <2>1 DEF OperatorEffect, Attesting
  <2> QED BY <1>3, <2>2 DEF OperatorEffect
<1> QED BY <1>1, <1>2, <1>3 DEF Stepped

LEMMA LockStep ==
    ASSUME LockNamesLiveRun, Stepped
    PROVE  LockNamesLiveRun'
<1>1. ASSUME NEW p \in Proc, Effect(p), UNCHANGED <<lock, blocking, incidents, attested>>
      PROVE  LockNamesLiveRun'
  BY <1>1 DEF Effect, Inside, LockNamesLiveRun
<1>2. ASSUME NEW p \in Proc, Approach(p) PROVE LockNamesLiveRun'
  BY <1>2, ProcessAssumption DEF Approach, Inside, LockNamesLiveRun
<1>3. CASE OperatorEffect
  BY <1>3 DEF LockNamesLiveRun, OperatorEffect
<1> QED BY <1>1, <1>2, <1>3 DEF Stepped

\* What an appended row changes in the evidence.
LEMMA Appended ==
    ASSUME TypeOK, NEW w \in WP, NEW e \in Evidence,
           evidence' = [evidence EXCEPT ![w] = Append(@, e)]
    PROVE  /\ \A v \in WP \ {w} : evidence'[v] = evidence[v]
           /\ Len(evidence[w]) + 1 \notin DOMAIN evidence[w]
           /\ DOMAIN evidence'[w] = DOMAIN evidence[w] \cup {Len(evidence[w]) + 1}
           /\ \A i \in DOMAIN evidence[w] : evidence'[w][i] = evidence[w][i]
           /\ evidence'[w][Len(evidence[w]) + 1] = e
<1>1. evidence[w] \in Seq(Evidence)  BY DEF TypeOK
<1>2. evidence'[w] = Append(evidence[w], e) /\ \A v \in WP \ {w} : evidence'[v] = evidence[v]
  BY DEF TypeOK
<1> QED BY <1>1, <1>2

\* A row the operator appends is no review's, and the reviews stay what they were.
LEMMA ReviewsKept ==
    ASSUME CTypeInv, NEW w \in WP, Attesting(w)
    PROVE  /\ \A v \in WP : Reviews(v)' = Reviews(v)
           /\ \A v \in WP : \A i \in DOMAIN evidence[v] : evidence'[v][i] = evidence[v][i]
           /\ \A v \in WP : \A i \in DOMAIN evidence'[v] :
                 \/ i \in DOMAIN evidence[v] /\ evidence'[v][i] = evidence[v][i]
                 \/ evidence'[v][i].candidate \in made
<1>1. PICK e \in Evidence : /\ e.candidate \in made
                            /\ evidence' = [evidence EXCEPT ![w] = Append(@, e)]
  BY DEF Attesting
<1> DEFINE n == Len(evidence[w]) + 1
<1>2. /\ \A v \in WP \ {w} : evidence'[v] = evidence[v]
      /\ n \notin DOMAIN evidence[w]
      /\ DOMAIN evidence'[w] = DOMAIN evidence[w] \cup {n}
      /\ \A i \in DOMAIN evidence[w] : evidence'[w][i] = evidence[w][i]
      /\ evidence'[w][n] = e
  BY <1>1, Appended DEF CTypeInv, CommissionTypeOK
<1>3. /\ attested'[w] = attested[w] \cup {n}
      /\ \A v \in WP \ {w} : attested'[v] = attested[v]
  BY DEF Attesting, CTypeInv, CommissionTypeOK
<1> HIDE DEF n
<1> QED BY <1>1, <1>2, <1>3 DEF Reviews

LEMMA AnswerStep ==
    ASSUME CTypeInv, AnswerInv, Stepped
    PROVE  AnswerInv'
<1>1. ASSUME NEW p \in Proc, Effect(p), UNCHANGED attested PROVE AnswerInv'
  <2> USE DEF CandidatesMade, CandidatesDistinct, NotYetAnswered, OneAnswerPerCandidate,
              Reviews
  <2>1. CASE /\ run'[p].candidate = run[p].candidate /\ made' = made
             /\ Pending(run'[p]) \subseteq Pending(run[p])
             /\ evidence' = evidence
    BY <1>1, <2>1 DEF AnswerInv, Effect
  <2>2. CASE /\ run'[p].candidate \in Candidate \ made
             /\ made' = made \cup {run'[p].candidate}
             /\ evidence' = evidence
    BY <1>1, <2>2, NoneAssumption DEF AnswerInv, Effect
  <2>3. ASSUME run'[p].candidate = run[p].candidate, made' = made,
               Pending(run'[p]) \subseteq Pending(run[p]),
               run[p].at = "review", run[p].kind \notin Pending(run'[p]),
               NEW e \in Evidence, e.kind = run[p].kind, e.candidate = run[p].candidate,
               evidence' = [evidence EXCEPT ![W(p)] = Append(@, e)]
        PROVE  AnswerInv'
    <3>1. /\ W(p) \in WP /\ run[p].kind \in Kinds
          /\ run[p].candidate \in Candidate /\ run[p].candidate \in made
          /\ run[p].candidate # None
      BY <2>3, NoneAssumption DEF CTypeInv, CommissionTypeOK, RunState, HasCandidate,
         WithCandidate, AnswerInv
    <3>2. e.kind \in Pending(run[p])
      BY <2>3, <3>1 DEF Pending, Rank, Kinds
    <3> DEFINE n == Len(evidence[W(p)]) + 1
    <3>3. /\ \A v \in WP \ {W(p)} : evidence'[v] = evidence[v]
          /\ n \notin DOMAIN evidence[W(p)]
          /\ DOMAIN evidence'[W(p)] = DOMAIN evidence[W(p)] \cup {n}
          /\ \A i \in DOMAIN evidence[W(p)] : evidence'[W(p)][i] = evidence[W(p)][i]
          /\ evidence'[W(p)][n] = e
      BY <2>3, <3>1, Appended DEF CTypeInv, CommissionTypeOK
    <3> HIDE DEF n
    <3>4. \A q \in Proc \ {p} : run'[q] = run[q]  BY <1>1 DEF Effect
    <3>5. CandidatesMade' /\ CandidatesDistinct'
      BY <2>3, <3>1, <3>3, <3>4 DEF AnswerInv
    <3>6. \A i \in Reviews(W(p)) : evidence[W(p)][i].candidate = e.candidate
                                       => evidence[W(p)][i].kind # e.kind
      BY <2>3, <3>1, <3>2 DEF AnswerInv
    <3>7. OneAnswerPerCandidate'
      <4> SUFFICES ASSUME NEW w \in WP, NEW i \in Reviews(w)',
                          NEW j \in Reviews(w)',
                          evidence'[w][i].kind = evidence'[w][j].kind,
                          evidence'[w][i].candidate = evidence'[w][j].candidate
                   PROVE  i = j
        OBVIOUS
      <4>1. CASE w = W(p)  BY <1>1, <3>1, <3>3, <3>6, <4>1 DEF AnswerInv
      <4>2. CASE w # W(p)  BY <1>1, <3>3, <4>2 DEF AnswerInv
      <4> QED BY <4>1, <4>2
    <3>8. NotYetAnswered'
      <4> SUFFICES ASSUME NEW q \in Proc, NEW w \in WP, NEW i \in Reviews(w)',
                          evidence'[w][i].candidate = run'[q].candidate
                   PROVE  evidence'[w][i].kind \notin Pending(run'[q])
        OBVIOUS
      <4>1. run'[q].candidate = run[q].candidate
            /\ Pending(run'[q]) \subseteq Pending(run[q])
        BY <2>3, <3>4
      <4>2. CASE w = W(p) /\ i = n
        <5>1. run[q].candidate = run[p].candidate  BY <2>3, <3>3, <4>1, <4>2
        <5>2. q = p  BY <3>1, <5>1 DEF AnswerInv
        <5> QED BY <2>3, <3>3, <4>2, <5>2
      <4>3. CASE ~(w = W(p) /\ i = n)
        <5>1. i \in Reviews(w) /\ evidence'[w][i] = evidence[w][i]
          BY <1>1, <3>1, <3>3, <4>3
        <5> QED BY <4>1, <5>1 DEF AnswerInv
      <4> QED BY <4>2, <4>3
    <3> QED BY <3>5, <3>7, <3>8 DEF AnswerInv
  <2> QED BY <1>1, <2>1, <2>2, <2>3 DEF Effect
<1>2. ASSUME NEW p \in Proc, Approach(p) PROVE AnswerInv'
  <2>1. Pending(run'[p]) = {}
    BY <1>2 DEF Approach, Pending, WithCandidate
  <2> QED BY <1>2, <2>1
      DEF Approach, AnswerInv, CandidatesMade, CandidatesDistinct, NotYetAnswered,
          OneAnswerPerCandidate, Reviews
<1>3. CASE OperatorEffect
  <2> USE DEF OperatorEffect, AnswerInv, CandidatesMade, CandidatesDistinct,
              NotYetAnswered, OneAnswerPerCandidate
  <2>1. CASE UNCHANGED <<evidence, attested>>  BY <1>3, <2>1 DEF Reviews
  <2>2. ASSUME NEW w \in WP, Attesting(w) PROVE AnswerInv'
    <3>1. \A v \in WP : \A i \in Reviews(v) : i \in DOMAIN evidence[v]  BY DEF Reviews
    <3> QED BY <1>3, <2>2, <3>1, ReviewsKept
  <2> QED BY <1>3, <2>1, <2>2
<1> QED BY <1>1, <1>2, <1>3 DEF Stepped

LEMMA EligibleStep ==
    ASSUME CTypeInv, AnswerInv, EligibleInv, TypeOK', Stepped
    PROVE  EligibleInv'
<1> USE DEF EligibleInv, VerdictReturned, EligibleNeverRefused, NotRefused, W
<1>1. ASSUME NEW p \in Proc, Effect(p), UNCHANGED attested PROVE EligibleInv'
  <2>1. VerdictReturned'  BY <1>1 DEF Effect, Working
  \* Of the rows about q's candidate, p's step adds none but its own answer.
  <2>2. ASSUME NEW q \in Proc, NEW w \in WP, NEW i \in Reviews(w)',
               run'[q].candidate \in Candidate,
               evidence'[w][i].candidate = run'[q].candidate
        PROVE  \/ /\ i \in Reviews(w) /\ evidence'[w][i] = evidence[w][i]
                  /\ run'[q].candidate = run[q].candidate
               \/ q = p /\ (run'[p].at \in Clean => evidence'[w][i].verdict = "PASS")
    <3>1. CASE evidence' = evidence
      <4>1. i \in Reviews(w) /\ evidence'[w][i] = evidence[w][i]
        BY <1>1, <3>1 DEF Reviews
      <4>2. evidence[w][i].candidate \in made
        BY <4>1 DEF AnswerInv, CandidatesMade, Reviews
      <4> QED BY <1>1, <2>2, <4>1, <4>2 DEF Effect
    <3>2. ASSUME run[p].at = "review", NEW e \in Evidence, e.candidate = run[p].candidate,
                 run'[p].at \in Clean => e.verdict = "PASS",
                 evidence' = [evidence EXCEPT ![W(p)] = Append(@, e)]
          PROVE  \/ /\ i \in Reviews(w) /\ evidence'[w][i] = evidence[w][i]
                    /\ run'[q].candidate = run[q].candidate
                 \/ q = p /\ (run'[p].at \in Clean => evidence'[w][i].verdict = "PASS")
      <4>1. W(p) \in WP /\ TypeOK /\ run[p].candidate \in Candidate
            /\ run[p].candidate \in made
        BY <3>2, NoneAssumption
           DEF CTypeInv, CommissionTypeOK, HasCandidate, WithCandidate, AnswerInv,
               CandidatesMade
      <4> DEFINE n == Len(evidence[W(p)]) + 1
      <4>2. /\ \A v \in WP \ {W(p)} : evidence'[v] = evidence[v]
            /\ DOMAIN evidence'[W(p)] = DOMAIN evidence[W(p)] \cup {n}
            /\ \A j \in DOMAIN evidence[W(p)] : evidence'[W(p)][j] = evidence[W(p)][j]
            /\ evidence'[W(p)][n] = e
        BY <3>2, <4>1, Appended
      <4> HIDE DEF n
      <4>3. CASE w = W(p) /\ i = n
        <5>1. run'[q].candidate = run[p].candidate  BY <2>2, <3>2, <4>2, <4>3
        <5>2. q = p \/ run[q].candidate = run[p].candidate
          BY <1>1, <5>1 DEF Effect
        <5>3. q = p
          BY <4>1, <5>2, NoneAssumption DEF AnswerInv, CandidatesDistinct
        <5> QED BY <3>2, <4>2, <4>3, <5>3
      <4>4. CASE ~(w = W(p) /\ i = n)
        <5>1. i \in Reviews(w) /\ evidence'[w][i] = evidence[w][i]
          BY <1>1, <2>2, <4>2, <4>4 DEF Reviews
        <5>2. evidence[w][i].candidate \in made
          BY <5>1 DEF AnswerInv, CandidatesMade, Reviews
        <5> QED BY <1>1, <2>2, <5>1, <5>2 DEF Effect
      <4> QED BY <4>3, <4>4
    <3> QED BY <1>1, <3>1, <3>2 DEF Effect
  <2>3. \A q \in Proc : run'[q].at \in Clean => run'[q].candidate \in Candidate
    BY <1>1 DEF Effect, Clean, CTypeInv, HasCandidate
  <2>4. NotRefused'
    <3> SUFFICES ASSUME NEW q \in Proc, NEW w \in WP, run'[q].at \in Clean,
                        NEW i \in Reviews(w)',
                        evidence'[w][i].candidate = run'[q].candidate
                 PROVE  evidence'[w][i].verdict = "PASS"
      OBVIOUS
    <3>1. CASE /\ i \in Reviews(w) /\ evidence'[w][i] = evidence[w][i]
               /\ run'[q].candidate = run[q].candidate
      <4>1. CASE run[q].at \in Clean  BY <3>1, <4>1
      <4>2. CASE run[q].at \notin Clean
        <5>1. q = p /\ run'[p].candidate \notin made
          BY <1>1, <4>2 DEF Effect
        <5>2. evidence[w][i].candidate \in made
          BY <3>1 DEF AnswerInv, CandidatesMade, Reviews
        <5> QED BY <3>1, <5>1, <5>2
      <4> QED BY <4>1, <4>2
    <3> QED BY <2>2, <2>3, <3>1
  <2>5. ASSUME NEW q \in Proc, run'[q].verdict = "MERGE_ELIGIBLE",
               NEW w, w = run'[q].wp, NEW i \in Reviews(w)',
               evidence'[w][i].candidate = run'[q].candidate
        PROVE  evidence'[w][i].verdict = "PASS"
    <3>1. CASE q = p /\ run[p].verdict # "MERGE_ELIGIBLE"
      <4>1. /\ run[p].at = "gate" /\ run'[p].candidate = run[p].candidate
            /\ run'[p].wp = W(p) /\ evidence' = evidence
        BY <1>1, <2>5, <3>1 DEF Effect
      <4>2. W(p) \in WP /\ run[p].at \in Clean
        BY <4>1 DEF CTypeInv, CommissionTypeOK, WithCandidate, Clean
      <4>3. i \in Reviews(w) /\ w = W(p)  BY <1>1, <2>5, <3>1, <4>1 DEF Reviews
      <4> QED BY <2>5, <3>1, <4>1, <4>2, <4>3
    <3>2. CASE q = p /\ run[p].verdict = "MERGE_ELIGIBLE"
      <4>1. run[p].at = "returned"  BY <3>2
      <4> QED BY <1>1, <4>1 DEF Effect, Working
    <3>3. CASE q # p
      <4>1. run'[q] = run[q] /\ W(q) \in WP
        BY <1>1, <2>5, <3>3 DEF Effect, CTypeInv, CommissionTypeOK
      <4>2. CASE run[q].candidate \in Candidate
        <5>1. i \in Reviews(w) /\ evidence'[w][i] = evidence[w][i]
          BY <2>2, <2>5, <3>3, <4>1, <4>2
        <5> QED BY <2>5, <4>1, <5>1
      <4>3. CASE run[q].candidate \notin Candidate
        <5>1. run[q].candidate = None
          BY <4>3 DEF CTypeInv, CommissionTypeOK, RunState
        <5>2. evidence'[w][i] \in Evidence
          BY <2>5, <4>1 DEF Reviews, TypeOK
        <5> QED BY <2>5, <4>1, <5>1, <5>2, NoneAssumption DEF Evidence
      <4> QED BY <4>2, <4>3
    <3> QED BY <3>1, <3>2, <3>3
  <2> QED BY <2>1, <2>4, <2>5
<1>2. ASSUME NEW p \in Proc, Approach(p) PROVE EligibleInv'
  BY <1>2 DEF Approach, Clean, Reviews
<1>3. CASE OperatorEffect
  <2>1. CASE UNCHANGED <<evidence, attested>>
    BY <1>3, <2>1 DEF OperatorEffect, Reviews
  <2>2. ASSUME NEW w \in WP, Attesting(w) PROVE EligibleInv'
    <3>1. \A v \in WP : \A i \in Reviews(v) : i \in DOMAIN evidence[v]  BY DEF Reviews
    <3>2. \A p \in Proc : run[p].verdict = "MERGE_ELIGIBLE" => W(p) \in WP
      BY DEF CTypeInv, CommissionTypeOK
    <3> QED BY <1>3, <2>2, <3>1, <3>2, ReviewsKept DEF OperatorEffect
  <2> QED BY <1>3, <2>1, <2>2 DEF OperatorEffect
<1> QED BY <1>1, <1>2, <1>3 DEF Stepped

LEMMA CInvInit == CommissionInit => CInv
<1> SUFFICES ASSUME CommissionInit PROVE CInv  OBVIOUS
<1>1. \A p \in Proc : run[p] = Idle  BY DEF CommissionInit, OrchestratorInit
<1>2. Idle \in RunState /\ Idle.at = "idle" /\ Idle.candidate = None /\ Idle.verdict = "none"
  BY DEF Idle, RunState, Steps, Kinds, FailureClasses, Verdicts
<1>3. TypeOK /\ IInv  BY TypeOKInit, IInvInit DEF CommissionInit
<1>4. \A w \in WP : DOMAIN evidence[w] = {}
  <2>1. \A w \in WP : evidence[w] = <<>>  BY DEF CommissionInit, Init
  <2>2. <<>> \in Seq(Evidence) /\ Len(<<>>) = 0  OBVIOUS
  <2>3. \A s \in Seq(Evidence) : Len(s) = 0 => DOMAIN s = {}  OBVIOUS
  <2> QED BY <2>1, <2>2, <2>3
<1>5. CTypeInv
  BY <1>1, <1>2, <1>3, ProcessAssumption
     DEF CTypeInv, CommissionTypeOK, HasCandidate, WithCandidate, CommissionInit,
         OrchestratorInit
<1>6. AnswerInv
  BY <1>1, <1>2, <1>4
     DEF AnswerInv, CandidatesMade, CandidatesDistinct, NotYetAnswered,
         OneAnswerPerCandidate, Reviews
<1>7. LockNamesLiveRun
  BY ProcessAssumption DEF CommissionInit, LockNamesLiveRun
<1>8. EligibleInv
  BY <1>1, <1>2, <1>4
     DEF EligibleInv, VerdictReturned, NotRefused, EligibleNeverRefused, Clean,
         WithCandidate
<1> QED BY <1>3, <1>5, <1>6, <1>7, <1>8 DEF CInv

LEMMA CInvNext == CInv /\ [CommissionNext]_cvars => CInv'
<1> SUFFICES ASSUME CInv, [CommissionNext]_cvars PROVE CInv'  OBVIOUS
<1>1. CASE CommissionNext
  <2>1. Stepped  BY <1>1, NextIsStepped
  <2>2. IInv'
    <3>1. (\E w \in WP : Call(w)) \/ UNCHANGED vars  BY <1>1, StepIsCall DEF CInv
    <3> QED BY <3>1, IInvCall, IInvUnchanged DEF CInv
  <2>3. TypeOK'  BY <2>2 DEF IInv
  <2> QED BY <2>1, <2>2, <2>3, CTypeInvStep, LockStep, AnswerStep, EligibleStep DEF CInv
<1>2. CASE UNCHANGED cvars
  <2>1. IInv'  BY <1>2, IInvUnchanged DEF CInv, cvars
  <2> QED BY <1>2, <2>1
      DEF CInv, IInv, CTypeInv, CommissionTypeOK, HasCandidate, LockNamesLiveRun, AnswerInv,
          CandidatesMade, CandidatesDistinct, NotYetAnswered, OneAnswerPerCandidate,
          EligibleInv, VerdictReturned, NotRefused, EligibleNeverRefused, Reviews, cvars, ovars, vars, W
<1> QED BY <1>1, <1>2

LEMMA CommissionInductive == CommissionSpec => []CInv
BY CInvInit, CInvNext, PTL DEF CommissionSpec

\* Every process is at a step of its run with a package, every row holds what its
\* column can hold, and the pid file names a process or one that is gone.
THEOREM CommissionTypeCorrect == CommissionSpec => []CommissionTypeOK
<1>1. CInv => CommissionTypeOK  BY DEF CInv, CTypeInv
<1> QED BY <1>1, CommissionInductive, PTL

\* A live pid in the file belongs to a process inside a run, whatever was refused,
\* killed or ended before, and however many processes commission at once.
THEOREM LockIsHonest == CommissionSpec => []LockNamesLiveRun
<1>1. CInv => LockNamesLiveRun  BY DEF CInv
<1> QED BY <1>1, CommissionInductive, PTL

\* No two runs, nor one run twice, record an answer to one question about one
\* candidate, whatever the operator appends beside them: a retry is judged on a
\* commit of its own.
THEOREM OneAnswerEach == CommissionSpec => []OneAnswerPerCandidate
<1>1. CInv => OneAnswerPerCandidate  BY DEF CInv, AnswerInv
<1> QED BY <1>1, CommissionInductive, PTL

\* No run returns MERGE_ELIGIBLE for a candidate that a review refused, whoever
\* else is at work and whatever passing answers the operator appended.
THEOREM EligibleWasNeverRefused == CommissionSpec => []EligibleNeverRefused
<1>1. CInv => EligibleNeverRefused  BY DEF CInv, EligibleInv
<1> QED BY <1>1, CommissionInductive, PTL

(***************************************************************************)
(* What the store promises, commissioning inherits.                        *)
(***************************************************************************)

\* Every step of commissioning is a call of class Store, or leaves it alone.
THEOREM CommissionOnlyCalls == CommissionSpec => Init /\ [][\E w \in WP : Call(w)]_vars
<1>1. CInv /\ [CommissionNext]_cvars => [\E w \in WP : Call(w)]_vars
  BY StepIsCall DEF CInv, cvars
<1> QED BY <1>1, CommissionInductive, PTL DEF CommissionSpec, CommissionInit

\* A package that runs and the operator brought to completion or acceptance was
\* independently reviewed, and verified on the candidate it was accepted on.
THEOREM CommissionedIsReviewed ==
    CommissionSpec => [](CompletionIndependent /\ AcceptedOnVerified)
<1>1. CInv => CompletionIndependent /\ AcceptedOnVerified  BY DEF CInv, IInv
<1> QED BY <1>1, CommissionInductive, PTL

\* Blocking findings about no candidate, such as the operator's, stand through
\* every run, retry and recovery.
THEOREM CommissionKeepsVetoes == CommissionSpec => UnattributedVetoStands
<1>1. CInv /\ [CommissionNext]_cvars => [VetoStands]_vars
  BY StepIsCall, VetoCall DEF CInv, CTypeInv, CommissionTypeOK, cvars
<1> QED BY <1>1, CommissionInductive, PTL
    DEF CommissionSpec, UnattributedVetoStands, VetoStands

\* Commissioning, with runs that die and an operator who interferes, implements
\* the lifecycle the store promises.
THEOREM CommissionImplementsLifecycle == CommissionSpec => ImplementsLifecycle
<1>1. CInv /\ [CommissionNext]_cvars => [Abstract!Next]_(Abstract!lvars)
  <2>1. UNCHANGED vars => UNCHANGED Abstract!lvars
    BY DEF vars, Abstract!lvars, Votes
  <2> QED BY <2>1, StepIsCall, AbstractCall DEF CInv, cvars
<1>2. CommissionInit => Abstract!Init  BY AbstractInit DEF CommissionInit
<1> QED BY <1>1, <1>2, CommissionInductive, PTL
    DEF CommissionSpec, ImplementsLifecycle, Abstract!Spec

(***************************************************************************)
(* One process at a time.  A run owns the candidate of its package as long *)
(* as nobody else enters the states a run passes through.  `dume           *)
(* transition` would let the operator do so; that he does not, and that a  *)
(* second process does not run meanwhile, is what the theorem assumes.     *)
(***************************************************************************)
RunStates ==
    {"EXECUTING", "SPEC_REVIEW", "CODE_REVIEW", "VERIFYING", "TECH_COMPLETE",
     "ACCEPTANCE_READY"}

OneProcess == \A p, q \in Proc : p = q
OperatorStaysOut == OperatorTargets \cap RunStates = {}

\* The state a run finds its package in when it enters the next stage.
FoundIn(r) == {s \in States : r.at = "stage" /\ StageState[r.kind] \in Transitions[s]}

\* The states in which the candidate of the package is the run's own.
Owned(r) == LeftIn(r) \cup FoundIn(r)

OwnInv ==
    \A p \in Proc, w \in WP :
        W(p) = w /\ state[w] \in Owned(run[p]) => candidate[w] = run[p].candidate

LEMMA OwnedStates ==
    ASSUME NEW r \in RunState
    PROVE  /\ Owned(r) \subseteq RunStates
           /\ r.at \in {"supersede", "inspect"} => Owned(r) = {"EXECUTING"}
           /\ r.at \in {"review", "refused"} => Owned(r) = {StageState[r.kind]}
           /\ r.at = "stage" => Owned(r) = FoundIn(r)
           /\ r.at = "tech_complete" => Owned(r) = {"VERIFYING"}
           /\ r.at = "ready" => Owned(r) = {"TECH_COMPLETE"}
           /\ r.at = "gate" => Owned(r) = {"ACCEPTANCE_READY"}
           /\ r.at \notin WithCandidate \ {"record"} => Owned(r) = {}
<1>1. r.kind \in Kinds  BY DEF RunState
<1>2. FoundIn(r) \subseteq RunStates
  BY <1>1 DEF FoundIn, RunStates, StageState, States, Transitions, Stop, Kinds
<1>3. r.at # "stage" => FoundIn(r) = {}  BY DEF FoundIn
<1>4. StageState[r.kind] \in RunStates  BY <1>1 DEF StageState, Kinds, RunStates
<1>5. /\ LeftIn(r) \subseteq RunStates
      /\ r.at \in {"supersede", "inspect"} => LeftIn(r) = {"EXECUTING"}
      /\ r.at \in {"review", "refused"} => LeftIn(r) = {StageState[r.kind]}
      /\ r.at = "tech_complete" => LeftIn(r) = {"VERIFYING"}
      /\ r.at = "ready" => LeftIn(r) = {"TECH_COMPLETE"}
      /\ r.at = "gate" => LeftIn(r) = {"ACCEPTANCE_READY"}
      /\ r.at = "stage" => LeftIn(r) = {}
      /\ r.at \notin WithCandidate \ {"record"} => LeftIn(r) = {}
  BY <1>4 DEF LeftIn, RunStates, WithCandidate
<1> QED BY <1>2, <1>3, <1>5 DEF Owned, WithCandidate

\* With one process, only the package it works on and its own record matter.
LEMMA OwnFrom ==
    ASSUME OneProcess, NEW p \in Proc, run'[p] \in RunState,
           \/ run'[p].at \notin WithCandidate \ {"record"}
           \/ /\ run'[p].wp \in WP
              /\ state'[run'[p].wp] \in Owned(run'[p])
                    => candidate'[run'[p].wp] = run'[p].candidate
    PROVE  OwnInv'
BY OwnedStates DEF OneProcess, OwnInv, W

LEMMA OwnRunStep ==
    ASSUME CInv, OwnInv, OneProcess, NEW p \in Proc, RunStep(p)
    PROVE  OwnInv'
<1> USE DEF W
<1>0. /\ run \in [Proc -> RunState] /\ run[p] \in RunState
      /\ run'[p] \in RunState /\ run'[p].wp = run[p].wp
      /\ run[p].wp \in WP /\ TypeOK
      /\ run[p].at \in WithCandidate => run[p].candidate \in Candidate
  <2>1. Effect(p)  BY RunEffect DEF CInv, EligibleInv
  <2> QED BY <2>1 DEF Effect, Working, Inside, BeforeRun, CInv, CTypeInv, CommissionTypeOK, HasCandidate
<1>1. \A s \in Owned(run[p]) : state[run[p].wp] = s => candidate[run[p].wp] = run[p].candidate
  BY <1>0 DEF OwnInv
<1>2. ASSUME NEW s \in Steps, Goto(p, s)
      PROVE  /\ run'[p].at = s /\ run'[p].kind = run[p].kind
             /\ run'[p].candidate = run[p].candidate
  BY <1>0, <1>2, AtStep
<1>3. ASSUME NEW c \in FailureClasses, FailWith(p, c)
      PROVE  run'[p].at = "failing"
  BY <1>0, <1>3, FailStep
<1>4. ASSUME NEW v, Return(p, v) PROVE run'[p].at = "returned"
  BY <1>0, <1>4 DEF Return, Ended, Idle
<1>5. ASSUME Raise(p) PROVE run'[p].at = "raised"
  BY <1>0, <1>5 DEF Raise, Ended, Idle
<1>6. /\ {"idle", "packet", "binding", "plan", "stopping", "worktree", "execute",
          "implement", "record", "failing", "retrying", "returned", "raised"}
            \cap (WithCandidate \ {"record"}) = {}
      /\ {"packet", "binding", "plan", "stopping", "worktree", "execute", "implement",
          "supersede", "inspect", "stage", "review", "refused", "retrying",
          "tech_complete", "ready", "gate"} \subseteq Steps
      /\ {"RUNTIME_FAILURE", "HARNESS_FAILURE", "IMPLEMENTATION_FAILURE"}
            \cup ReportedClasses \subseteq FailureClasses
  BY DEF WithCandidate, Steps, FailureClasses, CandidateImplicated, ReportedClasses
<1>7. run'[p].at \notin WithCandidate \ {"record"} => OwnInv'
  BY <1>0, OwnFrom
<1>8. CASE Precondition(p)
  <2>1. run' = [run EXCEPT ![p].at = "packet",
                           ![p].resuming = (state[W(p)] = "PLANNED")]
          => run'[p].at = "packet"
    BY <1>0 DEF RunState
  <2> QED BY <1>4, <1>6, <1>7, <1>8, <2>1 DEF Precondition
<1>9. CASE BuildPacket(p) \/ BindCohort(p) \/ Plan(p) \/ StopBlocked(p)
  <2>1. Bound(p) => run'[p].at = "plan"  BY <1>0 DEF Bound, RunState
  <2> QED BY <1>2, <1>3, <1>4, <1>5, <1>6, <1>7, <1>9, <2>1
     DEF BuildPacket, BindCohort, Plan, StopBlocked, Moving
<1>10. CASE PrepareWorktree(p) \/ Execute(p) \/ EvaluateGate(p)
  BY <1>2, <1>3, <1>4, <1>5, <1>6, <1>7, <1>10
     DEF PrepareWorktree, Execute, EvaluateGate, Moving
<1>11. CASE Fail(p) \/ FailRetry(p)
  BY <1>2, <1>4, <1>5, <1>6, <1>7, <1>11 DEF Fail, FailRetry, Moving
<1>12. CASE Implement(p)
  <2>1. \A c \in Candidate :
            run' = [run EXCEPT ![p].at = "record", ![p].candidate = c]
                => run'[p].at = "record"
    BY <1>0 DEF RunState
  <2> QED BY <1>2, <1>3, <1>6, <1>7, <1>12, <2>1 DEF Implement
<1>13. CASE RecordCandidate(p)
  BY <1>0, <1>2, <1>6, <1>13, OwnFrom
     DEF RecordCandidate, SetCandidate, TypeOK
<1>14. CASE Supersede(p)
  <2>1. Owned(run[p]) = {"EXECUTING"} /\ Owned(run'[p]) = {"EXECUTING"}
    BY <1>0, <1>2, <1>6, <1>14, OwnedStates DEF Supersede
  <2> QED BY <1>0, <1>1, <1>2, <1>6, <1>14, <2>1, OwnFrom
          DEF Supersede, SupersedeFindings, rows
<1>15. CASE Inspect(p)
  <2>1. ASSUME run' = [run EXCEPT ![p].at = "stage", ![p].kind = "specification_compliance"],
               UNCHANGED vars
        PROVE  OwnInv'
    <3>1. /\ run'[p].at = "stage" /\ run'[p].kind = "specification_compliance"
          /\ run'[p].candidate = run[p].candidate
      BY <1>0, <2>1 DEF RunState
    <3>2. Owned(run[p]) = {"EXECUTING"} /\ Owned(run'[p]) = FoundIn(run'[p])
      BY <1>0, <1>15, <3>1, OwnedStates DEF Inspect
    <3>3. FoundIn(run'[p]) \subseteq {"EXECUTING"}
      BY <3>1, Predecessor DEF FoundIn, StageState
    <3> QED BY <1>0, <1>1, <2>1, <3>1, <3>2, <3>3, OwnFrom DEF vars
  <2> QED BY <1>3, <1>5, <1>6, <1>7, <1>15, <2>1 DEF Inspect
<1>16. CASE EnterStage(p)
  <2>1. CASE Raise(p)  BY <1>5, <1>6, <1>7, <2>1
  <2>2. CASE Transition(W(p), StageState[run[p].kind], "operator", None) /\ Goto(p, "review")
    <3>1. Owned(run[p]) = FoundIn(run[p]) BY <1>0, <1>16, OwnedStates DEF EnterStage
    <3>2. state[run[p].wp] \in FoundIn(run[p])
      BY <1>0, <1>16, <2>2, PermittedFrom DEF EnterStage, Transition, Allowed, FoundIn
    <3>3. candidate' = candidate
      BY <1>0, <2>2 DEF Transition, Effective, TypeOK
    <3> QED BY <1>0, <1>1, <1>2, <1>6, <2>2, <3>1, <3>2, <3>3, OwnFrom
  <2> QED BY <1>16, <2>1, <2>2 DEF EnterStage, Moving
<1>17. CASE Review(p)
  <2>1. CASE Raise(p) \/ FailWith(p, "HARNESS_FAILURE")
    BY <1>3, <1>5, <1>6, <1>7, <2>1
  <2>2. ASSUME NEW v, RecordReview(W(p), run[p].kind, run[p].candidate, Asked[run[p].kind], v),
               run'[p].candidate = run[p].candidate
        PROVE  OwnInv'
    <3>1. Owned(run[p]) = {StageState[run[p].kind]}
      BY <1>0, <1>17, OwnedStates DEF Review
    <3>2. state[run[p].wp] = StageState[run[p].kind] /\ candidate' = candidate
      BY <2>2 DEF RecordReview, ReviewAllowed, AddEvidence, rows
    <3> QED BY <1>0, <1>1, <2>2, <3>1, <3>2, OwnFrom
  <2>3. run' = (IF run[p].kind = "verification"
                  THEN [run EXCEPT ![p].at = "tech_complete"]
                  ELSE [run EXCEPT ![p].at = "stage", ![p].kind = NextKind[run[p].kind]])
          => run'[p].candidate = run[p].candidate
    BY <1>0 DEF RunState
  <2> QED BY <1>2, <1>6, <1>17, <2>1, <2>2, <2>3 DEF Review
<1>18. CASE FileFindings(p)
  <2>1. CASE UNCHANGED run
    <3>1. UNCHANGED <<state, candidate>>
      BY <1>18 DEF FileFindings, AddFinding, rows, vars
    <3> QED BY <2>1, <3>1 DEF OwnInv
  <2> QED BY <1>3, <1>6, <1>7, <1>18, <2>1 DEF FileFindings
<1>19. CASE TechComplete(p)
  <2>1. CASE Raise(p)  BY <1>5, <1>6, <1>7, <2>1
  <2>2. CASE Transition(W(p), "TECH_COMPLETE", "implementer", run[p].candidate) /\ Goto(p, "ready")
    <3>1. candidate'[run[p].wp] = run[p].candidate
      BY <1>0, <1>19, <2>2, NoneAssumption
         DEF TechComplete, Transition, Effective, TypeOK, WithCandidate
    <3> QED BY <1>0, <1>2, <1>6, <2>2, <3>1, OwnFrom
  <2> QED BY <1>19, <2>1, <2>2 DEF TechComplete, Moving
<1>20. CASE AcceptanceReady(p)
  <2>1. CASE Raise(p)  BY <1>5, <1>6, <1>7, <2>1
  <2>2. CASE Transition(W(p), "ACCEPTANCE_READY", "operator", None) /\ Goto(p, "gate")
    <3>1. Owned(run[p]) = {"TECH_COMPLETE"}
      BY <1>0, <1>20, OwnedStates DEF AcceptanceReady
    <3>2. state[run[p].wp] = "TECH_COMPLETE"
      BY <1>0, <2>2, PermittedFrom, Predecessor DEF Transition, Allowed
    <3>3. candidate' = candidate
      BY <1>0, <2>2 DEF Transition, Effective, TypeOK
    <3> QED BY <1>0, <1>1, <1>2, <1>6, <2>2, <3>1, <3>2, <3>3, OwnFrom
  <2> QED BY <1>20, <2>1, <2>2 DEF AcceptanceReady, Moving
<1> QED BY <1>8, <1>9, <1>10, <1>11, <1>12, <1>13, <1>14, <1>15, <1>16, <1>17, <1>18,
           <1>19, <1>20 DEF RunStep

LEMMA OwnOperatorStep ==
    ASSUME CInv, OwnInv, OperatorStaysOut, NEW w \in WP, Operator(w)
    PROVE  OwnInv'
<1>1. /\ run' = run /\ TypeOK
      /\ \A p \in Proc : run[p] \in RunState
  BY OperatorStep DEF OperatorEffect, CInv, CTypeInv, CommissionTypeOK
<1>2. \A p \in Proc : Owned(run[p]) \subseteq RunStates  BY <1>1, OwnedStates
<1>3. ASSUME NEW to, to \notin RunStates, NEW c, Transition(w, to, "operator", c) PROVE OwnInv'
  BY <1>1, <1>2, <1>3 DEF Transition, OwnInv, TypeOK, W
<1>4. ASSUME NEW to \in OperatorTargets, NEW c, OperatorMove(w, to, c) PROVE OwnInv'
  BY <1>3, <1>4 DEF OperatorMove, OperatorStaysOut
<1>5. CASE Block(w)
  <2>1. "BLOCKED" \notin RunStates  BY DEF RunStates
  <2> QED BY <1>3, <1>5, <2>1 DEF Block
<1>6. CASE NoteBlock(w)
  BY <1>1, <1>6 DEF NoteBlock, AddFinding, rows, OwnInv, W
<1>7. CASE Seed(w)
  <2>1. "DISCOVERED" \notin RunStates  BY DEF RunStates
  <2>2. /\ candidate' = candidate
        /\ \A v \in WP : state'[v] \in RunStates => state'[v] = state[v]
    BY <1>1, <1>7, <2>1 DEF Seed, Register, TypeOK
  <2> QED BY <1>1, <1>2, <2>2 DEF OwnInv, W
<1>8. ASSUME NEW c, NEW t, Attest(w, c, t) PROVE OwnInv'
  BY <1>1, <1>8 DEF Attest, AddEvidence, rows, OwnInv, W
<1> QED BY <1>4, <1>5, <1>6, <1>7, <1>8 DEF Operator

\* With one process at a time and an operator who moves no package into a state
\* only a run enters, a run that finds its package where it left it finds its own
\* candidate there.
THEOREM RunOwns ==
    OneProcess /\ OperatorStaysOut => (CommissionSpec => []RunOwnsCandidate)
<1> SUFFICES ASSUME OneProcess, OperatorStaysOut
             PROVE  CommissionSpec => []RunOwnsCandidate
  OBVIOUS
<1>1. CommissionInit => OwnInv
  <2> SUFFICES ASSUME CommissionInit PROVE OwnInv  OBVIOUS
  <2>1. \A p \in Proc : run[p] \in RunState /\ run[p].at = "idle"
    BY DEF CommissionInit, OrchestratorInit, Idle, RunState, Steps, Kinds,
           FailureClasses, Verdicts
  <2>2. \A p \in Proc : Owned(run[p]) = {}
    BY <2>1, OwnedStates DEF WithCandidate
  <2> QED BY <2>2 DEF OwnInv
<1>2. CInv /\ OwnInv /\ [CommissionNext]_cvars => OwnInv'
  <2> SUFFICES ASSUME CInv, OwnInv, [CommissionNext]_cvars PROVE OwnInv'
    OBVIOUS
  <2>1. CASE UNCHANGED cvars
    BY <2>1 DEF cvars, ovars, vars, OwnInv, W
  <2>2. ASSUME NEW p \in Proc,
               (\E w \in WP : Invoke(p, w)) \/ Invocation(p) \/ Kill(p) \/ Garble(p)
        PROVE  OwnInv'
    <3>1. CASE Running(p)  BY <3>1, OwnRunStep DEF Running
    <3>2. CASE Approach(p)
      BY <3>2, OwnFrom DEF Approach
    <3> QED BY <2>2, <3>1, <3>2, ProcessStep DEF CInv, EligibleInv
  <2>3. ASSUME NEW w \in WP, Operator(w) PROVE OwnInv'
    BY <2>3, OwnOperatorStep
  <2> QED BY <2>1, <2>2, <2>3 DEF CommissionNext
<1>3. OwnInv => RunOwnsCandidate  BY DEF OwnInv, Owned, RunOwnsCandidate
<1> QED BY <1>1, <1>2, <1>3, CommissionInductive, PTL DEF CommissionSpec
=============================================================================
