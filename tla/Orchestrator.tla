--------------------------- MODULE Orchestrator ----------------------------
(***************************************************************************)
(* One run of a work package (dume/control/orchestrator.py, run and _fail, *)
(* with the machine gate of dume/acceptance/gate.py).  A run is a sequence *)
(* of steps, each with at most one write to the store, so that a run can   *)
(* be killed, and others can act, between any two of them.  Packets,       *)
(* runtimes, worktrees and models are outside: what they answer is a       *)
(* choice, and so is an exception they raise.                              *)
(*                                                                         *)
(* Every role signs with an identity of its own, <package>/<role>, so the  *)
(* actors of a package are its roles.  Narration (Buzz, Telegram) and the  *)
(* run report are left out: nothing here reads them back.                  *)
(***************************************************************************)
EXTENDS Store, Failures

CONSTANTS
    Proc,        \* processes that may run a package
    RetryLimit   \* retry_decision's limit (3 in the code)

ASSUME RoleAssumption ==
    /\ {"implementer", "architect", "spec_reviewer", "code_reviewer", "verifier",
        "operator"} \subseteq Actor
    /\ RetryLimit \in Nat /\ RetryLimit <= MaxRetry
    /\ BlockingSeverities \cap Severity # {}

VARIABLES
    run,      \* run[p]: the local state of process p's run
    made      \* the candidates that exist: a commit is never made twice

ovars == <<run, made>>

\* The failure classes an executor may name in a refusing verdict.
ReportedClasses ==
    {"IMPLEMENTATION_FAILURE", "SPEC_MISINTERPRETATION", "RUNTIME_FAILURE",
     "HARNESS_FAILURE"}

Steps ==
    {"idle", "admit", "holder", "giveup", "given_up", "again", "replan",
     "replanned", "prepare", "lock",
     "precondition", "packet", "binding", "plan", "stopping", "worktree",
     "execute", "implement", "record", "supersede", "inspect", "stage",
     "review", "refused", "failing", "retrying", "tech_complete", "ready",
     "gate", "returned", "raised"}

\* CRITICAL and HIGH block alike: either stands for the one a step files.
Blocking == BlockingSeverities \cap Severity

Verdicts == {"none", "BLOCKED", "FAILED", "MERGE_ELIGIBLE", "REFUSED"}

Idle == [at |-> "idle", wp |-> None, resuming |-> FALSE, candidate |-> None,
         kind |-> "specification_compliance", failure |-> "HARNESS_FAILURE",
         verdict |-> "none"]

W(p) == run[p].wp

Goto(p, step) == run' = [run EXCEPT ![p].at = step]

\* The run is over: what is left of it is its report.
Ended(p, step, verdict) ==
    [Idle EXCEPT !.at = step, !.wp = W(p), !.candidate = run[p].candidate,
                 !.verdict = verdict]

Return(p, verdict) == run' = [run EXCEPT ![p] = Ended(p, "returned", verdict)]

FailWith(p, class) ==
    run' = [run EXCEPT ![p].at = "failing", ![p].failure = class]

\* The exception leaves run() and the package stays in the state it is in.
Raise(p) ==
    /\ run' = [run EXCEPT ![p] = Ended(p, "raised", "none")]
    /\ UNCHANGED <<vars, made>>

\* Mutant: a refused transition is tried again until it is allowed.
MovingPatiently(p, to, a, c, next) == Transition(W(p), to, a, c) /\ next /\ UNCHANGED made

\* store.transition: on success do next, otherwise the StateError escapes.
Moving(p, to, a, c, next) ==
    \/ Transition(W(p), to, a, c) /\ next /\ UNCHANGED made
    \/ ~Allowed(W(p), to, a, c) /\ Raise(p)

(***************************************************************************)
(* The steps of run().                                                     *)
(***************************************************************************)
Precondition(p) ==
    /\ run[p].at = "precondition"
    /\ IF state[W(p)] \in {"READY", "PLANNED"}
         THEN run' = [run EXCEPT ![p].at = "packet",
                                 ![p].resuming = (state[W(p)] = "PLANNED")]
         ELSE Return(p, "BLOCKED")
    /\ UNCHANGED <<vars, made>>

BuildPacket(p) ==
    /\ run[p].at = "packet"
    /\ \/ /\ run[p].resuming
          /\ Goto(p, "binding")
          /\ UNCHANGED <<vars, made>>
       \/ /\ ~run[p].resuming
          /\ Moving(p, "PACKAGED", "operator", None, Goto(p, "binding"))
       \/ Raise(p)

\* Past the binding nothing reads `resuming` again.
Bound(p) == run' = [run EXCEPT ![p].at = "plan", ![p].resuming = FALSE]

BindCohort(p) ==
    /\ run[p].at = "binding"
    /\ \/ Goto(p, "stopping") /\ UNCHANGED <<vars, made>>      \* BlockedRuntime
       \/ /\ run[p].resuming
          /\ Bound(p)
          /\ UNCHANGED <<vars, made>>
       \/ /\ ~run[p].resuming
          /\ Moving(p, "PLANNED", "architect", None, Bound(p))

Plan(p) ==
    /\ run[p].at = "plan"
    /\ \/ Goto(p, "worktree") /\ UNCHANGED <<vars, made>>
       \/ FailWith(p, "RUNTIME_FAILURE") /\ UNCHANGED <<vars, made>>
       \/ /\ \E s \in Blocking : AddFinding(W(p), s, None)   \* not satisfiable
          /\ Goto(p, "stopping")
          /\ UNCHANGED made
       \/ Raise(p)

\* The stops that end in BLOCKED: no runtime, no packet that can be met, or a
\* switch that was refused.
StopBlocked(p) ==
    /\ run[p].at = "stopping"
    /\ Moving(p, "BLOCKED", "operator", None, Return(p, "BLOCKED"))

PrepareWorktree(p) ==
    /\ run[p].at = "worktree"
    /\ Goto(p, "execute") \/ FailWith(p, "HARNESS_FAILURE")
    /\ UNCHANGED <<vars, made>>

Execute(p) ==
    /\ run[p].at = "execute"
    /\ Moving(p, "EXECUTING", "implementer", None, Goto(p, "implement"))

\* Mutant: work that changed nothing is a candidate too, the commit that was there.
ImplementReusingCommit(p) ==
    /\ run[p].at = "implement"
    /\ \/ \E c \in Candidate :
             /\ run' = [run EXCEPT ![p].at = "record", ![p].candidate = c]
             /\ made' = made \cup {c}
       \/ /\ \/ FailWith(p, "RUNTIME_FAILURE")
             \/ FailWith(p, "IMPLEMENTATION_FAILURE")
             \/ Goto(p, "stopping")
          /\ UNCHANGED made
    /\ UNCHANGED vars

\* A candidate is a new commit.  Without one: the runtime failed, also after a
\* switch; the switch was refused; the work failed, or it wrote nothing.
Implement(p) ==
    /\ run[p].at = "implement"
    /\ \/ \E c \in Candidate \ made :
             /\ run' = [run EXCEPT ![p].at = "record", ![p].candidate = c]
             /\ made' = made \cup {c}
       \/ /\ \/ FailWith(p, "RUNTIME_FAILURE")
             \/ FailWith(p, "IMPLEMENTATION_FAILURE")
             \/ Goto(p, "stopping")
          /\ UNCHANGED made
    /\ UNCHANGED vars

RecordCandidate(p) ==
    /\ run[p].at = "record"
    /\ SetCandidate(W(p), run[p].candidate)
    /\ Goto(p, "supersede")
    /\ UNCHANGED made

Supersede(p) ==
    /\ run[p].at = "supersede"
    /\ SupersedeFindings(W(p), run[p].candidate)
    /\ Goto(p, "inspect")
    /\ UNCHANGED made

\* Protected paths, then mandatory deliverables.  The first finding is filed
\* under the row's candidate, the second under the run's own.
Inspect(p) ==
    /\ run[p].at = "inspect"
    /\ \/ /\ run' = [run EXCEPT ![p].at = "stage",
                                ![p].kind = "specification_compliance"]
          /\ UNCHANGED vars
       \/ /\ \E s \in Blocking, c \in {None, run[p].candidate} : AddFinding(W(p), s, c)
          /\ FailWith(p, "IMPLEMENTATION_FAILURE")
       \/ Raise(p)                                        \* git failed
    /\ UNCHANGED made

EnterStage(p) ==
    /\ run[p].at = "stage"
    /\ Moving(p, StageState[run[p].kind], "operator", None, Goto(p, "review"))

\* Which identity answers each question.
Asked ==
    [specification_compliance |-> "spec_reviewer",
     code_quality             |-> "code_reviewer",
     verification             |-> "verifier"]

NextKind ==
    [specification_compliance |-> "code_quality",
     code_quality             |-> "verification"]

Review(p) ==
    LET k == run[p].kind
    IN  /\ run[p].at = "review"
        /\ \/ Raise(p)                                   \* the executor raised
           \/ /\ FailWith(p, "HARNESS_FAILURE")      \* the verdict is refused
              /\ UNCHANGED <<vars, made>>
           \/ /\ RecordReview(W(p), k, run[p].candidate, Asked[k], "PASS")
              /\ run' = IF k = "verification"
                          THEN [run EXCEPT ![p].at = "tech_complete"]
                          ELSE [run EXCEPT ![p].at = "stage", ![p].kind = NextKind[k]]
              /\ UNCHANGED made
           \/ /\ RecordReview(W(p), k, run[p].candidate, Asked[k], "FAIL")
              /\ Goto(p, "refused")
              /\ UNCHANGED made

\* The reviewer's findings, one row at a time, are filed under the row's candidate;
\* then the run fails with the class the verdict named.
FileFindings(p) ==
    /\ run[p].at = "refused"
    /\ \/ /\ \E s \in Severity : AddFinding(W(p), s, None)
          /\ UNCHANGED run
       \/ /\ \E class \in ReportedClasses : FailWith(p, class)
          /\ UNCHANGED vars
    /\ UNCHANGED made

TechComplete(p) ==
    /\ run[p].at = "tech_complete"
    /\ Moving(p, "TECH_COMPLETE", "implementer", run[p].candidate, Goto(p, "ready"))

AcceptanceReady(p) ==
    /\ run[p].at = "ready"
    /\ Moving(p, "ACCEPTANCE_READY", "operator", None, Goto(p, "gate"))

(***************************************************************************)
(* The machine gate.  What it reads from the store is below; the checks on *)
(* the worktree, the digests and the artefacts are one choice.             *)
(***************************************************************************)
IndependentPasses(w, c, k) ==
    {i \in Passing(w, c, k) : evidence[w][i].actor # producer[w]}

GateEligible(w, c) ==
    LET answered(k) == Latest(IndependentPasses(w, c, k))
    IN  /\ candidate[w] = c
        /\ \A k \in Kinds : answered(k) # {}
        /\ \A k \in Kinds \ {"verification"} :
              \A i \in answered(k), j \in answered("verification") :
                  evidence[w][i].actor # evidence[w][j].actor
        /\ OpenBlockingFindings(w) = {}

EvaluateGate(p) ==
    /\ run[p].at = "gate"
    /\ \/ \E tidy \in BOOLEAN :
             Return(p, IF tidy /\ GateEligible(W(p), run[p].candidate)
                         THEN "MERGE_ELIGIBLE" ELSE "REFUSED")
       \/ Raise(p)                                        \* git failed
    /\ UNCHANGED <<vars, made>>

(***************************************************************************)
(* _fail: attempts are counted before the package is moved.                *)
(***************************************************************************)
Fail(p) ==
    /\ run[p].at = "failing"
    /\ Moving(p, "FAILED", "operator", None,
              IF RetryDecision(run[p].failure, retries[W(p)], RetryLimit)
                THEN Goto(p, "retrying")
                ELSE Return(p, "FAILED"))

FailRetry(p) ==
    /\ run[p].at = "retrying"
    /\ Moving(p, "RETRY", "operator", None, Return(p, "FAILED"))

RunStep(p) ==
    \/ Precondition(p) \/ BuildPacket(p) \/ BindCohort(p) \/ Plan(p)
    \/ StopBlocked(p) \/ PrepareWorktree(p) \/ Execute(p) \/ Implement(p)
    \/ RecordCandidate(p) \/ Supersede(p) \/ Inspect(p) \/ EnterStage(p)
    \/ Review(p) \/ FileFindings(p) \/ TechComplete(p) \/ AcceptanceReady(p)
    \/ EvaluateGate(p) \/ Fail(p) \/ FailRetry(p)

OrchestratorInit ==
    /\ run = [p \in Proc |-> Idle]
    /\ made = {}
=============================================================================
