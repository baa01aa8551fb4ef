------------------------------- MODULE Store -------------------------------
(***************************************************************************)
(* The commissioning state store of DUM-E (dume/state/store.py): the       *)
(* SQLite rows of the tables wp, dependency, evidence and finding, and the *)
(* operations of the class Store.  Each operation is one action; a call    *)
(* the code refuses with StateError changes nothing, so a refusal is an    *)
(* action that is not enabled.  The callers are unconstrained: Next lets   *)
(* anyone call any operation with any arguments, in any order.             *)
(*                                                                         *)
(* The table `transition` is kept as what the program reads back from it:  *)
(* the number of rows whose to_state is RETRY.  Severities and verdicts    *)
(* other than those listed are data no check distinguishes.                *)
(***************************************************************************)
EXTENDS Naturals, Sequences

CONSTANTS
    WP,           \* work packages
    Actor,        \* identities that call the store or sign evidence
    Candidate,    \* candidate revisions (commits)
    None,         \* SQL NULL / Python None
    Catalogue,    \* Catalogue[w]: the dependency lists the seed may register for w
    Reviewer,     \* Reviewer[k]: the actors whose verdicts of kind k are recorded by a run
    Implementer,  \* the actors implementation is started under
    Attestor,     \* the actors that append evidence outside a run
    Severity,     \* the severities findings are raised with
    MaxEvidence,  \* bound: evidence rows of each package
    MaxRetry      \* bound: RETRY rows are counted up to it

Kinds == {"specification_compliance", "code_quality", "verification"}

ASSUME NoneAssumption ==
    /\ None \notin Actor \cup Candidate
    /\ None \notin WP

ASSUME CallerAssumption ==
    /\ Catalogue \in [WP -> SUBSET SUBSET WP]
    /\ Reviewer \in [Kinds -> SUBSET Actor]
    /\ Implementer \subseteq Actor /\ Attestor \subseteq Actor
    /\ MaxEvidence \in [WP -> Nat] /\ MaxRetry \in Nat

(***************************************************************************)
(* The closed lifecycle.                                                   *)
(***************************************************************************)
States == {"DISCOVERED", "READY", "PACKAGED", "PLANNED", "EXECUTING",
           "SPEC_REVIEW", "CODE_REVIEW", "VERIFYING", "TECH_COMPLETE",
           "ACCEPTANCE_READY", "ACCEPTED", "FAILED", "RETRY", "BLOCKED"}

Stop == {"FAILED", "BLOCKED"}

Transitions ==
    [DISCOVERED       |-> {"READY", "BLOCKED"},
     READY            |-> {"PACKAGED", "BLOCKED"},
     PACKAGED         |-> {"PLANNED"} \cup Stop,
     PLANNED          |-> {"EXECUTING"} \cup Stop,
     EXECUTING        |-> {"SPEC_REVIEW"} \cup Stop,
     SPEC_REVIEW      |-> {"CODE_REVIEW"} \cup Stop,
     CODE_REVIEW      |-> {"VERIFYING"} \cup Stop,
     VERIFYING        |-> {"TECH_COMPLETE"} \cup Stop,
     TECH_COMPLETE    |-> {"ACCEPTANCE_READY"} \cup Stop,
     ACCEPTANCE_READY |-> {"ACCEPTED"} \cup Stop,
     FAILED           |-> {"RETRY", "BLOCKED"},
     RETRY            |-> {"PLANNED", "BLOCKED"},
     BLOCKED          |-> {"READY", "PACKAGED", "PLANNED", "DISCOVERED"},
     ACCEPTED         |-> {}]

Absent == "ABSENT"      \* the package has no row

\* The question whose PASS is required to enter a state.
StagePrerequisite ==
    [CODE_REVIEW   |-> "specification_compliance",
     VERIFYING     |-> "code_quality",
     TECH_COMPLETE |-> "verification"]

\* The state in which the verdict of a kind may be recorded.
StageState ==
    [specification_compliance |-> "SPEC_REVIEW",
     code_quality             |-> "CODE_REVIEW",
     verification             |-> "VERIFYING"]

BlockingSeverities == {"CRITICAL", "HIGH"}

Evidence ==
    [kind : Kinds, candidate : Candidate, actor : Actor, verdict : {"PASS", "FAIL"}]

Finding ==
    [severity : Severity, candidate : Candidate \cup {None},
     status : {"OPEN", "SUPERSEDED"}]

VARIABLES
    state,      \* wp.state
    candidate,  \* wp.candidate_revision
    producer,   \* wp.producer_actor
    deps,       \* the rows of dependency, as a set per package
    evidence,   \* the rows of evidence, in insertion order
    findings,   \* the rows of finding; equal rows are indistinguishable
    retries,    \* transition rows whose to_state is RETRY, counted to MaxRetry
    completed,  \* auxiliary: the candidate TECH_COMPLETE was last entered on
    accepted    \* auxiliary: the candidate ACCEPTED was entered on

rows == <<state, candidate, producer, retries, completed, accepted>>
vars == <<state, candidate, producer, deps, evidence, findings, retries,
          completed, accepted>>

(***************************************************************************)
(* Queries.                                                                *)
(***************************************************************************)
Known(w) == state[w] # Absent

UnmetDependencies(w) == {d \in deps[w] : state[d] # "ACCEPTED"}

\* evidence(wp, c, kind): without a candidate the query does not filter on it.
Records(w, c, k) ==
    {i \in DOMAIN evidence[w] : /\ evidence[w][i].kind = k
                                /\ c \in {None, evidence[w][i].candidate}}

Passing(w, c, k) == {i \in Records(w, c, k) : evidence[w][i].verdict = "PASS"}

\* rows[-1], as a set of at most one row.
Latest(ids) == {i \in ids : \A j \in ids : j <= i}

\* `candidate_revision or row["candidate_revision"]`
Effective(w, c) == IF c # None THEN c ELSE candidate[w]

OpenBlockingFindings(w) ==
    {f \in findings[w] : f.status = "OPEN" /\ f.severity \in BlockingSeverities}

(***************************************************************************)
(* The checks of transition().                                             *)
(***************************************************************************)
Permitted(w, to) == Known(w) /\ to \in Transitions[state[w]]

StagePassed(w, to, c) ==
    to \in DOMAIN StagePrerequisite
        => Passing(w, Effective(w, c), StagePrerequisite[to]) # {}

\* Mutant: the verifier is compared with the first reviewer only.
PipelineCompleteFirstReviewer(w, c) ==
    LET cand == Effective(w, c)
        answered(k) == Latest(Passing(w, cand, k))
    IN  /\ cand # None
        /\ \A k \in Kinds :
              /\ answered(k) # {}
              /\ \A i \in Passing(w, cand, k) : evidence[w][i].actor # producer[w]
        /\ \A i \in answered("specification_compliance"), j \in answered("verification") :
              evidence[w][i].actor # evidence[w][j].actor

\* _check_pipeline_complete, and the candidate TECH_COMPLETE requires.
PipelineComplete(w, c) ==
    LET cand == Effective(w, c)
        answered(k) == Latest(Passing(w, cand, k))
    IN  /\ cand # None
        /\ \A k \in Kinds :
              /\ answered(k) # {}
              /\ \A i \in Passing(w, cand, k) : evidence[w][i].actor # producer[w]
        /\ \A k \in Kinds \ {"verification"} :
              \A i \in answered(k), j \in answered("verification") :
                  evidence[w][i].actor # evidence[w][j].actor

\* Mutant: stale evidence carries over.
AcceptanceOnStaleEvidence(w, a, c) ==
    LET cand == Effective(w, c)
        verifications == Records(w, None, "verification")
    IN  /\ cand # None
        /\ candidate[w] \in {None, cand}
        /\ a # producer[w]
        /\ \A i \in verifications : evidence[w][i].actor # producer[w]
        /\ Passing(w, None, "verification") # {}
        /\ OpenBlockingFindings(w) = {}

\* _check_acceptance.
AcceptanceAllowed(w, a, c) ==
    LET cand == Effective(w, c)
        verifications == Records(w, cand, "verification")
    IN  /\ cand # None
        /\ candidate[w] \in {None, cand}
        /\ a # producer[w]
        /\ \A i \in verifications : evidence[w][i].actor # producer[w]
        /\ Passing(w, cand, "verification") # {}
        /\ OpenBlockingFindings(w) = {}

(***************************************************************************)
(* Operations.                                                             *)
(***************************************************************************)
\* Mutant: the list of dependencies is inserted as one row.
RegisterListAsRow(w, ds) ==
    /\ state' = [state EXCEPT ![w] = IF @ = Absent THEN "DISCOVERED" ELSE @]
    /\ deps' = [deps EXCEPT ![w] = @ \cup {ds}]
    /\ UNCHANGED <<candidate, producer, evidence, findings, retries, completed, accepted>>

Register(w, ds) ==
    /\ state' = [state EXCEPT ![w] = IF @ = Absent THEN "DISCOVERED" ELSE @]
    /\ deps' = [deps EXCEPT ![w] = @ \cup ds]
    /\ UNCHANGED <<candidate, producer, evidence, findings, retries, completed, accepted>>

SetCandidate(w, c) ==
    /\ Known(w)
    /\ candidate' = [candidate EXCEPT ![w] = c]
    /\ UNCHANGED <<state, producer, deps, evidence, findings, retries, completed, accepted>>

AddEvidence(w, e) ==
    /\ Known(w)
    /\ Len(evidence[w]) < MaxEvidence[w]
    /\ evidence' = [evidence EXCEPT ![w] = Append(@, e)]
    /\ UNCHANGED <<rows, deps, findings>>

ReviewAllowed(w, k, a) == state[w] = StageState[k] /\ a # producer[w]

RecordReview(w, k, c, a, v) ==
    /\ ReviewAllowed(w, k, a)
    /\ AddEvidence(w, [kind |-> k, candidate |-> c, actor |-> a, verdict |-> v])

\* The candidate of a finding defaults to the package's candidate at that time.
AddFinding(w, severity, c) ==
    /\ findings' = [findings EXCEPT ![w] = @ \cup
           {[severity |-> severity, candidate |-> Effective(w, c), status |-> "OPEN"]}]
    /\ UNCHANGED <<rows, deps, evidence>>

\* Mutant: a finding about no candidate is superseded like any other.
SupersededUnattributed(f, c) == f.status = "OPEN" /\ f.candidate # c

Superseded(f, c) == f.status = "OPEN" /\ f.candidate \notin {None, c}

SupersedeFindings(w, c) ==
    /\ findings' = [findings EXCEPT ![w] =
           {IF Superseded(f, c) THEN [f EXCEPT !.status = "SUPERSEDED"] ELSE f : f \in @}]
    /\ UNCHANGED <<rows, deps, evidence>>

\* Mutant: dependencies are checked once, when a package is first made READY.
AllowedCheckingOnce(w, to, a, c) ==
    /\ Permitted(w, to)
    /\ to = "READY" /\ state[w] = "DISCOVERED" => UnmetDependencies(w) = {}
    /\ StagePassed(w, to, c)
    /\ to = "TECH_COMPLETE" => PipelineComplete(w, c)
    /\ to = "ACCEPTED" => AcceptanceAllowed(w, a, c)

\* Everything transition() checks before it writes; it raises otherwise.
Allowed(w, to, a, c) ==
    /\ Permitted(w, to)
    /\ to = "READY" => UnmetDependencies(w) = {}
    /\ StagePassed(w, to, c)
    /\ to = "TECH_COMPLETE" => PipelineComplete(w, c)
    /\ to = "ACCEPTED" => AcceptanceAllowed(w, a, c)

\* Mutant: a transition that names no candidate clears the one in the row.
TransitionForgettingCandidate(w, to, a, c) ==
    /\ Allowed(w, to, a, c)
    /\ state' = [state EXCEPT ![w] = to]
    /\ candidate' = [candidate EXCEPT ![w] = c]
    /\ producer' = [producer EXCEPT ![w] = IF to = "EXECUTING" THEN a ELSE @]
    /\ retries' = [retries EXCEPT ![w] = IF to = "RETRY" /\ @ < MaxRetry THEN @ + 1 ELSE @]
    /\ completed' = [completed EXCEPT ![w] =
                        IF to = "TECH_COMPLETE" THEN Effective(w, c) ELSE @]
    /\ accepted' = [accepted EXCEPT ![w] =
                        IF to = "ACCEPTED" THEN Effective(w, c) ELSE @]
    /\ UNCHANGED <<deps, evidence, findings>>

Transition(w, to, a, c) ==
    /\ Allowed(w, to, a, c)
    /\ state' = [state EXCEPT ![w] = to]
    /\ candidate' = [candidate EXCEPT ![w] = Effective(w, c)]
    /\ producer' = [producer EXCEPT ![w] = IF to = "EXECUTING" THEN a ELSE @]
    /\ retries' = [retries EXCEPT ![w] = IF to = "RETRY" /\ @ < MaxRetry THEN @ + 1 ELSE @]
    /\ completed' = [completed EXCEPT ![w] =
                        IF to = "TECH_COMPLETE" THEN Effective(w, c) ELSE @]
    /\ accepted' = [accepted EXCEPT ![w] =
                        IF to = "ACCEPTED" THEN Effective(w, c) ELSE @]
    /\ UNCHANGED <<deps, evidence, findings>>

-----------------------------------------------------------------------------
Init ==
    /\ state = [w \in WP |-> Absent]
    /\ candidate = [w \in WP |-> None]
    /\ producer = [w \in WP |-> None]
    /\ deps = [w \in WP |-> {}]
    /\ evidence = [w \in WP |-> <<>>]
    /\ findings = [w \in WP |-> {}]
    /\ retries = [w \in WP |-> 0]
    /\ completed = [w \in WP |-> None]
    /\ accepted = [w \in WP |-> None]

\* The actor of a transition matters to EXECUTING and ACCEPTED only; of the
\* others it is written to the log, which nothing reads back.
Signatory(to) ==
    CASE to = "EXECUTING" -> Implementer
      [] to = "ACCEPTED" -> Actor
      [] OTHER -> {None}

Next ==
    \E w \in WP :
        \/ \E ds \in Catalogue[w] : Register(w, ds)
        \/ \E c \in Candidate : SetCandidate(w, c)
        \/ \E c \in Candidate, v \in {"PASS", "FAIL"} :
              \/ \E k \in Kinds : \E a \in Reviewer[k] : RecordReview(w, k, c, a, v)
              \/ \E k \in Kinds, a \in Attestor :
                    AddEvidence(w, [kind |-> k, candidate |-> c,
                                    actor |-> a, verdict |-> v])
        \/ \E s \in Severity, c \in Candidate \cup {None} : AddFinding(w, s, c)
        \/ \E c \in Candidate : SupersedeFindings(w, c)
        \/ \E to \in States : \E a \in Signatory(to), c \in Candidate \cup {None} :
              Transition(w, to, a, c)

Spec == Init /\ [][Next]_vars

-----------------------------------------------------------------------------
(***************************************************************************)
(* Properties.                                                             *)
(***************************************************************************)

\* Every row holds a value its column can hold.
TypeOK ==
    /\ state \in [WP -> States \cup {Absent}]
    /\ candidate \in [WP -> Candidate \cup {None}]
    /\ producer \in [WP -> Actor \cup {None}]
    /\ deps \in [WP -> SUBSET WP]
    /\ evidence \in [WP -> Seq(Evidence)]
    /\ findings \in [WP -> SUBSET Finding]
    /\ retries \in [WP -> Nat]
    /\ completed \in [WP -> Candidate \cup {None}]
    /\ accepted \in [WP -> Candidate \cup {None}]

Complete == {"TECH_COMPLETE", "ACCEPTANCE_READY", "ACCEPTED"}

\* A PASS of kind k on candidate c by an identity other than the producer.
IndependentPass(w, k, c, i) ==
    /\ i \in Passing(w, c, k)
    /\ evidence[w][i].actor # producer[w]

\* Three answers on one candidate, none by its producer, and a verifier that
\* gave neither of the other two.
IndependentlyReviewed(w, c) ==
    /\ c # None
    /\ producer[w] # None
    /\ \A k \in Kinds \ {"verification"} :
          \E i \in DOMAIN evidence[w], j \in DOMAIN evidence[w] :
              /\ IndependentPass(w, k, c, i)
              /\ IndependentPass(w, "verification", c, j)
              /\ evidence[w][i].actor # evidence[w][j].actor

\* TECH_COMPLETE means all three review stages passed on one candidate, each
\* answered by an identity other than the recorded producer: it still holds in
\* every later state up to ACCEPTED, whoever calls the store and in any order.
CompletionIndependent ==
    \A w \in WP : state[w] \in Complete => IndependentlyReviewed(w, completed[w])

\* An accepted package has a PASSing verification of the exact candidate it was
\* accepted on, recorded by somebody who did not produce it.
AcceptedOnVerified ==
    \A w \in WP : state[w] = "ACCEPTED" =>
        /\ accepted[w] # None
        /\ \E i \in DOMAIN evidence[w] : IndependentPass(w, "verification", accepted[w], i)

\* READY means every dependency is ACCEPTED, and goes on meaning it while the
\* catalogue does not change: acceptance is never taken back underneath.
ReadyOnAccepted ==
    \A w \in WP : state[w] = "READY" => UnmetDependencies(w) = {}

\* Evidence is append-only: no retry, transition or re-seed removes or rewrites
\* a row that is there.
EvidenceKept ==
    [][\A w \in WP : /\ Len(evidence[w]) <= Len(evidence'[w])
                     /\ \A i \in DOMAIN evidence[w] : evidence'[w][i] = evidence[w][i]]_vars

\* A blocking finding whose subject is unknown blocks for ever: nothing
\* supersedes it, and the package is not accepted while it stands.
UnattributedVetoStands ==
    [][\A w \in WP : \A f \in OpenBlockingFindings(w) :
          f.candidate = None =>
              /\ f \in OpenBlockingFindings(w)'
              /\ state[w] # "ACCEPTED" => state'[w] # "ACCEPTED"]_vars

\* store.py:423 "Three separate questions were asked by three separate
\* identities": a completed package has three different answerers.
ThreeIdentities ==
    \A w \in WP : state[w] = "TECH_COMPLETE" =>
        \E by \in [Kinds -> Actor] :
            /\ \A k, l \in Kinds : by[k] = by[l] => k = l
            /\ \A k \in Kinds : \E i \in DOMAIN evidence[w] :
                  IndependentPass(w, k, completed[w], i) /\ evidence[w][i].actor = by[k]

\* store.py:149 "Every method that can weaken an invariant refuses in code": an
\* accepted candidate passed the three reviews, whatever the callers do.
AcceptedFullyReviewed ==
    \A w \in WP : state[w] = "ACCEPTED" => IndependentlyReviewed(w, accepted[w])

\* The work phase of a package, as Lifecycle sees it.
Phase(s) ==
    CASE s \in {"EXECUTING", "SPEC_REVIEW", "CODE_REVIEW", "VERIFYING"} -> "making"
      [] s \in {"TECH_COMPLETE", "ACCEPTANCE_READY"} -> "complete"
      [] s = "ACCEPTED" -> "accepted"
      [] OTHER -> "waiting"

Votes(w) ==
    {<<evidence[w][i].kind, evidence[w][i].candidate, evidence[w][i].actor>> :
        i \in {j \in DOMAIN evidence[w] : evidence[w][j].verdict = "PASS"}}

Abstract == INSTANCE Lifecycle WITH
    Package <- WP, Identity <- Actor, Revision <- Candidate,
    Question <- Kinds, Verification <- "verification", Nobody <- None,
    phase <- [w \in WP |-> Phase(state[w])],
    author <- producer,
    votes <- [w \in WP |-> Votes(w)],
    decided <- completed

\* The store implements the promise of Lifecycle.
ImplementsLifecycle == Abstract!Spec
=============================================================================
