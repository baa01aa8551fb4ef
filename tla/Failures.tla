----------------------------- MODULE Failures ------------------------------
(***************************************************************************)
(* Why something failed (dume/runtimes/failures.py): the closed set of     *)
(* failure classes, whether the candidate is implicated, and whether a     *)
(* retry can help.                                                         *)
(***************************************************************************)
EXTENDS Naturals

\* Retrying cannot change these.
EscalateImmediately ==
    {"DEPENDENCY_FAILURE", "UPSTREAM_FAILURE", "ARCHITECTURE_CONFLICT",
     "ACCEPTANCE_CONTRADICTION"}

CandidateImplicated == {"IMPLEMENTATION_FAILURE", "SPEC_MISINTERPRETATION"}

FailureClasses ==
    EscalateImmediately \cup CandidateImplicated \cup
    {"TEST_INFRA_FAILURE", "RUNTIME_FAILURE", "HARNESS_FAILURE"}

\* retry_decision(name, attempts, limit)["retry"]
RetryDecision(class, attempts, limit) ==
    class \notin EscalateImmediately /\ attempts < limit
=============================================================================
