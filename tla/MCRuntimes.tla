---------------------------- MODULE MCRuntimes -----------------------------
(* A small instance of Runtimes for TLC. *)
EXTENDS Runtimes

CONSTANTS qwen, mistral, claude

CheapestFirst == <<qwen, mistral, claude>>
Families3 == [r \in Runtime |-> CASE r = qwen -> "qwen" [] r = mistral -> "mistral"
                                  [] OTHER -> "claude"]
ProbedHow == [r \in Runtime |-> IF r = claude THEN "cli" ELSE "endpoint"]

Entry(status, mode, roles) == [status |-> status, mode |-> mode, roles |-> roles]

\* Everything answers; the premium runtime is kept for the work it is needed for.
Reserved ==
    {[r \in Runtime |-> Entry("AVAILABLE", IF r = claude THEN "RESERVE" ELSE "NORMAL",
                              BoundRoles)]}

\* All trials, tool calls alone, all but tool calls.
FewResults == {{"tool_calling"},
               {"structured_output", "refuses_an_unsound_claim", "admits_uncertainty"}}

\* The smallest package, and one with three implementers and two verifiers.
FewPackages ==
    {Package({}, 0, 1, 0, 0, 0),
     Package({"touches_security_boundary"}, 3, 2, 1, 1, 0)}

FewWork == {None, "ARCHITECTURE_CRITICAL", "HIGH_RISK_REVIEW"}
=============================================================================
