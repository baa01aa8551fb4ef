--------------------------- MODULE MCCommission ----------------------------
(* Small instances of Commission for TLC. *)
EXTENDS Commission, TLC

CONSTANTS w1, w2, c1, c2, p1, p2, p3

\* One package, no dependency.
SoleCatalogue == [w \in WP |-> {{}}]

\* w2 depends on w1.
ChainCatalogue == [w \in WP |-> IF w = w1 THEN {{}} ELSE {{w1}}]

\* Each question is answered by the role it is asked of.
RoleReviewer == [k \in Kinds |-> {Asked[k]}]

\* Room for a candidate that is refused and one that is not, or for one candidate's
\* answers and the operator's: a run that finds no room goes no further.
Room == [w \in WP |-> 4]

\* The operator passes a candidate in the verifier's name.
VerifiedByHand == {[kind |-> "verification", actor |-> "verifier", verdict |-> "PASS"]}

ProcessesInterchangeable == Permutations(Proc)
CandidatesInterchangeable == Permutations(Candidate)
=============================================================================
