------------------------------ MODULE MCStore ------------------------------
(* Small instances of Store for TLC. *)
EXTENDS Store, TLC

CONSTANTS w1, w2, c1, c2, producerA, reviewerA, verifierA

\* One package, no dependency.
SoleCatalogue == [w \in WP |-> {{}}]

\* w2 depends on w1; the catalogue does not change between seeds.
ChainCatalogue == [w \in WP |-> IF w = w1 THEN {{}} ELSE {{w1}}]

\* Three evidence rows: one answer to each question.
ThreeEach == [w \in WP |-> 3]

\* w1 can be completed; w2 only waits for it.
FirstOnly == [w \in WP |-> IF w = w1 THEN 3 ELSE 0]

\* One reviewer for both reviews, another for verification.
AssignedReviewer ==
    [k \in Kinds |-> IF k = "verification" THEN {verifierA} ELSE {reviewerA}]

CandidatesInterchangeable == Permutations(Candidate)
=============================================================================
