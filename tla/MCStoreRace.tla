---------------------------- MODULE MCStoreRace ----------------------------
(* Small instances of StoreRace for TLC. *)
EXTENDS StoreRace, Functions, TLC

CONSTANTS w1, c1, c2, producerA, reviewerA, verifierA, p1, p2

SoleCatalogue == [w \in WP |-> {{}}]

ThreeEach == [w \in WP |-> 3]

AssignedReviewer ==
    [k \in Kinds |-> IF k = "verification" THEN {verifierA} ELSE {reviewerA}]

(***************************************************************************)
(* Bounds.  Alone, a process sees findings or evidence appended outside    *)
(* reviews, not both.  Two processes raise no finding, and evidence is     *)
(* what reviews record, which pass and are not repeated.                   *)
(***************************************************************************)
BoundedAlone ==
    \A w \in WP :
        findings'[w] = {} \/ \A i \in DOMAIN evidence'[w] : evidence'[w][i].actor \notin Attestor

BoundedTogether(p) ==
    /\ call'[p].op # "finding" /\ UNCHANGED findings
    /\ call'[p].op = "review" => call'[p].record.verdict = "PASS"
    /\ call[p].op # "review" => UNCHANGED evidence
    /\ \A w \in WP : IsInjective(evidence'[w])

Bounded(p) == IF open = {p} THEN BoundedAlone ELSE BoundedTogether(p)

RunInit == RaceInit /\ open # {}

RunNext == \E p \in open : Step(p) /\ UNCHANGED open /\ Bounded(p)

RunSpec == RunInit /\ [][RunNext]_rvars

Interchangeable == Permutations(Candidate) \cup Permutations(Process)
=============================================================================
