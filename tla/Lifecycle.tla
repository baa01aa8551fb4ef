----------------------------- MODULE Lifecycle -----------------------------
(***************************************************************************)
(* What the commissioning store promises about a package, with nothing of  *)
(* how it keeps the promise: work begins under a named author, others vote *)
(* on candidates, a package is complete only on a candidate that every     *)
(* question was answered for by somebody else, verification by somebody    *)
(* who answered no other question, and acceptance comes only from a        *)
(* complete package, on a candidate an outsider verified.  Votes are never *)
(* withdrawn and an accepted package never moves again.  The module is the *)
(* abstract specification that Store implements; it models no code line.   *)
(***************************************************************************)
CONSTANTS Package, Identity, Revision, Question, Verification, Nobody

VARIABLES
    phase,     \* "waiting", "making", "complete" or "accepted"
    author,    \* who began the work under way, or Nobody
    votes,     \* the favourable answers: <<question, revision, identity>>
    decided    \* the revision the package was completed on, or Nobody

lvars == <<phase, author, votes, decided>>

Vote == Question \X Revision \X Identity

\* Somebody other than the author answered q favourably for c.
AnsweredBy(w, q, c) == {a \in Identity \ {author[w]} : <<q, c, a>> \in votes[w]}

IndependentlyAnswered(w, c) ==
    /\ \A q \in Question : AnsweredBy(w, q, c) # {}
    /\ \A q \in Question \ {Verification} :
          \E a \in AnsweredBy(w, q, c), v \in AnsweredBy(w, Verification, c) : a # v

Begin(w, a) ==
    /\ phase[w] = "waiting"
    /\ phase' = [phase EXCEPT ![w] = "making"]
    /\ author' = [author EXCEPT ![w] = a]
    /\ UNCHANGED <<votes, decided>>

CastVote(w, v) ==
    /\ votes' = [votes EXCEPT ![w] = @ \cup {v}]
    /\ UNCHANGED <<phase, author, decided>>

Complete(w, c) ==
    /\ phase[w] = "making"
    /\ author[w] # Nobody
    /\ IndependentlyAnswered(w, c)
    /\ phase' = [phase EXCEPT ![w] = "complete"]
    /\ decided' = [decided EXCEPT ![w] = c]
    /\ UNCHANGED <<author, votes>>

Accept(w, c) ==
    /\ phase[w] = "complete"
    /\ AnsweredBy(w, Verification, c) # {}
    /\ IndependentlyAnswered(w, decided[w])
    /\ phase' = [phase EXCEPT ![w] = "accepted"]
    /\ UNCHANGED <<author, votes, decided>>

Abandon(w) ==
    /\ phase[w] \in {"making", "complete"}
    /\ phase' = [phase EXCEPT ![w] = "waiting"]
    /\ UNCHANGED <<author, votes, decided>>

Init ==
    /\ phase = [w \in Package |-> "waiting"]
    /\ author = [w \in Package |-> Nobody]
    /\ votes = [w \in Package |-> {}]
    /\ decided = [w \in Package |-> Nobody]

Next ==
    \E w \in Package :
        \/ \E a \in Identity : Begin(w, a)
        \/ \E v \in Vote : CastVote(w, v)
        \/ \E c \in Revision : Complete(w, c) \/ Accept(w, c)
        \/ Abandon(w)

Spec == Init /\ [][Next]_lvars
=============================================================================
