----------------------------- MODULE MCGateway -----------------------------
(* A small instance of Gateway for TLC. *)
EXTENDS Gateway, TLC

CONSTANTS a1, a2

\* A command anybody may give, a dangerous one, and one that is refused after it
\* was counted.
FewTexts == {Command("status"), Command("kill"), Says("sudo", TRUE, TRUE, None)}

ActorsInterchangeable == Permutations(Actor)
=============================================================================
