----------------------------- MODULE MCBridge ------------------------------
(* A small instance of Bridge for TLC. *)
EXTENDS Bridge

CONSTANTS owner, guest

Plain(from, word) == Message(from, Command(word), FALSE, FALSE)
Prose(word, reading) == Says(word, TRUE, FALSE, reading)

\* The owner pauses, resumes, starts a run, kills, asks in his own words, forwards a
\* command and forwards a question; the guest tries to pause.
FewUpdates ==
    {Plain(owner, "pause"), Plain(owner, "resume"), Plain(owner, "commission"),
     Plain(owner, "kill"), Plain(guest, "pause"),
     Message(owner, Command("resume"), TRUE, FALSE),
     Message(owner, Prose("how", "status"), TRUE, FALSE),
     Message(owner, Prose("confirm", None), FALSE, FALSE)}

\* The owner may do everything, the guest nothing until he is authorised.
OwnerOnly == {[a \in Actor |-> IF a = owner THEN "DANGEROUS_ACTION" ELSE None]}

NoText == {}
=============================================================================
