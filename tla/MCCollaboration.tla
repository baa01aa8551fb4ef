-------------------------- MODULE MCCollaboration ---------------------------
(* The membership shares nothing with the relay, nor do the standing channels   *)
(* with those of packages: each behaviour exercises one of the three, the others *)
(* rest in their initial state.                                                  *)
EXTENDS Membership, Relay

CONSTANTS ann, bob, v1, d1, d2, wp

VARIABLE part

Twice == [d \in Deployment |-> wp]      \* the second deployment is a rerun

\* A role with two slots.
TwoVerifiers == <<"verifier", "verifier">>

CollaborationInit ==
    MembershipInit /\ RelayInit /\ part \in {"membership", "cohorts", "spaces"}

CollaborationNext ==
    \/ part = "membership" /\ MembershipNext /\ UNCHANGED <<lvars, part>>
    \/ part = "cohorts" /\ Deploying /\ UNCHANGED <<mvars, part>>
    \/ part = "spaces" /\ Checking /\ UNCHANGED <<mvars, part>>

CollaborationSpec == CollaborationInit /\ [][CollaborationNext]_<<mvars, lvars, part>>

\* Types of both parts.
CollaborationTypeOK == MembershipTypeOK /\ RelayTypeOK
=============================================================================
