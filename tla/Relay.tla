------------------------------- MODULE Relay --------------------------------
(***************************************************************************)
(* The harness on its Buzz relay (dume/collaboration/buzz.py): the standing *)
(* channels that `dume health` asserts, and the cohort that each run        *)
(* deploys into its package's channel (deploy_cohort, from open_channel in  *)
(* dume/control/orchestrator.py).  The relay keeps channels, members,       *)
(* profiles and seats; any call can be refused, or done and not answered,   *)
(* or declined in an answer that raises nothing, or answered unreadably.    *)
(* Signatures, and what the messages say, are left out.                     *)
(***************************************************************************)
EXTENDS Naturals, Sequences, FiniteSets

CONSTANTS
    Deployment,   \* runs that open a channel, the reruns of a package among them
    Package,      \* Deployment -> the package it works on
    Roles,        \* the role slots of a cohort, in order
    Space,        \* the standing channels
    Operator      \* the operator's public key

ASSUME RelayAssumption == Roles \in Seq(STRING) \ {<<>>}

VARIABLES
    channels,     \* channels that exist on the relay
    members,      \* keys the relay lets in
    named,        \* keys with a profile
    seats,        \* <<channel, key>>
    cohorts,      \* what each deployment made and where it stands
    spaces,       \* what the last check of each standing channel found
    declined      \* history: <<channel, key>> or <<channel, run>> whose profile, seat or
                  \* announcement was declined and nobody told

relay == <<channels, members, named, seats>>
lvars == <<relay, cohorts, spaces, declined>>

-----------------------------------------------------------------------------
(* Calls *)

\* How a call ends: whether the relay did it, and what its answer says.  A BuzzError is
\* "error", done or not; "declined" is a 200 answer with accepted: false, which publish
\* returns and no caller reads; "unreadable" is an answer that is no JSON and no BuzzError.
Ends ==
    {[done |-> TRUE, says |-> "accepted"], [done |-> FALSE, says |-> "declined"]}
        \cup [done : BOOLEAN, says : {"error", "unreadable"}]

\* Calls that publish no event have no accepted to be false.
PlainEnds == {end \in Ends : end.says # "declined"}

\* What the relay keeps after the call.
With(kept, end, new) == IF end.done THEN kept \cup {new} ELSE kept

Unread(end, what) ==
    declined' = IF end.says = "declined" THEN declined \cup {what} ELSE declined

-----------------------------------------------------------------------------
(* deploy_cohort *)

\* The second slot of a role is another agent: role, role#2, ...
Key(keys, role) ==
    <<role, 1 + Cardinality({k \in DOMAIN keys : keys[k][1] = role})>>

\* The keys of the first n slots, each made when those before it are there.
Minted[n \in 0..Len(Roles)] ==
    IF n = 0 THEN <<>> ELSE Append(Minted[n - 1], Key(Minted[n - 1], Roles[n]))

Keys == Minted[Len(Roles)]

\* Every deployment mints its own keypairs.
Pubkey(d, key) == <<d, key>>

Fresh == [at |-> "out", keys |-> <<>>, next |-> 0, faults |-> {}]

Current(d) == cohorts[d].keys[cohorts[d].next]

\* The next identity, with a fault against the one before or without.
Proceed(d, faults) ==
    cohorts' = [cohorts EXCEPT
        ![d].faults = @ \cup faults,
        ![d].next = @ + 1,
        ![d].at = IF cohorts[d].next = Len(cohorts[d].keys) THEN "announce" ELSE "member"]

\* Mutant: a seat that was refused is passed over in silence.
FaultUnlessSeating(d) == IF cohorts[d].at = "seat" THEN {} ELSE {Current(d)}

Fault(d) == {Current(d)}

Advance(d, to) == cohorts' = [cohorts EXCEPT ![d].at = to]

\* open_channel ends without channel or cohort.
Close(d) == cohorts' = [cohorts EXCEPT ![d] = [Fresh EXCEPT !.at = "closed"]]

\* The loop over the identities catches a BuzzError and goes on to the next one; what
\* is declined it does not notice, and an unreadable answer leaves it and the run.
Hears(d, end, next) ==
    \/ end.says \in {"accepted", "declined"} /\ next
    \/ end.says = "error" /\ Proceed(d, Fault(d))
    \/ end.says = "unreadable" /\ Close(d)

\* create_channel, whose error is taken to mean that an earlier run created it.
OpenChannel(d) ==
    /\ cohorts[d].at = "out"
    /\ \E end \in Ends :
         /\ channels' = With(channels, end, Package[d])
         /\ \/ end.says = "unreadable" /\ Close(d)
            \/ /\ end.says # "unreadable"
               /\ cohorts' = [cohorts EXCEPT ![d] =
                                [at |-> "member", keys |-> Keys, next |-> 1, faults |-> {}]]
    /\ UNCHANGED <<members, named, seats, spaces, declined>>

\* is_member: established by trying; a relay out of reach says no.
AskMember(d) ==
    /\ cohorts[d].at = "member"
    /\ \/ Pubkey(d, Current(d)) \in members /\ Advance(d, "profile")
       \/ Advance(d, "invite")
       \/ Close(d)
    /\ UNCHANGED <<relay, spaces, declined>>

\* admit(): the owner mints an invite, then the identity claims it.
MintInvite(d) ==
    /\ cohorts[d].at = "invite"
    /\ \E end \in PlainEnds : Hears(d, end, Advance(d, "claim"))
    /\ UNCHANGED <<relay, spaces, declined>>

ClaimInvite(d) ==
    /\ cohorts[d].at = "claim"
    /\ \E end \in PlainEnds :
         /\ members' = With(members, end, Pubkey(d, Current(d)))
         /\ Hears(d, end, Advance(d, "profile"))
    /\ UNCHANGED <<channels, named, seats, spaces, declined>>

Seat(d) == <<Package[d], Pubkey(d, Current(d))>>

SetProfile(d) ==
    /\ cohorts[d].at = "profile"
    /\ \E end \in Ends :
         /\ end.done => Pubkey(d, Current(d)) \in members
         /\ named' = With(named, end, Pubkey(d, Current(d)))
         /\ Hears(d, end, Advance(d, "seat"))
         /\ Unread(end, Seat(d))
    /\ UNCHANGED <<channels, members, seats, spaces>>

\* add_member by the owner; the relay knows no seat in a channel it does not have.
AddMember(d) ==
    /\ cohorts[d].at = "seat"
    /\ \E end \in Ends :
         /\ end.done => Package[d] \in channels
         /\ seats' = With(seats, end, Seat(d))
         /\ Hears(d, end, Proceed(d, {}))
         /\ Unread(end, Seat(d))
    /\ UNCHANGED <<channels, members, named, spaces>>

\* The announcement.  If it raises, open_channel keeps neither channel nor cohort.
Announce(d) ==
    /\ cohorts[d].at = "announce"
    /\ \E end \in Ends :
         /\ end.done => Package[d] \in channels
         /\ \/ end.says \in {"accepted", "declined"} /\ Advance(d, "open")
            \/ end.says \in {"error", "unreadable"} /\ Close(d)
         /\ Unread(end, <<Package[d], d>>)
    /\ UNCHANGED <<relay, spaces>>

\* The run's process is killed; what it told the relay stays.
KillRun(d) ==
    /\ cohorts[d].at \notin {"out", "open", "closed"}
    /\ Close(d)
    /\ UNCHANGED <<relay, spaces, declined>>

-----------------------------------------------------------------------------
(* ensure_spaces, from `dume health` *)

\* What a call of the check leaves behind: an unreadable answer ends the whole check.
Finds(s, end, found) ==
    spaces' = IF end.says = "unreadable" THEN [t \in Space |-> "unchecked"]
              ELSE [spaces EXCEPT ![s] = found]

\* A channel the relay refuses to create is said to be there already.
AssertSpace(s) ==
    /\ spaces[s] # "asserted"
    /\ \E end \in Ends :
         /\ channels' = With(channels, end, s)
         /\ Finds(s, end, "asserted")
    /\ UNCHANGED <<members, named, seats, cohorts, declined>>

AddOperator(s) ==
    /\ spaces[s] = "asserted"
    /\ \E end \in Ends :
         /\ end.done => s \in channels
         /\ seats' = With(seats, end, <<s, Operator>>)
         /\ Finds(s, end, IF end.says = "error" THEN "not added" ELSE "fine")
         /\ Unread(end, <<s, Operator>>)
    /\ UNCHANGED <<channels, members, named, cohorts>>

-----------------------------------------------------------------------------
(* The specification *)

RelayInit ==
    /\ channels = {} /\ members = {} /\ named = {} /\ seats = {}
    /\ cohorts = [d \in Deployment |-> Fresh]
    /\ spaces = [s \in Space |-> "unchecked"]
    /\ declined = {}

Deploying ==
    \E d \in Deployment :
        \/ OpenChannel(d) \/ AskMember(d) \/ MintInvite(d) \/ ClaimInvite(d)
        \/ SetProfile(d) \/ AddMember(d) \/ Announce(d) \/ KillRun(d)

Checking == \E s \in Space : AssertSpace(s) \/ AddOperator(s)

RelayNext == Deploying \/ Checking

RelaySpec == RelayInit /\ [][RelayNext]_lvars

-----------------------------------------------------------------------------
(* Properties *)

\* Types; the relay seats only in channels it has.
RelayTypeOK ==
    /\ channels \subseteq {Package[d] : d \in Deployment} \cup Space
    /\ \A seat \in seats : seat[1] \in channels
    /\ \A d \in Deployment :
         /\ cohorts[d].at \in {"out", "member", "invite", "claim", "profile", "seat",
                               "announce", "open", "closed"}
         /\ cohorts[d].next \in 0..Len(Roles) + 1
    /\ spaces \in [Space -> {"unchecked", "asserted", "fine", "not added"}]
    /\ \A d \in declined : d[1] \in {Package[e] : e \in Deployment} \cup Space

\* A run that has its channel has one agent for every slot, and each that is not among
\* the faults is admitted, and is named and seated unless that was declined: whichever
\* call failed, or was done and not answered.
Accounted(d) ==
    LET c == cohorts[d]
        slots == {c.keys[k] : k \in DOMAIN c.keys}
    IN  /\ Cardinality(slots) = Len(Roles)
        /\ \A key \in slots \ c.faults :
             /\ Pubkey(d, key) \in members
             /\ \/ <<Package[d], Pubkey(d, key)>> \in declined
                \/ Pubkey(d, key) \in named /\ <<Package[d], Pubkey(d, key)>> \in seats

\* No BuzzError is lost on the way (deploy_cohort, ensure_spaces): a run that has its
\* channel accounts for its cohort, and the channel exists if the announcement was not
\* declined; a standing channel found in order is one the operator is in if that was
\* not declined, though its creation may have failed unnoticed (buzz.py:436).
NoErrorIsSilent ==
    /\ \A d \in Deployment :
         cohorts[d].at = "open" =>
             /\ Package[d] \in channels \/ <<Package[d], d>> \in declined
             /\ Accounted(d)
    /\ \A s \in Space :
         spaces[s] = "fine" => <<s, Operator>> \in seats \cup declined

(***************************************************************************)
(* What the repository says, and the code does not do.                     *)
(***************************************************************************)

\* buzz.py:478 "visible rather than silent": an agent that has no name or no seat is
\* among the faults.
VisibleRatherThanSilent ==
    \A d \in Deployment : cohorts[d].at = "open" =>
        \A k \in DOMAIN cohorts[d].keys :
            LET key == cohorts[d].keys[k]
            IN  \/ key \in cohorts[d].faults
                \/ Pubkey(d, key) \in named /\ <<Package[d], Pubkey(d, key)>> \in seats
=============================================================================
