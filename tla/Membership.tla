---------------------------- MODULE Membership -----------------------------
(***************************************************************************)
(* Who a deployment admits (dume/collaboration/github.py) and the console's *)
(* `dume membership` (cmd_membership in dume/cli.py).  Two files, neither   *)
(* locked: the roster, which admission reads, and the queue of those who    *)
(* knocked, which the operator decides on.  Every read, decision and write  *)
(* that another process can come between is a step of its own.              *)
(*                                                                         *)
(* GitHub is what its answers can be; the texts of its errors are left out. *)
(***************************************************************************)
CONSTANTS
    Login,     \* GitHub accounts, in lower case
    Visit,     \* admissions that can be under way at once
    Corrupt,   \* a file whose writing was cut
    None

VARIABLES
    config,    \* the roster's file: client id, logins and organisation
    queue,     \* the file of requests
    visits,    \* each admission: where it is, who, the roster and the queue it read
    console,   \* the one `dume membership` under way
    torn       \* accounts whose approval died before it reached the roster

mvars == <<config, queue, visits, console, torn>>

-----------------------------------------------------------------------------
(* The files *)

\* load_roster: a client id must be registered.  A file that is not there reads as
\* one that names nobody.
Rosters == [client : BOOLEAN, logins : SUBSET Login, org : BOOLEAN]

Entries == {None, "pending", "approved", "denied"}

\* A cut file is neither a roster nor a queue, and no entry is none of the entries.
ASSUME FilesAssumption ==
    /\ Corrupt \notin Rosters \cup [Login -> Entries]
    /\ None \notin {"pending", "approved", "denied"}

\* _load_requests: a queue that cannot be read is an empty one.
Requests == IF queue = Corrupt THEN [l \in Login |-> None] ELSE queue

Away == [at |-> "away", login |-> None, roster |-> None, read |-> None]
Idle == [at |-> "idle", login |-> None, approve |-> FALSE, read |-> None]

-----------------------------------------------------------------------------
(* Admission: begin(), redeem() until the code is typed, admit() *)

\* begin() may raise: nobody has arrived.
Begin(v, l) ==
    /\ visits[v] = Away
    /\ config # Corrupt /\ config.client
    /\ visits' = [visits EXCEPT ![v] =
                    [at |-> "code", login |-> l, roster |-> config, read |-> None]]
    /\ UNCHANGED <<config, queue, console, torn>>

\* One poll that is not "still typing": a token, or the request expired or declined.
Redeem(v) ==
    /\ visits[v].at = "code"
    /\ visits' = [visits EXCEPT ![v] = Away] \/ visits' = [visits EXCEPT ![v].at = "token"]
    /\ UNCHANGED <<config, queue, console, torn>>

\* Mutant: knocking again asks again.
KnocksAlways(entry) == TRUE

\* record_request: a denial is not overwritten by knocking.
Knocks(entry) == entry # "denied"

\* admit(): by name, or by what GitHub says of the organisation, with the roster as it
\* was read at the beginning; else up to record_request's reading of the queue.  It is
\* over, too, when GitHub does not answer.
Admit(v) ==
    /\ visits[v].at = "token"
    /\ LET visit == visits[v]
           named == visit.login \in visit.roster.logins
       IN  \/ /\ ~named /\ Knocks(Requests[visit.login])
              /\ visits' = [visits EXCEPT ![v] = [visit EXCEPT !.at = "knock",
                                                 !.roster = None, !.read = Requests]]
           \/ visits' = [visits EXCEPT ![v] = Away]   \* admitted, refused or an error
    /\ UNCHANGED <<config, queue, console, torn>>

\* record_request's writing of the whole queue it had read, whole or cut.
Knock(v) ==
    /\ visits[v].at = "knock"
    /\ queue' \in {[visits[v].read EXCEPT ![visits[v].login] = "pending"], Corrupt}
    /\ visits' = [visits EXCEPT ![v] = Away]
    /\ UNCHANGED <<config, console, torn>>

\* The person or the process goes away.
Leave(v) ==
    /\ visits[v] # Away
    /\ visits' = [visits EXCEPT ![v] = Away]
    /\ UNCHANGED <<config, queue, console, torn>>

-----------------------------------------------------------------------------
(* The console *)

\* --client-id and --org: read, changed and written, or the write is cut.
Configure(client, org) ==
    /\ console = Idle /\ config # Corrupt
    /\ \/ config' = [config EXCEPT !.client = @ \/ client, !.org = org]
       \/ config' = Corrupt
    /\ UNCHANGED <<queue, visits, console, torn>>

\* decide() reads the queue; who has not asked is not decided on.  cmd_membership
\* reads the roster's file first and stops if it cannot.
DecideReads(l, approve) ==
    /\ console = Idle /\ config # Corrupt
    /\ Requests[l] # None
    /\ console' = [at |-> "queue", login |-> l, approve |-> approve, read |-> Requests]
    /\ UNCHANGED <<config, queue, visits, torn>>

\* Mutant: who was once decided on is taken to be in the roster already.
RosterDueOnceOnly(c) == c.approve /\ c.read[c.login] = "pending"

RosterDue(c) == c.approve

DecideWrites ==
    /\ console.at = "queue"
    /\ \/ /\ queue' = [console.read EXCEPT ![console.login] =
                         IF console.approve THEN "approved" ELSE "denied"]
          /\ console' = IF RosterDue(console) THEN [console EXCEPT !.at = "roster"] ELSE Idle
       \/ /\ queue' = Corrupt
          /\ console' = Idle
    /\ UNCHANGED <<config, visits, torn>>

\* Approval adds the login to the roster as it is now, once.
WriteRoster ==
    /\ console.at = "roster"
    /\ \/ config' = [config EXCEPT !.logins = @ \cup {console.login}]
       \/ config' = Corrupt
    /\ torn' = torn \ {console.login}
    /\ console' = Idle
    /\ UNCHANGED <<queue, visits>>

ConsoleDies ==
    /\ console # Idle
    /\ torn' = IF console.at = "roster" THEN torn \cup {console.login} ELSE torn
    /\ console' = Idle
    /\ UNCHANGED <<config, queue, visits>>

-----------------------------------------------------------------------------
(* The specification *)

MembershipInit ==
    /\ config = [client |-> FALSE, logins |-> {}, org |-> FALSE]
    /\ queue = [l \in Login |-> None]
    /\ visits = [v \in Visit |-> Away] /\ console = Idle
    /\ torn = {}

MembershipNext ==
    \/ \E v \in Visit, l \in Login : Begin(v, l)
    \/ \E v \in Visit : Redeem(v) \/ Admit(v) \/ Knock(v) \/ Leave(v)
    \/ \E client, org \in BOOLEAN : Configure(client, org)
    \/ \E l \in Login, approve \in BOOLEAN : DecideReads(l, approve)
    \/ DecideWrites \/ WriteRoster \/ ConsoleDies

MembershipSpec == MembershipInit /\ [][MembershipNext]_mvars

-----------------------------------------------------------------------------
(* Properties *)

\* Types; only the console and a cut write keep an account out of the roster.
MembershipTypeOK ==
    /\ config \in Rosters \cup {Corrupt}
    /\ queue = Corrupt \/ queue \in [Login -> Entries]
    /\ \A v \in Visit :
         /\ visits[v].at \in {"away", "code", "token", "knock"}
         /\ visits[v].at = "knock" => visits[v].read[visits[v].login] # "denied"
    /\ console.at \in {"idle", "queue", "roster"}
    /\ torn \subseteq Login

\* "A person marked approved in one place and refused by the other is the worst of
\* both" (cli.py:316): whoever the queue calls approved is in the roster, whatever
\* stale queues were written in between, unless the approval is under way or died
\* between its two writes.
ApprovedIsAdmitted ==
    config # Corrupt =>
        \A l \in Login : Requests[l] = "approved" =>
            \/ l \in config.logins \cup torn
            \/ console.at = "roster" /\ console.login = l

\* A denial is not overwritten by knocking again (github.py:228): it goes only when the
\* operator approves, when a queue that was read before it is written back, or when
\* the writing of the queue is cut.
DenialsStand ==
    [][\A l \in Login : Requests[l] = "denied" /\ Requests'[l] # "denied" =>
          \/ queue' = Corrupt
          \/ console.at = "queue" /\ (console.read[l] # "denied" \/
                                      (console.login = l /\ console.approve))
          \/ \E v \in Visit : visits[v].at = "knock" /\ visits[v].read[l] # "denied"]_mvars
=============================================================================
