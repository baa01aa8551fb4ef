----------------------------- MODULE StoreRace -----------------------------
(***************************************************************************)
(* The calls of the store as several processes make them.  A call reads    *)
(* the row of its package, puts further queries one after the other, and   *)
(* then writes; it reads outside the transaction that writes, and the      *)
(* UPDATE repeats nothing of what was read (dume/state/store.py:357-417).  *)
(* Between any two of these steps another process may do the same.  Calls  *)
(* whose write does not depend on what they read are one step.             *)
(*                                                                         *)
(* The dependencies of a package are read in one step here.                *)
(***************************************************************************)
EXTENDS Store

CONSTANT Process    \* operating-system processes

VARIABLES
    call,           \* what each process has read and not written yet
    open            \* the processes that have the store open

rvars == <<vars, call, open>>

\* What SELECT * FROM wp returns, and the completion the state of the row rests on.
Row(w) == [state |-> state[w], candidate |-> candidate[w], producer |-> producer[w],
           completed |-> completed[w]]

NoCall == [op |-> "none"]

Idle(p) == call[p] = NoCall

Close(p) == call' = [call EXCEPT ![p] = NoCall]

(***************************************************************************)
(* transition()                                                            *)
(***************************************************************************)
\* Mutant: acceptance does not look at the findings.
QueriesWithoutFindings(to) ==
    IF to = "READY" THEN <<"dependencies">>
    ELSE IF to = "TECH_COMPLETE"
      THEN <<"stage", "specification_compliance", "code_quality", "verification">>
    ELSE IF to \in DOMAIN StagePrerequisite THEN <<"stage">>
    ELSE IF to = "ACCEPTED" THEN <<"acceptance">>
    ELSE <<>>

\* What is asked of the other tables on the way into a state, in order.
Queries(to) ==
    IF to = "READY" THEN <<"dependencies">>
    ELSE IF to = "TECH_COMPLETE"
      THEN <<"stage", "specification_compliance", "code_quality", "verification">>
    ELSE IF to \in DOMAIN StagePrerequisite THEN <<"stage">>
    ELSE IF to = "ACCEPTED" THEN <<"acceptance", "findings">>
    ELSE <<>>

\* The answer that lets the call m go on.
Satisfied(m, query) ==
    LET Foreign(ids) == \A i \in ids : evidence[m.wp][i].actor # m.row.producer
    IN  \/ query = "dependencies" /\ UnmetDependencies(m.wp) = {}
        \/ query = "stage" /\ Passing(m.wp, m.candidate, StagePrerequisite[m.to]) # {}
        \/ /\ query \in Kinds
           /\ Passing(m.wp, m.candidate, query) # {}
           /\ Foreign(Passing(m.wp, m.candidate, query))
        \/ /\ query = "acceptance"
           /\ Foreign(Records(m.wp, m.candidate, "verification"))
           /\ Passing(m.wp, m.candidate, "verification") # {}
        \/ query = "findings" /\ OpenBlockingFindings(m.wp) = {}

\* seen[kind] = passing[-1]["actor"]
LastActor(m, kind) ==
    evidence[m.wp][CHOOSE i \in Latest(Passing(m.wp, m.candidate, kind)) : TRUE].actor

\* The row is read, and what only needs the row is checked.
BeginTransition(p, w, to, a, c) ==
    LET cand == Effective(w, c)
    IN  /\ Idle(p)
        /\ Permitted(w, to)
        /\ to \in {"TECH_COMPLETE", "ACCEPTED"} => cand # None
        /\ to = "ACCEPTED" => candidate[w] \in {None, cand} /\ a # producer[w]
        /\ call' = [call EXCEPT ![p] =
                      [op |-> "transition", wp |-> w, to |-> to, actor |-> a,
                       candidate |-> cand, row |-> Row(w), asked |-> 0,
                       seen |-> [k \in Kinds |-> None]]]
        /\ UNCHANGED vars

Ask(p) ==
    LET m == call[p]
        query == Queries(m.to)[m.asked + 1]
    IN  /\ m.op = "transition" /\ m.asked < Len(Queries(m.to))
        /\ Satisfied(m, query)
        /\ call' = [call EXCEPT ![p] =
                      [m EXCEPT !.asked = m.asked + 1,
                                !.seen = [k \in Kinds |-> IF k = query THEN LastActor(m, k)
                                                          ELSE m.seen[k]]]]
        /\ UNCHANGED vars

\* "fresh verification must be independent of the review that preceded it"
Separate(m) ==
    m.to = "TECH_COMPLETE" =>
        \A k \in Kinds \ {"verification"} : m.seen[k] # m.seen["verification"]

\* Mutant: the producer is not written, it stays what it is by now.
WriteTransitionKeepingProducer(p) ==
    LET m == call[p]
        w == m.wp
    IN  /\ m.op = "transition" /\ m.asked = Len(Queries(m.to)) /\ Separate(m)
        /\ state' = [state EXCEPT ![w] = m.to]
        /\ candidate' = [candidate EXCEPT ![w] = m.candidate]
        /\ producer' = [producer EXCEPT ![w] = IF m.to = "EXECUTING" THEN m.actor ELSE @]
        /\ retries' = [retries EXCEPT ![w] =
                          IF m.to = "RETRY" /\ @ < MaxRetry THEN @ + 1 ELSE @]
        /\ completed' = [completed EXCEPT ![w] = IF m.to = "TECH_COMPLETE" THEN m.candidate
                                                 ELSE m.row.completed]
        /\ accepted' = [accepted EXCEPT ![w] = IF m.to = "ACCEPTED" THEN m.candidate ELSE @]
        /\ Close(p)
        /\ UNCHANGED <<deps, evidence, findings>>

\* The UPDATE writes state, candidate and producer, whatever the row holds by now.
WriteTransition(p) ==
    LET m == call[p]
        w == m.wp
    IN  /\ m.op = "transition" /\ m.asked = Len(Queries(m.to)) /\ Separate(m)
        /\ state' = [state EXCEPT ![w] = m.to]
        /\ candidate' = [candidate EXCEPT ![w] = m.candidate]
        /\ producer' = [producer EXCEPT ![w] =
                           IF m.to = "EXECUTING" THEN m.actor ELSE m.row.producer]
        /\ retries' = [retries EXCEPT ![w] =
                          IF m.to = "RETRY" /\ @ < MaxRetry THEN @ + 1 ELSE @]
        /\ completed' = [completed EXCEPT ![w] = IF m.to = "TECH_COMPLETE" THEN m.candidate
                                                 ELSE m.row.completed]
        /\ accepted' = [accepted EXCEPT ![w] = IF m.to = "ACCEPTED" THEN m.candidate ELSE @]
        /\ Close(p)
        /\ UNCHANGED <<deps, evidence, findings>>

(***************************************************************************)
(* record_review() and add_finding()                                       *)
(***************************************************************************)
BeginReview(p, w, k, c, a, v) ==
    /\ Idle(p)
    /\ ReviewAllowed(w, k, a)
    /\ call' = [call EXCEPT ![p] =
                  [op |-> "review", wp |-> w,
                   record |-> [kind |-> k, candidate |-> c, actor |-> a, verdict |-> v]]]
    /\ UNCHANGED vars

WriteReview(p) ==
    /\ call[p].op = "review"
    /\ AddEvidence(call[p].wp, call[p].record)
    /\ Close(p)

\* A finding that names no candidate is about the one in the row.
BeginFinding(p, w, severity) ==
    /\ Idle(p)
    /\ call' = [call EXCEPT ![p] =
                  [op |-> "finding", wp |-> w,
                   record |-> [severity |-> severity, candidate |-> candidate[w],
                               status |-> "OPEN"]]]
    /\ UNCHANGED vars

WriteFinding(p) ==
    /\ call[p].op = "finding"
    /\ findings' = [findings EXCEPT ![call[p].wp] = @ \cup {call[p].record}]
    /\ Close(p)
    /\ UNCHANGED <<rows, deps, evidence>>

\* The call is refused at one of its queries, or its process is killed.
Abandon(p) ==
    /\ ~Idle(p)
    /\ Close(p)
    /\ UNCHANGED vars

-----------------------------------------------------------------------------
RaceInit ==
    /\ Init
    /\ call = [p \in Process |-> NoCall]
    /\ open \in SUBSET Process

\* The calls of one step.
AtOnce(w) ==
    \/ \E ds \in Catalogue[w] : Register(w, ds)
    \/ \E c \in Candidate : SetCandidate(w, c) \/ SupersedeFindings(w, c)
    \/ \E c \in Candidate, v \in {"PASS", "FAIL"}, k \in Kinds, a \in Attestor :
          AddEvidence(w, [kind |-> k, candidate |-> c, actor |-> a, verdict |-> v])
    \/ \E s \in Severity, c \in Candidate : AddFinding(w, s, c)

Begin(p, w) ==
    \/ \E to \in States : \E a \in Signatory(to), c \in Candidate \cup {None} :
          BeginTransition(p, w, to, a, c)
    \/ \E c \in Candidate, v \in {"PASS", "FAIL"}, k \in Kinds : \E a \in Reviewer[k] :
          BeginReview(p, w, k, c, a, v)
    \/ \E s \in Severity : BeginFinding(p, w, s)

Step(p) ==
    \/ \E w \in WP : Idle(p) /\ AtOnce(w) /\ UNCHANGED call
    \/ \E w \in WP : Begin(p, w)
    \/ Ask(p)
    \/ WriteTransition(p)
    \/ WriteReview(p)
    \/ WriteFinding(p)
    \/ Abandon(p)

RaceNext == \E p \in open : Step(p) /\ UNCHANGED open

RaceSpec == RaceInit /\ [][RaceNext]_rvars

-----------------------------------------------------------------------------
(***************************************************************************)
(* Properties.                                                             *)
(***************************************************************************)
ReadRow ==
    [state : States, candidate : Candidate \cup {None}, producer : Actor \cup {None},
     completed : Candidate \cup {None}]

PendingTransition ==
    [op : {"transition"}, wp : WP, to : States, actor : Actor \cup {None},
     candidate : Candidate \cup {None}, row : ReadRow, asked : Nat,
     seen : [Kinds -> Actor \cup {None}]]

Pending ==
    {NoCall} \cup PendingTransition
    \cup [op : {"review"}, wp : WP, record : Evidence]
    \cup [op : {"finding"}, wp : WP, record : Finding]

CallTypeOK ==
    /\ TypeOK
    /\ call \in [Process -> Pending]
    /\ \A p \in Process :
         call[p].op = "transition" => call[p].asked <= Len(Queries(call[p].to))

\* Every row holds a value its column can hold, and every call what it can have read.
RaceTypeOK == CallTypeOK /\ open \in SUBSET Process

\* store.py:363: what a process does that has the store open alone is what it does in
\* Store, its checks and its write in one, although it reads outside the transaction that
\* writes.
AloneIsAtomic == [][\A p \in Process : open = {p} => Next]_vars

\* store.py:28 "Anything not in this map is not a reachable transition", and the map has
\* no state after ACCEPTED: what was accepted once is accepted.  Two processes do not
\* keep it.
AcceptedIsFinal == \A w \in WP : accepted[w] # None => state[w] = "ACCEPTED"
=============================================================================
