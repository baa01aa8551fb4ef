-------------------------- MODULE StoreRaceProofs --------------------------
(***************************************************************************)
(* What the store guarantees when any number of processes read and write   *)
(* it in separate steps, and that a single process loses nothing by it.    *)
(***************************************************************************)
EXTENDS StoreRace, StoreProofs, WellFoundedInduction

(***************************************************************************)
(* A row as a claim.  What a row claims is about evidence, and evidence    *)
(* only grows: a row that was sound when it was read is sound for ever.    *)
(***************************************************************************)
Recorded(w) == {evidence[w][i] : i \in DOMAIN evidence[w]}

Answered(w, k, c, a) ==
    [kind |-> k, candidate |-> c, actor |-> a, verdict |-> "PASS"] \in Recorded(w)

\* Completion of candidate c, produced by x.
Reviewed(w, x, c) ==
    /\ c # None /\ x # None
    /\ \A k \in Kinds \ {"verification"} :
          \E a, b \in Actor \ {x} :
              a # b /\ Answered(w, k, c, a) /\ Answered(w, "verification", c, b)

Verified(w, x, c) == c # None /\ \E a \in Actor \ {x} : Answered(w, "verification", c, a)

Sound(w, row) ==
    /\ row.state \in UnderWay => row.producer # None
    /\ row.state \in Complete => Reviewed(w, row.producer, row.completed)

\* What a pending transition has established of the claim it is going to write.
Established(m) ==
    /\ m.row.state \in States /\ m.to \in Transitions[m.row.state]
    /\ m.to = "EXECUTING" => m.actor \in Actor
    /\ Sound(m.wp, m.row)
    /\ m.to \in {"TECH_COMPLETE", "ACCEPTED"} => m.candidate # None
    /\ m.to = "TECH_COMPLETE" =>
         \A i \in 2..m.asked :
            LET k == Queries("TECH_COMPLETE")[i]
            IN  /\ m.seen[k] \in Actor \ {m.row.producer}
                /\ Answered(m.wp, k, m.candidate, m.seen[k])
    /\ m.to = "ACCEPTED" /\ m.asked > 0 => Verified(m.wp, m.row.producer, m.candidate)

RowsSound == \A w \in WP : Sound(w, Row(w))

AcceptedSound == \A w \in WP : state[w] = "ACCEPTED" => Verified(w, producer[w], accepted[w])

CallsSound == \A p \in Process : call[p].op = "transition" => Established(call[p])

RaceInv == CallTypeOK /\ RowsSound /\ AcceptedSound /\ CallsSound

-----------------------------------------------------------------------------
\* A set of numbers that is not empty has a least member.
LEMMA LeastNumber ==
    ASSUME NEW S \in SUBSET Nat, S # {}
    PROVE  \E x \in S : \A y \in S : x <= y
<1> DEFINE R == {ss \in Nat \X Nat : ss[1] < ss[2]}
<1>1. IsWellFoundedOn(R, Nat)
  BY NatLessThanWellFounded DEF OpToRel
<1>2. \A x, y \in Nat : <<x, y>> \in R <=> x < y
  OBVIOUS
<1> HIDE DEF R
<1>3. PICK x \in S : \A y \in S : ~(<<y, x>> \in R)
  BY <1>1, WFMin
<1>4. ASSUME NEW y \in S PROVE x <= y
  <2>1. ~(y < x)  BY <1>2, <1>3
  <2> QED BY <2>1
<1> QED BY <1>4

(***************************************************************************)
(* Records.                                                                *)
(***************************************************************************)
\* A PASS that a query finds is a recorded answer.
LEMMA PassIsAnswer ==
    ASSUME TypeOK, NEW w \in WP, NEW k \in Kinds, NEW c \in Candidate,
           NEW i \in Passing(w, c, k)
    PROVE  /\ i \in DOMAIN evidence[w] /\ evidence[w][i].actor \in Actor
           /\ Answered(w, k, c, evidence[w][i].actor)
<1>1. evidence[w] \in Seq(Evidence) /\ i \in DOMAIN evidence[w]
  BY DEF TypeOK, Passing, Records
<1>2. evidence[w][i] \in Evidence
  BY <1>1
<1>3. /\ evidence[w][i].kind = k /\ evidence[w][i].verdict = "PASS"
      /\ evidence[w][i].candidate = c
  BY NoneAssumption DEF Passing, Records
<1>4. evidence[w][i] = [kind |-> k, candidate |-> c, actor |-> evidence[w][i].actor,
                        verdict |-> "PASS"]
  BY <1>2, <1>3 DEF Evidence
<1> QED BY <1>1, <1>2, <1>4 DEF Answered, Recorded, Evidence

\* A recorded answer is a PASS that a query finds.
LEMMA AnswerIsPass ==
    ASSUME NEW w \in WP, NEW k, NEW c, NEW a, Answered(w, k, c, a)
    PROVE  \E i \in DOMAIN evidence[w] : i \in Passing(w, c, k) /\ evidence[w][i].actor = a
<1>1. PICK i \in DOMAIN evidence[w] :
         evidence[w][i] = [kind |-> k, candidate |-> c, actor |-> a, verdict |-> "PASS"]
  BY DEF Answered, Recorded
<1> QED BY <1>1 DEF Passing, Records

\* The claims of Store, in terms of records.
LEMMA ReviewedIs ==
    ASSUME NEW w \in WP, NEW c, Reviewed(w, producer[w], c)
    PROVE  IndependentlyReviewed(w, c)
<1> SUFFICES ASSUME NEW k \in Kinds \ {"verification"}
             PROVE  \E i \in DOMAIN evidence[w], j \in DOMAIN evidence[w] :
                        /\ IndependentPass(w, k, c, i)
                        /\ IndependentPass(w, "verification", c, j)
                        /\ evidence[w][i].actor # evidence[w][j].actor
  BY DEF Reviewed, IndependentlyReviewed
<1>1. PICK a, b \in Actor \ {producer[w]} :
         a # b /\ Answered(w, k, c, a) /\ Answered(w, "verification", c, b)
  BY DEF Reviewed
<1>2. PICK i \in DOMAIN evidence[w] : i \in Passing(w, c, k) /\ evidence[w][i].actor = a
  BY <1>1, AnswerIsPass
<1>3. PICK j \in DOMAIN evidence[w] :
         j \in Passing(w, c, "verification") /\ evidence[w][j].actor = b
  BY <1>1, AnswerIsPass
<1> QED BY <1>1, <1>2, <1>3 DEF IndependentPass

\* Evidence only grows.
Grown == \A w \in WP : Recorded(w) \subseteq Recorded(w)'

LEMMA EvidenceGrows ==
    ASSUME TypeOK, NEW w \in WP, NEW e, AddEvidence(w, e)
    PROVE  Grown
<1> SUFFICES ASSUME NEW v \in WP, NEW i \in DOMAIN evidence[v]
             PROVE  i \in DOMAIN evidence'[v] /\ evidence'[v][i] = evidence[v][i]
  BY DEF Grown, Recorded
<1>1. evidence[v] \in Seq(Evidence)  BY DEF TypeOK
<1>2. evidence'[v] = IF v = w THEN Append(evidence[v], e) ELSE evidence[v]
  BY DEF AddEvidence, TypeOK
<1> QED BY <1>1, <1>2

LEMMA EvidenceSame == ASSUME UNCHANGED evidence PROVE Grown
BY DEF Grown, Recorded

\* What is true of records stays true.
LEMMA ClaimsStand ==
    ASSUME Grown, NEW w \in WP
    PROVE  /\ \A k, c, a : Answered(w, k, c, a) => Answered(w, k, c, a)'
           /\ \A x, c : Reviewed(w, x, c) => Reviewed(w, x, c)'
           /\ \A x, c : Verified(w, x, c) => Verified(w, x, c)'
           /\ \A row : Sound(w, row) => Sound(w, row)'
<1>1. ASSUME NEW k, NEW c, NEW a, Answered(w, k, c, a) PROVE Answered(w, k, c, a)'
  BY <1>1 DEF Grown, Answered
<1>2. ASSUME NEW x, NEW c, Reviewed(w, x, c) PROVE Reviewed(w, x, c)'
  BY <1>1, <1>2 DEF Reviewed
<1>3. ASSUME NEW x, NEW c, Verified(w, x, c) PROVE Verified(w, x, c)'
  BY <1>1, <1>3 DEF Verified
<1>4. ASSUME NEW row, Sound(w, row) PROVE Sound(w, row)'
  BY <1>2, <1>4 DEF Sound
<1> QED BY <1>1, <1>2, <1>3, <1>4

LEMMA EstablishedStands ==
    ASSUME Grown, NEW m, m.wp \in WP, Established(m)
    PROVE  Established(m)'
BY ClaimsStand DEF Established

(***************************************************************************)
(* Types.                                                                  *)
(***************************************************************************)
LEMMA QueriesAre ==
    /\ \A to : Len(Queries(to)) \in Nat
    /\ Len(Queries("READY")) = 1 /\ Queries("READY")[1] = "dependencies"
    /\ \A to \in {"CODE_REVIEW", "VERIFYING"} :
          Len(Queries(to)) = 1 /\ Queries(to)[1] = "stage"
    /\ Len(Queries("TECH_COMPLETE")) = 4
    /\ Queries("TECH_COMPLETE")[1] = "stage"
    /\ Queries("TECH_COMPLETE")[2] = "specification_compliance"
    /\ Queries("TECH_COMPLETE")[3] = "code_quality"
    /\ Queries("TECH_COMPLETE")[4] = "verification"
    /\ Len(Queries("ACCEPTED")) = 2
    /\ Queries("ACCEPTED")[1] = "acceptance" /\ Queries("ACCEPTED")[2] = "findings"
BY DEF Queries, StagePrerequisite

\* The last of the passing answers, of which there is one.
LEMMA LastPass ==
    ASSUME TypeOK, NEW w \in WP, NEW k \in Kinds, NEW c, Passing(w, c, k) # {}
    PROVE  /\ Latest(Passing(w, c, k)) # {}
           /\ \A i \in Latest(Passing(w, c, k)) :
                 i = CHOOSE j \in Latest(Passing(w, c, k)) : TRUE
           /\ Latest(Passing(w, c, k)) \subseteq Passing(w, c, k)
<1> DEFINE S == Passing(w, c, k)
           T == {n \in Nat : \A i \in S : i <= n}
<1>1. S \subseteq 1..Len(evidence[w]) /\ Len(evidence[w]) \in Nat
  BY DEF TypeOK, Passing, Records
<1>2. Len(evidence[w]) \in T
  BY <1>1
<1>3. PICK n \in T : \A m \in T : n <= m
  BY <1>2, LeastNumber
<1>4. n \in S
  <2> SUFFICES ASSUME n \notin S PROVE FALSE
    OBVIOUS
  <2>1. \A i \in S : i \in Nat /\ i < n
    BY <1>1, <1>3
  <2>2. n > 0 /\ n - 1 \in Nat /\ \A i \in S : i <= n - 1
    <3>1. PICK i \in S : TRUE  OBVIOUS
    <3> HIDE DEF S
    <3> QED BY <1>3, <2>1, <3>1
  <2>3. n - 1 \in T  BY <2>2
  <2> HIDE DEF T, S
  <2>4. n \in Nat  BY DEF T
  <2> QED BY <1>3, <2>3, <2>4
<1>5. n \in Latest(S)
  BY <1>3, <1>4 DEF Latest
<1>6. \A i, j \in Latest(S) : i = j
  BY <1>1 DEF Latest
<1> HIDE DEF S
<1> QED BY <1>5, <1>6 DEF Latest, S

LEMMA LastActorIs ==
    ASSUME TypeOK, NEW m, m.wp \in WP, m.candidate \in Candidate, NEW k \in Kinds,
           Satisfied(m, k)
    PROVE  /\ LastActor(m, k) \in Actor \ {m.row.producer}
           /\ Answered(m.wp, k, m.candidate, LastActor(m, k))
<1> DEFINE i == CHOOSE j \in Latest(Passing(m.wp, m.candidate, k)) : TRUE
<1>1. /\ Passing(m.wp, m.candidate, k) # {}
      /\ \A j \in Passing(m.wp, m.candidate, k) : evidence[m.wp][j].actor # m.row.producer
  BY DEF Satisfied, Kinds
<1>2. i \in Passing(m.wp, m.candidate, k)
  BY <1>1, LastPass
<1>3. LastActor(m, k) = evidence[m.wp][i].actor
  BY DEF LastActor
<1> HIDE DEF i
<1> QED BY <1>1, <1>2, <1>3, PassIsAnswer

LEMMA PendingIs ==
    ASSUME CallTypeOK, NEW p \in Process
    PROVE  /\ call[p].op = "transition" => call[p] \in PendingTransition
           /\ call[p].op = "review" =>
                call[p].wp \in WP /\ call[p].record \in Evidence
           /\ call[p].op = "finding" =>
                call[p].wp \in WP /\ call[p].record \in Finding
<1>1. call[p] \in Pending  BY DEF CallTypeOK
<1> QED BY <1>1 DEF Pending, PendingTransition, NoCall

LEMMA RowType ==
    ASSUME TypeOK, NEW w \in WP, Known(w)
    PROVE  Row(w) \in ReadRow
BY DEF TypeOK, Known, Row, ReadRow

\* A step that changes one call changes no other.
LEMMA CallTyped ==
    ASSUME CallTypeOK, TypeOK', NEW p \in Process, NEW m \in Pending,
           call' = [call EXCEPT ![p] = m],
           m.op = "transition" => m.asked <= Len(Queries(m.to))
    PROVE  CallTypeOK'
<1>1. call' \in [Process -> Pending]  BY DEF CallTypeOK
<1>2. \A q \in Process : call'[q] = IF q = p THEN m ELSE call[q]  BY DEF CallTypeOK
<1> QED BY <1>1, <1>2 DEF CallTypeOK

LEMMA NoCallIs == NoCall \in Pending /\ NoCall.op = "none"
BY DEF Pending, NoCall

-----------------------------------------------------------------------------
(***************************************************************************)
(* The invariant.                                                          *)
(***************************************************************************)
LEMMA RaceInvInit == RaceInit => RaceInv
<1> SUFFICES ASSUME RaceInit PROVE RaceInv
  OBVIOUS
<1>1. TypeOK /\ IInv  BY TypeOKInit, IInvInit DEF RaceInit
<1>2. \A p \in Process : call[p] = NoCall  BY DEF RaceInit
<1>3. call \in [Process -> Pending]  BY <1>2, NoCallIs DEF RaceInit
<1>4. CallTypeOK /\ CallsSound
  BY <1>1, <1>2, <1>3, NoCallIs DEF CallTypeOK, CallsSound
<1>5. \A w \in WP : state[w] = "ABSENT" /\ Row(w).state = "ABSENT"
  BY DEF RaceInit, Init, Absent, Row
<1>6. RowsSound /\ AcceptedSound
  BY <1>5 DEF RowsSound, AcceptedSound, Sound, UnderWay, Complete
<1> QED BY <1>4, <1>6 DEF RaceInv

\* The rows that claim nothing more than before, and calls that establish what they say.
LEMMA InvKept ==
    ASSUME RaceInv, CallTypeOK', Grown,
           \A w \in WP : /\ state'[w] \in UnderWay => state'[w] = state[w]
                         /\ producer'[w] = producer[w]
                         /\ completed'[w] = completed[w]
                         /\ accepted'[w] = accepted[w],
           \A p \in Process : call'[p].op = "transition" =>
               \/ call'[p] = call[p]
               \/ call'[p].wp \in WP /\ Established(call'[p])
    PROVE  RaceInv'
<1>1. RowsSound'
  <2> SUFFICES ASSUME NEW w \in WP PROVE Sound(w, Row(w))'
    BY DEF RowsSound
  <2>1. Sound(w, Row(w))  BY DEF RaceInv, RowsSound
  <2>2. /\ state[w] \in UnderWay => producer[w] # None
        /\ state[w] \in Complete => Reviewed(w, producer[w], completed[w])
    BY <2>1 DEF Sound, Row
  <2>3. state[w] \in Complete => Reviewed(w, producer[w], completed[w])'
    BY <2>2, ClaimsStand DEF Reviewed
  <2>4. state'[w] \in Complete => state'[w] \in UnderWay  BY DEF UnderWay
  <2>5. /\ state'[w] \in UnderWay => producer'[w] # None
        /\ state'[w] \in Complete => Reviewed(w, producer[w], completed[w])'
    BY <2>2, <2>3, <2>4
  <2> QED BY <2>5 DEF Sound, Row
<1>2. AcceptedSound'
  <2> SUFFICES ASSUME NEW w \in WP, state'[w] = "ACCEPTED"
               PROVE  Verified(w, producer[w], accepted[w])'
    BY DEF AcceptedSound
  <2>1. state[w] = "ACCEPTED"  BY DEF UnderWay, Complete
  <2>2. Verified(w, producer[w], accepted[w])  BY <2>1 DEF RaceInv, AcceptedSound
  <2> QED BY <2>2, ClaimsStand DEF Verified
<1>3. CallsSound'
  <2> SUFFICES ASSUME NEW p \in Process, call'[p].op = "transition"
               PROVE  Established(call[p])'
    BY DEF CallsSound
  <2>1. call'[p] = call[p] \/ (call'[p].wp \in WP /\ Established(call'[p]))
    OBVIOUS
  <2>2. ASSUME call'[p] = call[p] PROVE call'[p].wp \in WP /\ Established(call'[p])
    BY <2>2, PendingIs DEF RaceInv, CallsSound, PendingTransition
  <2>3. call'[p].wp \in WP /\ Established(call'[p])  BY <2>1, <2>2
  <2> DEFINE m == call'[p]
  <2>4. m.wp \in WP /\ Established(m)  BY <2>3
  <2> QED BY <2>4, ClaimsStand DEF Established
<1> QED BY <1>1, <1>2, <1>3 DEF RaceInv

\* A call of one step.
LEMMA AtOnceStep ==
    ASSUME RaceInv, NEW w \in WP, AtOnce(w), UNCHANGED call
    PROVE  RaceInv'
<1>1. TypeOK  BY DEF RaceInv, CallTypeOK
<1>2. Call(w)
  <2>1. ASSUME NEW c \in Candidate, NEW v \in {"PASS", "FAIL"}, NEW k \in Kinds,
               NEW a \in Attestor,
               AddEvidence(w, [kind |-> k, candidate |-> c, actor |-> a, verdict |-> v])
        PROVE  Call(w)
    <3>1. [kind |-> k, candidate |-> c, actor |-> a, verdict |-> v] \in Evidence
      BY CallerAssumption DEF Evidence
    <3> QED BY <2>1, <3>1 DEF Call
  <2> QED BY <2>1 DEF AtOnce, Call
<1>3. TypeOK'  BY <1>1, <1>2, TypeOKCall
<1>4. CallTypeOK'  BY <1>3 DEF RaceInv, CallTypeOK
<1>5. Grown
  <2>1. ASSUME NEW e, AddEvidence(w, e) PROVE Grown
    BY <1>1, <2>1, EvidenceGrows
  <2>2. CASE UNCHANGED evidence
    BY <2>2, EvidenceSame
  <2> QED BY <2>1, <2>2 DEF AtOnce, Register, SetCandidate, SupersedeFindings, AddFinding
<1>6. ASSUME NEW v \in WP
      PROVE  /\ state'[v] \in UnderWay => state'[v] = state[v]
             /\ producer'[v] = producer[v]
             /\ completed'[v] = completed[v]
             /\ accepted'[v] = accepted[v]
  <2>1. "DISCOVERED" \notin UnderWay  BY DEF UnderWay, Complete
  <2>2. ASSUME NEW ds \in Catalogue[w], Register(w, ds)
        PROVE  state'[v] \in UnderWay => state'[v] = state[v]
    BY <1>1, <2>1, <2>2 DEF Register, TypeOK
  <2>3. UNCHANGED state \/ \E ds \in Catalogue[w] : Register(w, ds)
    BY DEF AtOnce, SetCandidate, SupersedeFindings, AddFinding, AddEvidence, rows
  <2>4. UNCHANGED <<producer, completed, accepted>>
    BY DEF AtOnce, Register, SetCandidate, SupersedeFindings, AddFinding, AddEvidence, rows
  <2> QED BY <2>2, <2>3, <2>4
<1> QED BY <1>4, <1>5, <1>6, InvKept

\* A step that only a call takes part in.
LEMMA CallStep ==
    ASSUME RaceInv, UNCHANGED vars, NEW p \in Process, NEW m \in Pending,
           call' = [call EXCEPT ![p] = m],
           m.op = "transition" => m.asked <= Len(Queries(m.to)) /\ Established(m)
    PROVE  RaceInv'
<1>1. TypeOK'  BY DEF RaceInv, CallTypeOK, TypeOK, vars
<1>2. CallTypeOK'  BY <1>1, CallTyped DEF RaceInv
<1>3. Grown  BY EvidenceSame DEF vars
<1>4. \A q \in Process : call'[q] = IF q = p THEN m ELSE call[q]
  BY DEF RaceInv, CallTypeOK
<1>5. m.op = "transition" => m.wp \in WP
  BY DEF Pending, NoCall, PendingTransition
<1> HIDE DEF Established
<1> QED BY <1>2, <1>3, <1>4, <1>5, InvKept DEF vars

LEMMA AbandonStep == ASSUME RaceInv, NEW p \in Process, Abandon(p) PROVE RaceInv'
BY CallStep, NoCallIs DEF Abandon, Close

LEMMA BeginStep ==
    ASSUME RaceInv, NEW p \in Process, NEW w \in WP, Begin(p, w)
    PROVE  RaceInv'
<1>1. TypeOK  BY DEF RaceInv, CallTypeOK
<1>2. ASSUME NEW to \in States, NEW a \in Signatory(to), NEW c \in Candidate \cup {None},
             BeginTransition(p, w, to, a, c)
      PROVE  RaceInv'
  <2> DEFINE m == [op |-> "transition", wp |-> w, to |-> to, actor |-> a,
                   candidate |-> Effective(w, c), row |-> Row(w), asked |-> 0,
                   seen |-> [k \in Kinds |-> None]]
  <2>1. Known(w) /\ state[w] \in States /\ to \in Transitions[state[w]]
    BY <1>1, <1>2, PermittedFrom DEF BeginTransition, Permitted
  <2>2. a \in Actor \cup {None} /\ (to = "EXECUTING" => a \in Actor)
    BY CallerAssumption DEF Signatory
  <2>3. Effective(w, c) \in Candidate \cup {None}  BY <1>1, EffectiveType
  <2>4. Row(w) \in ReadRow  BY <1>1, <2>1, RowType
  <2>5. m \in PendingTransition
    BY <2>2, <2>3, <2>4 DEF PendingTransition
  <2>6. m.asked <= Len(Queries(m.to))
    BY QueriesAre
  <2>7. Established(m)
    <3>1. Sound(w, Row(w))  BY DEF RaceInv, RowsSound
    <3>2. to \in {"TECH_COMPLETE", "ACCEPTED"} => Effective(w, c) # None
      BY <1>2 DEF BeginTransition
    <3>3. Row(w).state = state[w]  BY DEF Row
    <3>4. 2..m.asked = {} /\ ~(m.asked > 0)  OBVIOUS
    <3> QED BY <2>1, <2>2, <3>1, <3>2, <3>3, <3>4 DEF Established
  <2>8. call' = [call EXCEPT ![p] = m] /\ UNCHANGED vars
    BY <1>2 DEF BeginTransition
  <2>9. m \in Pending  BY <2>5 DEF Pending
  <2> HIDE DEF m
  <2> QED BY <2>6, <2>7, <2>8, <2>9, CallStep
<1>3. ASSUME NEW c \in Candidate, NEW v \in {"PASS", "FAIL"}, NEW k \in Kinds,
             NEW a \in Reviewer[k], BeginReview(p, w, k, c, a, v)
      PROVE  RaceInv'
  <2> DEFINE m == [op |-> "review", wp |-> w,
                   record |-> [kind |-> k, candidate |-> c, actor |-> a, verdict |-> v]]
  <2>1. m \in Pending /\ m.op # "transition"
    BY CallerAssumption DEF Pending, Evidence
  <2>2. call' = [call EXCEPT ![p] = m] /\ UNCHANGED vars
    BY <1>3 DEF BeginReview
  <2> HIDE DEF m
  <2> QED BY <2>1, <2>2, CallStep
<1>4. ASSUME NEW s \in Severity, BeginFinding(p, w, s) PROVE RaceInv'
  <2> DEFINE m == [op |-> "finding", wp |-> w,
                   record |-> [severity |-> s, candidate |-> candidate[w],
                               status |-> "OPEN"]]
  <2>1. m \in Pending /\ m.op # "transition"
    BY <1>1 DEF Pending, Finding, TypeOK
  <2>2. call' = [call EXCEPT ![p] = m] /\ UNCHANGED vars
    BY <1>4 DEF BeginFinding
  <2> HIDE DEF m
  <2> QED BY <2>1, <2>2, CallStep
<1> QED BY <1>2, <1>3, <1>4 DEF Begin

LEMMA AskedType ==
    ASSUME NEW m \in PendingTransition, NEW seen \in [Kinds -> Actor \cup {None}]
    PROVE  [m EXCEPT !.asked = m.asked + 1, !.seen = seen] \in PendingTransition
<1> DEFINE n == [m EXCEPT !.asked = m.asked + 1]
<1>1. m.asked + 1 \in Nat  BY DEF PendingTransition
<1>2. n \in PendingTransition
  BY <1>1 DEF PendingTransition
<1> HIDE DEF n
<1>3. [n EXCEPT !.seen = seen] \in PendingTransition
  BY <1>2 DEF PendingTransition
<1> QED BY <1>3 DEF n

\* One more query: what it found is established.
LEMMA AskStep == ASSUME RaceInv, NEW p \in Process, Ask(p) PROVE RaceInv'
<1> DEFINE m == call[p]
           query == Queries(m.to)[m.asked + 1]
           seen == [k \in Kinds |-> IF k = query THEN LastActor(m, k) ELSE m.seen[k]]
           n == [m EXCEPT !.asked = m.asked + 1, !.seen = seen]
<1>1. /\ m.op = "transition" /\ m.asked < Len(Queries(m.to)) /\ Satisfied(m, query)
      /\ call' = [call EXCEPT ![p] = n] /\ UNCHANGED vars
  BY DEF Ask
<1>2. TypeOK /\ m \in PendingTransition /\ Established(m)
  BY <1>1, PendingIs DEF RaceInv, CallTypeOK, CallsSound
<1>3. /\ m.wp \in WP /\ m.asked \in Nat /\ m.candidate \in Candidate \cup {None}
      /\ m.to \in States /\ m.row \in ReadRow /\ m.actor \in Actor \cup {None}
      /\ m.seen \in [Kinds -> Actor \cup {None}]
  BY <1>2 DEF PendingTransition
<1>4. /\ n.op = "transition" /\ n.wp = m.wp /\ n.to = m.to /\ n.actor = m.actor
      /\ n.candidate = m.candidate /\ n.row = m.row /\ n.asked = m.asked + 1
      /\ n.seen = seen
  BY <1>2 DEF PendingTransition
<1>5. \A k \in Kinds : k = query => /\ m.candidate \in Candidate => seen[k] \in Actor \ {m.row.producer}
                                    /\ m.candidate \in Candidate => Answered(m.wp, k, m.candidate, seen[k])
                                    /\ seen[k] = LastActor(m, k)
  <2> SUFFICES ASSUME NEW k \in Kinds, k = query
               PROVE  /\ m.candidate \in Candidate => seen[k] \in Actor \ {m.row.producer}
                      /\ m.candidate \in Candidate => Answered(m.wp, k, m.candidate, seen[k])
                      /\ seen[k] = LastActor(m, k)
    OBVIOUS
  <2>1. seen[k] = LastActor(m, k)  OBVIOUS
  <2>2. Satisfied(m, k)  BY <1>1
  <2> HIDE DEF seen, m
  <2> QED BY <1>2, <1>3, <2>1, <2>2, LastActorIs
<1>6. query \in Kinds => m.to = "TECH_COMPLETE"
  <2>1. m.asked + 1 \in 1..Len(Queries(m.to))  BY <1>1, <1>3, QueriesAre
  <2> HIDE DEF m
  <2> QED BY <1>3, <2>1, QueriesAre DEF Kinds, Queries, StagePrerequisite
<1>7. m.to = "TECH_COMPLETE" => m.candidate \in Candidate
  BY <1>2, <1>3 DEF Established
<1>8. seen \in [Kinds -> Actor \cup {None}]
  BY <1>3, <1>5, <1>6, <1>7
<1>9. n \in Pending
  <2> HIDE DEF m, seen
  <2> QED BY <1>2, <1>8, AskedType DEF Pending
<1>10. n.asked <= Len(Queries(n.to))
  BY <1>1, <1>3, <1>4, QueriesAre
<1>11. m.to = "TECH_COMPLETE" =>
          \A i \in 2..(m.asked + 1) :
            LET k == Queries("TECH_COMPLETE")[i]
            IN  /\ seen[k] \in Actor \ {m.row.producer}
                /\ Answered(m.wp, k, m.candidate, seen[k])
  <2> SUFFICES ASSUME m.to = "TECH_COMPLETE", NEW i \in 2..(m.asked + 1)
               PROVE  LET k == Queries("TECH_COMPLETE")[i]
                      IN  /\ seen[k] \in Actor \ {m.row.producer}
                          /\ Answered(m.wp, k, m.candidate, seen[k])
    OBVIOUS
  <2> DEFINE k == Queries("TECH_COMPLETE")[i]
  <2>1. m.asked + 1 <= 4  BY <1>1, <1>3, QueriesAre
  <2>2. i \in 2..4 /\ k \in Kinds  BY <1>3, <2>1, QueriesAre DEF Kinds
  <2>3. CASE i = m.asked + 1
    <3>1. k = query  BY <2>3
    <3> HIDE DEF seen, query, k
    <3> QED BY <1>5, <1>7, <2>2, <3>1 DEF k
  <2>4. CASE i # m.asked + 1
    <3>1. i \in 2..m.asked  BY <1>3, <2>4
    <3>2. m.seen[k] \in Actor \ {m.row.producer} /\ Answered(m.wp, k, m.candidate, m.seen[k])
      BY <1>2, <3>1 DEF Established
    <3>3. k # query
      <4>1. m.asked + 1 \in 2..4 /\ i \in 2..4 /\ i # m.asked + 1
        BY <1>3, <2>1, <2>4, <3>1
      <4> DEFINE j == m.asked + 1
      <4>2. j \in {2, 3, 4} /\ i \in {2, 3, 4} /\ i # j  BY <4>1
      <4>3. query = Queries("TECH_COMPLETE")[j]  OBVIOUS
      <4> HIDE DEF j, query
      <4> QED BY <4>2, <4>3, QueriesAre
    <3>4. seen[k] = m.seen[k]  BY <2>2, <3>3
    <3> QED BY <3>2, <3>4
  <2> QED BY <2>3, <2>4
<1>12. m.to = "ACCEPTED" => Verified(m.wp, m.row.producer, m.candidate)
  <2> SUFFICES ASSUME m.to = "ACCEPTED" PROVE Verified(m.wp, m.row.producer, m.candidate)
    OBVIOUS
  <2>1. m.candidate # None /\ m.candidate \in Candidate  BY <1>2, <1>3 DEF Established
  <2>2. CASE m.asked = 0
    <3>1. Satisfied(m, "acceptance")  BY <1>1, <2>2, QueriesAre
    <3>2. /\ Passing(m.wp, m.candidate, "verification") # {}
          /\ \A i \in Records(m.wp, m.candidate, "verification") :
                evidence[m.wp][i].actor # m.row.producer
      BY <3>1 DEF Satisfied, Kinds
    <3>3. PICK i \in Passing(m.wp, m.candidate, "verification") : TRUE
      BY <3>2
    <3>4. i \in Records(m.wp, m.candidate, "verification")
      BY DEF Passing
    <3>5. "verification" \in Kinds  BY DEF Kinds
    <3>6. /\ evidence[m.wp][i].actor \in Actor
          /\ Answered(m.wp, "verification", m.candidate, evidence[m.wp][i].actor)
      BY <1>2, <1>3, <2>1, <3>5, PassIsAnswer
    <3> QED BY <2>1, <3>2, <3>4, <3>6 DEF Verified
  <2>3. CASE m.asked # 0
    BY <1>2, <1>3, <2>3 DEF Established
  <2> QED BY <2>2, <2>3
<1>13. Established(n)
  <2> HIDE DEF n, m, query, seen
  <2> QED BY <1>2, <1>4, <1>11, <1>12 DEF Established
<1> HIDE DEF n
<1> QED BY <1>1, <1>9, <1>10, <1>13, CallStep

LEMMA WriteReviewStep == ASSUME RaceInv, NEW p \in Process, WriteReview(p) PROVE RaceInv'
<1> DEFINE m == call[p]
<1>1. TypeOK /\ m.wp \in WP /\ m.record \in Evidence
  BY PendingIs DEF RaceInv, CallTypeOK, WriteReview
<1>2. AddEvidence(m.wp, m.record) /\ call' = [call EXCEPT ![p] = NoCall]
  BY DEF WriteReview, Close
<1>3. TypeOK'  BY <1>1, <1>2, TypeOKCall DEF Call
<1>4. CallTypeOK'  BY <1>2, <1>3, NoCallIs, CallTyped DEF RaceInv
<1>5. Grown  BY <1>1, <1>2, EvidenceGrows
<1>6. \A q \in Process : call'[q] = call[q] \/ call'[q] = NoCall
  BY <1>2 DEF RaceInv, CallTypeOK
<1>7. UNCHANGED rows  BY <1>2 DEF AddEvidence
<1> QED BY <1>4, <1>5, <1>6, <1>7, NoCallIs, InvKept DEF rows

LEMMA WriteFindingStep == ASSUME RaceInv, NEW p \in Process, WriteFinding(p) PROVE RaceInv'
<1> DEFINE m == call[p]
<1>1. TypeOK /\ m.wp \in WP /\ m.record \in Finding
  BY PendingIs DEF RaceInv, CallTypeOK, WriteFinding
<1>2. /\ findings' = [findings EXCEPT ![m.wp] = @ \cup {m.record}]
      /\ call' = [call EXCEPT ![p] = NoCall] /\ UNCHANGED <<rows, deps, evidence>>
  BY DEF WriteFinding, Close
<1>3. TypeOK'  BY <1>1, <1>2 DEF TypeOK, rows
<1>4. CallTypeOK'  BY <1>2, <1>3, NoCallIs, CallTyped DEF RaceInv
<1>5. Grown  BY <1>2, EvidenceSame
<1>6. \A q \in Process : call'[q] = call[q] \/ call'[q] = NoCall
  BY <1>2 DEF RaceInv, CallTypeOK
<1> QED BY <1>2, <1>4, <1>5, <1>6, NoCallIs, InvKept DEF rows

\* The UPDATE writes a claim that was sound when its row was read, or that the queries
\* have established; either way it is sound now.
LEMMA WriteTransitionStep ==
    ASSUME RaceInv, NEW p \in Process, WriteTransition(p)
    PROVE  RaceInv'
<1> DEFINE m == call[p]
           w == m.wp
           made == IF m.to = "EXECUTING" THEN m.actor ELSE m.row.producer
           done == IF m.to = "TECH_COMPLETE" THEN m.candidate ELSE m.row.completed
           taken == IF m.to = "ACCEPTED" THEN m.candidate ELSE accepted[w]
<1>1. /\ m.op = "transition" /\ m.asked = Len(Queries(m.to)) /\ Separate(m)
      /\ state' = [state EXCEPT ![w] = m.to]
      /\ candidate' = [candidate EXCEPT ![w] = m.candidate]
      /\ producer' = [producer EXCEPT ![w] = made]
      /\ retries' = [retries EXCEPT ![w] =
                        IF m.to = "RETRY" /\ @ < MaxRetry THEN @ + 1 ELSE @]
      /\ completed' = [completed EXCEPT ![w] = done]
      /\ call' = [call EXCEPT ![p] = NoCall]
      /\ UNCHANGED <<deps, evidence, findings>>
  BY DEF WriteTransition, Close
<1>2. TypeOK /\ m \in PendingTransition /\ Established(m)
  BY <1>1, PendingIs DEF RaceInv, CallTypeOK, CallsSound
<1>3. /\ w \in WP /\ m.to \in States /\ m.candidate \in Candidate \cup {None}
      /\ m.row \in ReadRow /\ m.actor \in Actor \cup {None}
  BY <1>2 DEF PendingTransition
<1>4. accepted' = [accepted EXCEPT ![w] = taken]
  BY <1>2, <1>3 DEF WriteTransition, TypeOK
<1>5. /\ made \in Actor \cup {None} /\ done \in Candidate \cup {None}
      /\ taken \in Candidate \cup {None}
  BY <1>2, <1>3 DEF ReadRow, TypeOK
<1>6. TypeOK'
  <2> HIDE DEF m, made, done, taken
  <2> QED BY <1>1, <1>2, <1>3, <1>4, <1>5 DEF TypeOK, w
<1>7. CallTypeOK'
  BY <1>1, <1>6, NoCallIs, CallTyped DEF RaceInv
<1>8. Grown  BY <1>1, EvidenceSame
<1>9. /\ m.row.state \in States /\ m.to \in Transitions[m.row.state] /\ Sound(w, m.row)
      /\ m.to = "EXECUTING" => m.actor \in Actor
      /\ m.to \in {"TECH_COMPLETE", "ACCEPTED"} => m.candidate # None
  BY <1>2 DEF Established
<1>10. m.to \in UnderWay => made # None
  <2>1. m.to \in UnderWay => m.to = "EXECUTING" \/ m.row.state \in UnderWay
    BY <1>9, Predecessor DEF UnderWay, Complete
  <2> QED BY <1>9, <2>1, NoneAssumption DEF Sound
<1>11. m.to \in Complete => Reviewed(w, made, done)
  <2>1. CASE m.to = "TECH_COMPLETE"
    <3>1. m.row.producer # None /\ made = m.row.producer /\ done = m.candidate
      <4>1. m.row.state = "VERIFYING"  BY <1>9, <2>1, Predecessor
      <4> QED BY <1>9, <2>1, <4>1 DEF Sound, UnderWay
    <3>2. m.asked = 4  BY <1>1, <2>1, QueriesAre
    <3>3. \A i \in 2..4 :
             LET k == Queries("TECH_COMPLETE")[i]
             IN  /\ m.seen[k] \in Actor \ {m.row.producer}
                 /\ Answered(w, k, m.candidate, m.seen[k])
      BY <1>2, <2>1, <3>2 DEF Established
    <3>4. \A k \in Kinds : /\ m.seen[k] \in Actor \ {m.row.producer}
                           /\ Answered(w, k, m.candidate, m.seen[k])
      <4>1. 2 \in 2..4 /\ 3 \in 2..4 /\ 4 \in 2..4  OBVIOUS
      <4> HIDE DEF m, w
      <4> QED BY <3>3, <4>1, QueriesAre DEF Kinds
    <3>5. \A k \in Kinds \ {"verification"} : m.seen[k] # m.seen["verification"]
      BY <1>1, <2>1 DEF Separate
    <3>6. "verification" \in Kinds  BY DEF Kinds
    <3> HIDE DEF m, w, made, done
    <3> QED BY <1>9, <2>1, <3>1, <3>4, <3>5, <3>6 DEF Reviewed
  <2>2. CASE m.to # "TECH_COMPLETE"
    <3>1. m.to \in Complete => m.row.state \in Complete /\ m.to # "EXECUTING"
      BY <1>9, <2>2, Predecessor DEF Complete
    <3> QED BY <1>9, <2>2, <3>1 DEF Sound
  <2> QED BY <2>1, <2>2
<1>12. m.to = "ACCEPTED" => Verified(w, made, taken)
  BY <1>1, <1>2, QueriesAre DEF Established
<1>13. \A v \in WP : /\ v = w => /\ state'[v] = m.to /\ producer'[v] = made
                                 /\ completed'[v] = done /\ accepted'[v] = taken
                     /\ v # w => /\ state'[v] = state[v] /\ producer'[v] = producer[v]
                                 /\ completed'[v] = completed[v] /\ accepted'[v] = accepted[v]
  <2> HIDE DEF m, w, made, done, taken
  <2> QED BY <1>1, <1>2, <1>4 DEF TypeOK
<1>14. PICK x, c, d : x = made /\ c = done /\ d = taken
  OBVIOUS
<1> HIDE DEF made, done, taken
<1>15. RowsSound'
  <2> SUFFICES ASSUME NEW v \in WP
               PROVE  /\ state'[v] \in UnderWay => producer'[v] # None
                      /\ state'[v] \in Complete => Reviewed(v, producer[v], completed[v])'
    BY DEF RowsSound, Sound, Row
  <2>1. CASE v = w
    <3>1. m.to \in Complete => Reviewed(v, x, c)'
      BY <1>8, <1>11, <1>14, <2>1, ClaimsStand
    <3>2. state'[v] \in Complete => Reviewed(v, producer[v], completed[v])'
      BY <1>13, <1>14, <2>1, <3>1 DEF Reviewed
    <3> QED BY <1>10, <1>13, <2>1, <3>2
  <2>2. CASE v # w
    <3>1. /\ state[v] \in UnderWay => producer[v] # None
          /\ state[v] \in Complete => Reviewed(v, producer[v], completed[v])
      BY DEF RaceInv, RowsSound, Sound, Row
    <3>2. state[v] \in Complete => Reviewed(v, producer[v], completed[v])'
      BY <1>8, <1>13, <2>2, <3>1, ClaimsStand DEF Reviewed
    <3> QED BY <1>13, <2>2, <3>1, <3>2
  <2> QED BY <2>1, <2>2
<1>16. AcceptedSound'
  <2> SUFFICES ASSUME NEW v \in WP, state'[v] = "ACCEPTED"
               PROVE  Verified(v, producer[v], accepted[v])'
    BY DEF AcceptedSound
  <2>1. CASE v = w
    <3>1. Verified(v, x, d)
      BY <1>12, <1>13, <1>14, <2>1
    <3>2. Verified(v, x, d)'
      BY <1>8, <3>1, ClaimsStand
    <3> QED BY <1>13, <1>14, <2>1, <3>2 DEF Verified
  <2>2. CASE v # w
    <3>1. Verified(v, producer[v], accepted[v])
      BY <1>13, <2>2 DEF RaceInv, AcceptedSound
    <3> QED BY <1>8, <1>13, <2>2, <3>1, ClaimsStand DEF Verified
  <2> QED BY <2>1, <2>2
<1>17. CallsSound'
  <2> SUFFICES ASSUME NEW q \in Process, call'[q].op = "transition"
               PROVE  Established(call[q])'
    BY DEF CallsSound
  <2>1. call'[q] = call[q]
    BY <1>1, NoCallIs DEF RaceInv, CallTypeOK
  <2>2. call[q].wp \in WP /\ Established(call[q])
    BY <2>1, PendingIs DEF RaceInv, CallsSound, PendingTransition
  <2> DEFINE n == call[q]
  <2>3. n.wp \in WP /\ Established(n)  BY <2>2
  <2> QED BY <1>8, <2>1, <2>3, ClaimsStand DEF Established
<1> QED BY <1>7, <1>15, <1>16, <1>17 DEF RaceInv

LEMMA StepKeeps == ASSUME RaceInv, NEW p \in Process, Step(p) PROVE RaceInv'
BY AtOnceStep, BeginStep, AskStep, WriteTransitionStep, WriteReviewStep, WriteFindingStep,
   AbandonStep DEF Step

OpenInv == open \in SUBSET Process

LEMMA RaceInvStep ==
    RaceInv /\ OpenInv /\ [RaceNext]_rvars => RaceInv' /\ OpenInv'
<1> SUFFICES ASSUME RaceInv, OpenInv, [RaceNext]_rvars PROVE RaceInv' /\ OpenInv'
  OBVIOUS
<1>1. CASE UNCHANGED rvars
  <2>1. UNCHANGED vars /\ UNCHANGED call /\ UNCHANGED open  BY <1>1 DEF rvars
  <2>2. Grown  BY <2>1, EvidenceSame DEF vars
  <2>3. CallTypeOK'  BY <2>1 DEF RaceInv, CallTypeOK, TypeOK, vars
  <2>4. RaceInv'  BY <2>1, <2>2, <2>3, InvKept DEF vars
  <2> QED BY <2>1, <2>4 DEF OpenInv
<1>2. CASE RaceNext
  <2>1. PICK p \in Process : Step(p) /\ UNCHANGED open
    BY <1>2 DEF RaceNext, OpenInv
  <2>2. RaceInv'  BY <2>1, StepKeeps
  <2> QED BY <2>1, <2>2 DEF OpenInv
<1> QED BY <1>1, <1>2

LEMMA RaceInvariant == RaceSpec => [](RaceInv /\ OpenInv)
<1>1. RaceInit => RaceInv /\ OpenInv
  BY RaceInvInit DEF RaceInit, OpenInv
<1> QED BY <1>1, RaceInvStep, PTL DEF RaceSpec

\* Rows and pending calls have their types, whatever the processes do.
THEOREM RaceTypeCorrect == RaceSpec => []RaceTypeOK
<1>1. RaceInv /\ OpenInv => RaceTypeOK  BY DEF RaceInv, OpenInv, RaceTypeOK
<1> QED BY <1>1, RaceInvariant, PTL

\* store.py:363: transition() writes the state together with the candidate and the
\* producer it read, so that a stale write restores a claim that was sound: completion
\* stays independent however many processes write at once.
THEOREM RaceKeepsIndependence == RaceSpec => []CompletionIndependent
<1>1. ASSUME RaceInv, NEW w \in WP, state[w] \in Complete
      PROVE  IndependentlyReviewed(w, completed[w])
  <2>1. Reviewed(w, producer[w], completed[w])
    BY <1>1 DEF RaceInv, RowsSound, Sound, Row
  <2> QED BY <2>1, ReviewedIs
<1>2. RaceInv => CompletionIndependent
  BY <1>1 DEF CompletionIndependent
<1> QED BY <1>2, RaceInvariant, PTL

\* An accepted package has a verification of its candidate by an outsider, whatever
\* other processes wrote between the checks and the write.
THEOREM RaceKeepsVerification == RaceSpec => []AcceptedOnVerified
<1>1. ASSUME RaceInv, NEW w \in WP, state[w] = "ACCEPTED"
      PROVE  /\ accepted[w] # None
             /\ \E i \in DOMAIN evidence[w] :
                   IndependentPass(w, "verification", accepted[w], i)
  <2>1. Verified(w, producer[w], accepted[w])
    BY <1>1 DEF RaceInv, AcceptedSound
  <2>2. PICK a \in Actor \ {producer[w]} : Answered(w, "verification", accepted[w], a)
    BY <2>1 DEF Verified
  <2>3. PICK i \in DOMAIN evidence[w] : /\ i \in Passing(w, accepted[w], "verification")
                                        /\ evidence[w][i].actor = a
    BY <2>2, AnswerIsPass
  <2> QED BY <2>1, <2>2, <2>3 DEF Verified, IndependentPass
<1>2. RaceInv => AcceptedOnVerified
  BY <1>1 DEF AcceptedOnVerified
<1> QED BY <1>2, RaceInvariant, PTL

-----------------------------------------------------------------------------
(***************************************************************************)
(* A process that has the store open alone.  While its call is under way   *)
(* nobody else writes, so the row is still what was read and every answer  *)
(* is still the answer.                                                    *)
(***************************************************************************)
Alone(p) == open = {p}

TransitionHolds(m) ==
    /\ Row(m.wp) = m.row /\ Permitted(m.wp, m.to) /\ m.actor \in Signatory(m.to)
    /\ m.candidate = None => candidate[m.wp] = None
    /\ m.to \in {"TECH_COMPLETE", "ACCEPTED"} => m.candidate # None
    /\ m.to = "ACCEPTED" =>
         candidate[m.wp] \in {None, m.candidate} /\ m.actor # producer[m.wp]
    /\ \A i \in 1..m.asked :
         LET query == Queries(m.to)[i]
         IN  /\ Satisfied(m, query)
             /\ query \in Kinds => m.seen[query] = LastActor(m, query)

ReviewHolds(m) ==
    \E k \in Kinds, c \in Candidate, v \in {"PASS", "FAIL"} : \E a \in Reviewer[k] :
        /\ m.record = [kind |-> k, candidate |-> c, actor |-> a, verdict |-> v]
        /\ ReviewAllowed(m.wp, k, a)

FindingHolds(m) ==
    \E s \in Severity :
        m.record = [severity |-> s, candidate |-> candidate[m.wp], status |-> "OPEN"]

Holds(m) ==
    /\ m.op = "transition" => TransitionHolds(m)
    /\ m.op = "review" => ReviewHolds(m)
    /\ m.op = "finding" => FindingHolds(m)

SoleInv == \A p \in Process : Alone(p) => Holds(call[p])

LEMMA NoCallHolds == Holds(NoCall) /\ Holds(NoCall)'
BY NoCallIs DEF Holds

\* What a call has read holds as long as no row changes.
LEMMA HoldsStill ==
    ASSUME UNCHANGED vars, NEW m, Holds(m)
    PROVE  Holds(m)'
<1>1. UNCHANGED <<state, candidate, producer, deps, evidence, findings, completed>>
  BY DEF vars
<1>2. \A w, c, k : Passing(w, c, k)' = Passing(w, c, k)
                   /\ Records(w, c, k)' = Records(w, c, k)
  BY <1>1 DEF Passing, Records
<1>3. \A query : Satisfied(m, query)' <=> Satisfied(m, query)
  <2>1. UnmetDependencies(m.wp)' = UnmetDependencies(m.wp)  BY <1>1 DEF UnmetDependencies
  <2>2. OpenBlockingFindings(m.wp)' = OpenBlockingFindings(m.wp)
    BY <1>1 DEF OpenBlockingFindings
  <2> QED BY <1>1, <1>2, <2>1, <2>2 DEF Satisfied
<1>4. \A k : LastActor(m, k)' = LastActor(m, k)
  <2> SUFFICES ASSUME NEW k PROVE LastActor(m, k)' = LastActor(m, k)
    OBVIOUS
  <2>1. Latest(Passing(m.wp, m.candidate, k))' = Latest(Passing(m.wp, m.candidate, k))
    BY <1>2 DEF Latest
  <2> QED BY <1>1, <2>1 DEF LastActor
<1>5. TransitionHolds(m) => TransitionHolds(m)'
  BY <1>1, <1>3, <1>4 DEF TransitionHolds, Row, Permitted, Known
<1>6. (ReviewHolds(m) => ReviewHolds(m)') /\ (FindingHolds(m) => FindingHolds(m)')
  BY <1>1 DEF ReviewHolds, FindingHolds, ReviewAllowed
<1> QED BY <1>5, <1>6 DEF Holds

LEMMA SoleInvInit == RaceInit => SoleInv
BY NoCallHolds DEF RaceInit, SoleInv

LEMMA BeginHolds ==
    ASSUME CallTypeOK, NEW p \in Process, NEW w \in WP, Begin(p, w)
    PROVE  Holds(call'[p]) /\ UNCHANGED vars
<1>1. p \in DOMAIN call  BY DEF CallTypeOK
<1>2. ASSUME NEW to \in States, NEW a \in Signatory(to), NEW c \in Candidate \cup {None},
             BeginTransition(p, w, to, a, c)
      PROVE  Holds(call'[p]) /\ UNCHANGED vars
  <2> DEFINE m == [op |-> "transition", wp |-> w, to |-> to, actor |-> a,
                   candidate |-> Effective(w, c), row |-> Row(w), asked |-> 0,
                   seen |-> [k \in Kinds |-> None]]
  <2>1. call'[p] = m /\ UNCHANGED vars
    BY <1>1, <1>2 DEF BeginTransition
  <2>2. Effective(w, c) = None => candidate[w] = None
    BY DEF Effective
  <2>3. /\ Permitted(w, to)
        /\ to \in {"TECH_COMPLETE", "ACCEPTED"} => Effective(w, c) # None
        /\ to = "ACCEPTED" => candidate[w] \in {None, Effective(w, c)} /\ a # producer[w]
    BY <1>2 DEF BeginTransition
  <2>4. 1..m.asked = {}  OBVIOUS
  <2>5. TransitionHolds(m)
    BY <2>2, <2>3, <2>4 DEF TransitionHolds
  <2> QED BY <2>1, <2>5 DEF Holds
<1>3. ASSUME NEW c \in Candidate, NEW v \in {"PASS", "FAIL"}, NEW k \in Kinds,
             NEW a \in Reviewer[k], BeginReview(p, w, k, c, a, v)
      PROVE  Holds(call'[p]) /\ UNCHANGED vars
  <2> DEFINE m == [op |-> "review", wp |-> w,
                   record |-> [kind |-> k, candidate |-> c, actor |-> a, verdict |-> v]]
  <2>1. call'[p] = m /\ UNCHANGED vars /\ ReviewAllowed(w, k, a)
    BY <1>1, <1>3 DEF BeginReview
  <2>2. ReviewHolds(m)  BY <2>1 DEF ReviewHolds
  <2> QED BY <2>1, <2>2 DEF Holds
<1>4. ASSUME NEW s \in Severity, BeginFinding(p, w, s)
      PROVE  Holds(call'[p]) /\ UNCHANGED vars
  <2> DEFINE m == [op |-> "finding", wp |-> w,
                   record |-> [severity |-> s, candidate |-> candidate[w],
                               status |-> "OPEN"]]
  <2>1. call'[p] = m /\ UNCHANGED vars
    BY <1>1, <1>4 DEF BeginFinding
  <2>2. FindingHolds(m)  BY DEF FindingHolds
  <2> QED BY <2>1, <2>2 DEF Holds
<1> QED BY <1>2, <1>3, <1>4 DEF Begin

LEMMA AskHolds ==
    ASSUME CallTypeOK, NEW p \in Process, Ask(p), Holds(call[p])
    PROVE  Holds(call'[p]) /\ UNCHANGED vars
<1> DEFINE m == call[p]
           query == Queries(m.to)[m.asked + 1]
           seen == [k \in Kinds |-> IF k = query THEN LastActor(m, k) ELSE m.seen[k]]
           n == [m EXCEPT !.asked = m.asked + 1, !.seen = seen]
<1>1. /\ m.op = "transition" /\ m.asked < Len(Queries(m.to)) /\ Satisfied(m, query)
      /\ call'[p] = n /\ UNCHANGED vars
  BY DEF Ask, CallTypeOK
<1>2. m \in PendingTransition /\ TransitionHolds(m)
  BY <1>1, PendingIs DEF Holds
<1>3. m.asked \in Nat /\ m.to \in States  BY <1>2 DEF PendingTransition
<1>4. /\ n.op = "transition" /\ n.wp = m.wp /\ n.to = m.to /\ n.actor = m.actor
      /\ n.candidate = m.candidate /\ n.row = m.row /\ n.asked = m.asked + 1
      /\ n.seen = seen
  BY <1>2 DEF PendingTransition
<1> HIDE DEF n
<1>5. \A other : Satisfied(n, other) <=> Satisfied(m, other)
  BY <1>4 DEF Satisfied
<1>6. \A k : LastActor(n, k) = LastActor(m, k)
  BY <1>4 DEF LastActor
<1>7. ASSUME NEW i \in 1..(m.asked + 1)
      PROVE  LET other == Queries(m.to)[i]
             IN  /\ Satisfied(m, other)
                 /\ other \in Kinds => seen[other] = LastActor(m, other)
  <2> DEFINE other == Queries(m.to)[i]
  <2>1. CASE i = m.asked + 1
    BY <1>1, <2>1
  <2>2. CASE i # m.asked + 1
    <3>1. i \in 1..m.asked  BY <1>3, <2>2
    <3>2. Satisfied(m, other) /\ (other \in Kinds => m.seen[other] = LastActor(m, other))
      BY <1>2, <3>1 DEF TransitionHolds
    <3>3. other \in Kinds => seen[other] = LastActor(m, other)
      BY <3>2
    <3> QED BY <3>2, <3>3
  <2> QED BY <2>1, <2>2
<1>8. TransitionHolds(n)
  <2> HIDE DEF m, seen, query
  <2> QED BY <1>2, <1>4, <1>5, <1>6, <1>7 DEF TransitionHolds
<1> QED BY <1>1, <1>4, <1>8 DEF Holds

\* With all its queries answered, a call may make the transition it asked for.
LEMMA AnsweredIsAllowed ==
    ASSUME TypeOK, NEW m \in PendingTransition, TransitionHolds(m),
           m.asked = Len(Queries(m.to)), Separate(m)
    PROVE  Allowed(m.wp, m.to, m.actor, m.candidate)
<1> DEFINE w == m.wp
           c == m.candidate
<1>1. w \in WP /\ Effective(w, c) = c /\ m.row.producer = producer[w]
  BY DEF PendingTransition, TransitionHolds, Effective, Row
<1>2. \A i \in 1..Len(Queries(m.to)) :
         /\ Satisfied(m, Queries(m.to)[i])
         /\ Queries(m.to)[i] \in Kinds =>
              m.seen[Queries(m.to)[i]] = LastActor(m, Queries(m.to)[i])
  BY DEF TransitionHolds
<1>3. m.to = "READY" => UnmetDependencies(w) = {}
  <2> SUFFICES ASSUME m.to = "READY" PROVE UnmetDependencies(w) = {}
    OBVIOUS
  <2>1. Satisfied(m, "dependencies")  BY <1>2, QueriesAre
  <2> QED BY <2>1 DEF Satisfied, Kinds
<1>4. StagePassed(w, m.to, c)
  <2> SUFFICES ASSUME m.to \in DOMAIN StagePrerequisite
               PROVE  Passing(w, c, StagePrerequisite[m.to]) # {}
    BY <1>1 DEF StagePassed
  <2>1. m.to \in {"CODE_REVIEW", "VERIFYING", "TECH_COMPLETE"}
    BY DEF StagePrerequisite
  <2>2. Len(Queries(m.to)) > 0 /\ Queries(m.to)[1] = "stage"
    BY <2>1, QueriesAre
  <2>3. 1 \in 1..Len(Queries(m.to))  BY <2>2, QueriesAre
  <2>4. Satisfied(m, "stage")  BY <1>2, <2>2, <2>3
  <2> QED BY <2>4 DEF Satisfied, Kinds
<1>5. m.to = "TECH_COMPLETE" => PipelineComplete(w, c)
  <2> SUFFICES ASSUME m.to = "TECH_COMPLETE" PROVE PipelineComplete(w, c)
    OBVIOUS
  <2> DEFINE answered(k) == Latest(Passing(w, c, k))
  <2>1. c # None  BY DEF TransitionHolds
  <2>2. \A k \in Kinds : Satisfied(m, k) /\ m.seen[k] = LastActor(m, k)
    <3>1. 2 \in 1..4 /\ 3 \in 1..4 /\ 4 \in 1..4  OBVIOUS
    <3> QED BY <1>2, <3>1, QueriesAre DEF Kinds
  <2>3. ASSUME NEW k \in Kinds
        PROVE  /\ Passing(w, c, k) # {}
               /\ \A i \in Passing(w, c, k) : evidence[w][i].actor # producer[w]
    BY <1>1, <2>2 DEF Satisfied, Kinds
  <2>4. ASSUME NEW k \in Kinds
        PROVE  answered(k) # {} /\ \A i \in answered(k) : evidence[w][i].actor = m.seen[k]
    <3>1. Passing(w, c, k) # {}  BY <2>3
    <3>2. /\ Latest(Passing(w, c, k)) # {}
          /\ \A i \in Latest(Passing(w, c, k)) :
                i = CHOOSE j \in Latest(Passing(w, c, k)) : TRUE
      BY <1>1, <3>1, LastPass
    <3> QED BY <2>2, <3>2 DEF LastActor
  <2>5. \A k \in Kinds \ {"verification"} : m.seen[k] # m.seen["verification"]
    BY DEF Separate
  <2>6. "verification" \in Kinds  BY DEF Kinds
  <2> HIDE DEF answered
  <2>7. \A k \in Kinds \ {"verification"} :
           \A i \in answered(k), j \in answered("verification") :
              evidence[w][i].actor # evidence[w][j].actor
    BY <2>4, <2>5, <2>6
  <2> HIDE DEF w, c
  <2> QED BY <1>1, <2>1, <2>3, <2>4, <2>7 DEF PipelineComplete, answered
<1>6. m.to = "ACCEPTED" => AcceptanceAllowed(w, m.actor, c)
  <2> SUFFICES ASSUME m.to = "ACCEPTED" PROVE AcceptanceAllowed(w, m.actor, c)
    OBVIOUS
  <2>1. 1 \in 1..2 /\ 2 \in 1..2  OBVIOUS
  <2>2. Satisfied(m, "acceptance") /\ Satisfied(m, "findings")
    BY <1>2, <2>1, QueriesAre
  <2>3. /\ Passing(w, c, "verification") # {}
        /\ \A i \in Records(w, c, "verification") : evidence[w][i].actor # producer[w]
    BY <1>1, <2>2 DEF Satisfied, Kinds
  <2>4. OpenBlockingFindings(w) = {}
    BY <2>2 DEF Satisfied, Kinds
  <2>5. c # None /\ candidate[w] \in {None, c} /\ m.actor # producer[w]
    BY DEF TransitionHolds
  <2> QED BY <1>1, <2>3, <2>4, <2>5 DEF AcceptanceAllowed
<1>7. Permitted(w, m.to)  BY DEF TransitionHolds
<1> QED BY <1>3, <1>4, <1>5, <1>6, <1>7 DEF Allowed

\* The write of a call whose reading still holds is the whole call of Store.
LEMMA WriteIsTransition ==
    ASSUME CallTypeOK, NEW p \in Process, WriteTransition(p), Holds(call[p])
    PROVE  Next /\ Close(p)
<1> DEFINE m == call[p]
           w == m.wp
<1>1. m.op = "transition" /\ m.asked = Len(Queries(m.to)) /\ Separate(m)
  BY DEF WriteTransition
<1>2. TypeOK /\ m \in PendingTransition /\ TransitionHolds(m)
  BY <1>1, PendingIs DEF Holds, CallTypeOK
<1>3. Allowed(w, m.to, m.actor, m.candidate)
  <2> HIDE DEF m
  <2> QED BY <1>1, <1>2, AnsweredIsAllowed DEF w
<1>4. /\ w \in WP /\ m.to \in States /\ m.candidate \in Candidate \cup {None}
      /\ m.actor \in Signatory(m.to)
  BY <1>2 DEF PendingTransition, TransitionHolds
<1>5. /\ m.row.producer = producer[w] /\ m.row.completed = completed[w]
      /\ Effective(w, m.candidate) = m.candidate
  BY <1>2 DEF TransitionHolds, Row, Effective
<1>6. Transition(w, m.to, m.actor, m.candidate)
  <2>1. /\ state' = [state EXCEPT ![w] = m.to]
        /\ candidate' = [candidate EXCEPT ![w] = m.candidate]
        /\ producer' = [producer EXCEPT ![w] =
                           IF m.to = "EXECUTING" THEN m.actor ELSE m.row.producer]
        /\ retries' = [retries EXCEPT ![w] =
                          IF m.to = "RETRY" /\ @ < MaxRetry THEN @ + 1 ELSE @]
        /\ completed' = [completed EXCEPT ![w] =
                            IF m.to = "TECH_COMPLETE" THEN m.candidate ELSE m.row.completed]
        /\ accepted' = [accepted EXCEPT ![w] =
                           IF m.to = "ACCEPTED" THEN m.candidate ELSE @]
        /\ UNCHANGED <<deps, evidence, findings>>
    BY DEF WriteTransition
  <2> HIDE DEF m, w
  <2>2. producer' = [producer EXCEPT ![w] = IF m.to = "EXECUTING" THEN m.actor ELSE @]
    BY <1>2, <1>4, <1>5, <2>1 DEF TypeOK
  <2>3. completed' = [completed EXCEPT ![w] =
                         IF m.to = "TECH_COMPLETE" THEN m.candidate ELSE @]
    BY <1>2, <1>4, <1>5, <2>1 DEF TypeOK
  <2> QED BY <1>3, <1>5, <2>1, <2>2, <2>3 DEF Transition
<1>7. Next
  <2> HIDE DEF m, w
  <2> QED BY <1>4, <1>6 DEF Next
<1> QED BY <1>7 DEF WriteTransition

LEMMA WriteIsReview ==
    ASSUME CallTypeOK, NEW p \in Process, WriteReview(p), Holds(call[p])
    PROVE  Next /\ Close(p)
<1> DEFINE m == call[p]
<1>1. m.op = "review" /\ AddEvidence(m.wp, m.record) /\ Close(p)
  BY DEF WriteReview
<1>2. m.wp \in WP /\ ReviewHolds(m)
  BY <1>1, PendingIs DEF Holds, CallTypeOK
<1>3. PICK k \in Kinds, c \in Candidate, v \in {"PASS", "FAIL"} : \E a \in Reviewer[k] :
         /\ m.record = [kind |-> k, candidate |-> c, actor |-> a, verdict |-> v]
         /\ ReviewAllowed(m.wp, k, a)
  BY <1>2 DEF ReviewHolds
<1>4. PICK a \in Reviewer[k] :
         /\ m.record = [kind |-> k, candidate |-> c, actor |-> a, verdict |-> v]
         /\ ReviewAllowed(m.wp, k, a)
  BY <1>3
<1>5. RecordReview(m.wp, k, c, a, v)
  BY <1>1, <1>4 DEF RecordReview
<1> HIDE DEF m
<1> QED BY <1>1, <1>2, <1>5 DEF Next

LEMMA WriteIsFinding ==
    ASSUME CallTypeOK, NEW p \in Process, WriteFinding(p), Holds(call[p])
    PROVE  Next /\ Close(p)
<1> DEFINE m == call[p]
<1>1. /\ m.op = "finding" /\ Close(p)
      /\ findings' = [findings EXCEPT ![m.wp] = @ \cup {m.record}]
      /\ UNCHANGED <<rows, deps, evidence>>
  BY DEF WriteFinding
<1>2. m.wp \in WP /\ FindingHolds(m)
  BY <1>1, PendingIs DEF Holds, CallTypeOK
<1>3. PICK s \in Severity :
         m.record = [severity |-> s, candidate |-> candidate[m.wp], status |-> "OPEN"]
  BY <1>2 DEF FindingHolds
<1>4. Effective(m.wp, None) = candidate[m.wp]  BY DEF Effective
<1>5. AddFinding(m.wp, s, None)
  BY <1>1, <1>3, <1>4 DEF AddFinding
<1> HIDE DEF m
<1> QED BY <1>1, <1>2, <1>5 DEF Next

LEMMA AtOnceIsCall == ASSUME NEW w \in WP, AtOnce(w) PROVE Next
BY DEF AtOnce, Next

\* While one process has the store open, every step writes what Store may write in one,
\* or nothing, and what its call has read goes on holding.
LEMMA SoleStep ==
    ASSUME RaceInv, OpenInv, SoleInv, [RaceNext]_rvars
    PROVE  SoleInv' /\ \A p \in Process : Alone(p) => [Next]_vars
<1>1. CallTypeOK  BY DEF RaceInv
<1>2. open' = open  BY DEF RaceNext, rvars
<1> SUFFICES ASSUME NEW p \in Process, Alone(p)
             PROVE  Holds(call[p])' /\ [Next]_vars
  BY <1>2 DEF SoleInv, Alone
<1>3. Holds(call[p])  BY DEF SoleInv
<1>4. ASSUME call'[p] = NoCall PROVE Holds(call[p])'
  BY <1>4, NoCallHolds
<1>5. ASSUME NEW m, Holds(m), UNCHANGED vars, call'[p] = m
      PROVE  Holds(call[p])'
  <2>1. Holds(m)'  BY <1>5, HoldsStill
  <2> QED BY <1>5, <2>1
<1>6. CASE UNCHANGED rvars
  <2>1. UNCHANGED vars /\ call' = call  BY <1>6 DEF rvars
  <2>2. PICK m : m = call[p]  OBVIOUS
  <2>3. Holds(m) /\ call'[p] = m  BY <1>3, <2>1, <2>2
  <2> QED BY <1>5, <2>1, <2>3
<1>7. CASE RaceNext
  <2>1. Step(p)  BY <1>7 DEF RaceNext, Alone
  <2>2. Close(p) => call'[p] = NoCall
    BY <1>1 DEF Close, CallTypeOK
  <2>3. ASSUME Holds(call'[p]), UNCHANGED vars
        PROVE  Holds(call[p])' /\ [Next]_vars
    <3>1. PICK m : m = call'[p]  OBVIOUS
    <3>2. Holds(m)  BY <2>3, <3>1
    <3> QED BY <1>5, <2>3, <3>1, <3>2
  <2>4. CASE \E w \in WP : Idle(p) /\ AtOnce(w) /\ UNCHANGED call
    <3>1. call'[p] = NoCall  BY <2>4 DEF Idle
    <3>2. Next  BY <2>4, AtOnceIsCall
    <3> QED BY <1>4, <3>1, <3>2
  <2>5. CASE \E w \in WP : Begin(p, w)
    BY <1>1, <2>3, <2>5, BeginHolds
  <2>6. CASE Ask(p)
    BY <1>1, <1>3, <2>3, <2>6, AskHolds
  <2>7. CASE WriteTransition(p) \/ WriteReview(p) \/ WriteFinding(p)
    <3>1. Next /\ Close(p)
      BY <1>1, <1>3, <2>7, WriteIsTransition, WriteIsReview, WriteIsFinding
    <3> QED BY <1>4, <2>2, <3>1
  <2>8. CASE Abandon(p)
    <3>1. Close(p) /\ UNCHANGED vars  BY <2>8 DEF Abandon
    <3> QED BY <1>4, <2>2, <3>1
  <2> QED BY <2>1, <2>4, <2>5, <2>6, <2>7, <2>8 DEF Step
<1> QED BY <1>6, <1>7

LEMMA SoleInvariant == RaceSpec => []SoleInv
<1>1. SoleInv /\ RaceInv /\ OpenInv /\ [RaceNext]_rvars => SoleInv'
  BY SoleStep
<1> QED BY <1>1, SoleInvInit, RaceInvariant, PTL DEF RaceSpec

\* store.py:363: that the reads of transition() are outside the transaction that writes
\* costs nothing as long as one process has the store open: each of its steps is an
\* atomic call of Store, or writes nothing.
THEOREM AloneIsAlwaysAtomic == RaceSpec => AloneIsAtomic
<1>1. SoleInv /\ RaceInv /\ OpenInv /\ [RaceNext]_rvars =>
          [\A p \in Process : open = {p} => Next]_vars
  BY SoleStep DEF Alone
<1> QED BY <1>1, SoleInvariant, RaceInvariant, PTL DEF RaceSpec, AloneIsAtomic

\* So one process implements Store, and everything proved of Store holds of it.
THEOREM SoleProcessImplementsStore ==
    ASSUME NEW p \in Process
    PROVE  RaceSpec /\ Alone(p) => Spec
<1>1. RaceInit => Init  BY DEF RaceInit
<1>2. Alone(p) /\ [RaceNext]_rvars => Alone(p)'
  BY DEF Alone, RaceNext, rvars
<1>3. SoleInv /\ RaceInv /\ OpenInv /\ Alone(p) /\ [RaceNext]_rvars => [Next]_vars
  BY SoleStep
<1> QED BY <1>1, <1>2, <1>3, SoleInvariant, RaceInvariant, PTL DEF RaceSpec, Spec

\* store.py:28: with calls made in one step, what was accepted stays ACCEPTED.
LEMMA AcceptanceStands == Spec => []AcceptedIsFinal
<1>1. Init => AcceptedIsFinal  BY DEF Init, AcceptedIsFinal
<1>2. ASSUME TypeOK, AcceptedIsFinal, NEW w \in WP, Call(w)
      PROVE  AcceptedIsFinal'
  <2> SUFFICES ASSUME NEW v \in WP, accepted'[v] # None
               PROVE  state'[v] = "ACCEPTED"
    BY DEF AcceptedIsFinal
  <2>1. accepted[v] # None => state[v] = "ACCEPTED"
    BY <1>2 DEF AcceptedIsFinal
  <2>2. state \in [WP -> States \cup {Absent}] /\ accepted \in [WP -> Candidate \cup {None}]
    BY <1>2 DEF TypeOK
  <2>3. ASSUME NEW to \in States, NEW a \in Actor \cup {None},
               NEW c \in Candidate \cup {None}, Transition(w, to, a, c)
        PROVE  state'[v] = "ACCEPTED"
    <3>1. to \in Transitions[state[w]] /\ state[w] \in States
      BY <1>2, <2>3, PermittedFrom DEF Transition, Allowed, Permitted
    <3>2. state[w] # "ACCEPTED"
      BY <3>1 DEF Transitions
    <3> QED BY <2>1, <2>2, <2>3, <3>2 DEF Transition
  <2>4. ASSUME NEW ds, Register(w, ds) PROVE state'[v] = "ACCEPTED"
    BY <2>1, <2>2, <2>4 DEF Register, Absent
  <2>5. ASSUME UNCHANGED <<state, accepted>> PROVE state'[v] = "ACCEPTED"
    BY <2>1, <2>5
  <2> QED BY <1>2, <2>3, <2>4, <2>5
          DEF Call, SetCandidate, AddEvidence, AddFinding, SupersedeFindings, rows
<1>3. ASSUME TypeOK, AcceptedIsFinal, [Next]_vars
      PROVE  AcceptedIsFinal'
  <2>1. CASE UNCHANGED vars  BY <1>3, <2>1 DEF vars, AcceptedIsFinal
  <2>2. CASE Next  BY <1>2, <1>3, <2>2, NextIsCall
  <2> QED BY <1>3, <2>1, <2>2
<1> QED BY <1>1, <1>3, TypeCorrect, PTL DEF Spec

\* What two processes can take back, one cannot: its acceptances are final.
THEOREM SoleAcceptanceIsFinal ==
    ASSUME NEW p \in Process
    PROVE  RaceSpec /\ Alone(p) => []AcceptedIsFinal
BY SoleProcessImplementsStore, AcceptanceStands, PTL
=============================================================================
