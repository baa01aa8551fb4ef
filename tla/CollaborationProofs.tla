------------------------- MODULE CollaborationProofs -------------------------
(***************************************************************************)
(* What the two parts of the collaboration guarantee.  The unlocked files  *)
(* of the membership: for any number of accounts and of admissions under   *)
(* way, whatever stale queues are written back and wherever a writing is   *)
(* cut or the console dies.  Deploying cohorts and asserting the standing  *)
(* channels: for any number of deployments, cohorts of any size and any    *)
(* list of channels, whichever calls the relay refuses or does not answer. *)
(***************************************************************************)
EXTENDS MCCollaboration, FiniteSetTheorems, WellFoundedInduction, TLAPS

(***************************************************************************)
(* The inductive invariant.                                                *)
(***************************************************************************)
Queues == [Login -> Entries]

Visits ==
    [at : {"away", "code", "token", "knock"}, login : Login \cup {None},
     roster : Rosters \cup {None}, read : Queues \cup {None}]

Consoles ==
    [at : {"idle", "queue", "roster"}, login : Login \cup {None},
     approve : BOOLEAN, read : Queues \cup {None}]

\* An admission has what its next step reads; nobody knocks who was denied.
Ready(visit) ==
    /\ visit.at # "away" => visit.login \in Login
    /\ visit.at = "knock" => visit.read \in Queues /\ visit.read[visit.login] # "denied"

\* The roster's file has one writer, which stops at one that was cut.
MType ==
    /\ config \in Rosters \cup {Corrupt}
    /\ queue \in Queues \cup {Corrupt}
    /\ visits \in [Visit -> Visits] /\ \A v \in Visit : Ready(visits[v])
    /\ console \in Consoles
    /\ console.at = "idle" => console = Idle
    /\ console.at # "idle" => console.login \in Login /\ config # Corrupt
    /\ console.at = "queue" => console.read \in Queues
    /\ torn \subseteq Login

\* The account is in the roster, or on its way there, or was on it when the console died.
Justified(l) ==
    config # Corrupt => \/ l \in config.logins \cup torn
                        \/ console.at = "roster" /\ console.login = l

\* Not only the queue: every copy of it that is still to be written back.
CopiesJustified ==
    /\ \A l \in Login : Requests[l] = "approved" => Justified(l)
    /\ \A v \in Visit : visits[v].at = "knock" =>
         \A l \in Login : visits[v].read[l] = "approved" => Justified(l)
    /\ console.at = "queue" =>
         \A l \in Login : console.read[l] = "approved" => Justified(l)

MInv == MType /\ CopiesJustified

(***************************************************************************)
(* Who was on the way to the roster, or in it, stays there.                *)
(***************************************************************************)
LEMMA RequestsIs ==
    ASSUME MType
    PROVE  Requests \in Queues
BY DEF MType, Requests, Queues, Entries

LEMMA RequestsNext ==
    /\ queue' = Corrupt => \A l \in Login : Requests'[l] = None
    /\ queue' \in Queues => Requests' = queue'
BY FilesAssumption DEF Requests, Queues

\* What an action may do without making an approval lose its ground.
Kept ==
    \A l \in Login : Justified(l) => Justified(l)'

\* The copies after a step are the queue, the copies before it, or new entries that
\* are not approvals or have their ground.
LEMMA CopiesKept ==
    ASSUME MInv, MType', Kept,
           \A l \in Login : Requests'[l] = "approved" => Justified(l)',
           \A v \in Visit : visits'[v].at = "knock" =>
               \/ visits'[v].read = Requests
               \/ visits[v].at = "knock" /\ visits'[v].read = visits[v].read,
           console'.at = "queue" =>
               \/ console'.read = Requests
               \/ console.at = "queue" /\ console'.read = console.read
    PROVE  MInv'
<1>1. \A l \in Login : Requests[l] = "approved" => Justified(l)'
  BY DEF MInv, CopiesJustified, Kept
<1>2. ASSUME NEW v \in Visit, visits'[v].at = "knock", NEW l \in Login,
             visits'[v].read[l] = "approved"
      PROVE  Justified(l)'
  BY <1>1, <1>2 DEF MInv, CopiesJustified, Kept
<1>3. ASSUME console'.at = "queue", NEW l \in Login, console'.read[l] = "approved"
      PROVE  Justified(l)'
  BY <1>1, <1>3 DEF MInv, CopiesJustified, Kept
<1>4. CopiesJustified'
  BY <1>2, <1>3 DEF CopiesJustified
<1> QED BY <1>4 DEF MInv

LEMMA MInvInit == MembershipInit => MInv
<1> SUFFICES ASSUME MembershipInit PROVE MInv
  OBVIOUS
<1>1. MType
  BY FilesAssumption
  DEF MembershipInit, MType, Rosters, Queues, Entries, Visits, Consoles, Ready, Away, Idle
<1>2. \A l \in Login : Requests[l] = None
  BY DEF MembershipInit, Requests
<1>3. CopiesJustified
  BY <1>2, FilesAssumption DEF MembershipInit, CopiesJustified, Away, Idle
<1> QED BY <1>1, <1>3 DEF MInv

(***************************************************************************)
(* The steps of an admission.                                              *)
(***************************************************************************)
LEMMA VisitSteps ==
    ASSUME MInv, NEW v \in Visit,
           (\E l \in Login : Begin(v, l)) \/ Redeem(v) \/ Admit(v) \/ Leave(v)
    PROVE  MInv'
<1>1. UNCHANGED <<config, queue, console, torn>>
  BY DEF Begin, Redeem, Admit, Leave
<1>2. PICK visit \in Visits :
        /\ visits' = [visits EXCEPT ![v] = visit] /\ Ready(visit)
        /\ visit.at = "knock" => visit.read = Requests
  <2>0. visits[v] \in Visits /\ Ready(visits[v]) /\ visits \in [Visit -> Visits]
    BY DEF MInv, MType
  <2>1. Away \in Visits /\ Ready(Away) /\ Away.at # "knock"
    BY DEF Away, Visits, Ready
  <2>2. ASSUME NEW l \in Login, Begin(v, l)
        PROVE  visits' = [visits EXCEPT ![v] =
                  [at |-> "code", login |-> l, roster |-> config, read |-> None]]
               /\ config \in Rosters
    BY <2>2 DEF Begin, MInv, MType
  <2>3. ASSUME NEW l \in Login, config \in Rosters
        PROVE  LET new == [at |-> "code", login |-> l, roster |-> config, read |-> None]
               IN  new \in Visits /\ Ready(new) /\ new.at # "knock"
    BY <2>3 DEF Visits, Ready
  <2>4. ASSUME visits[v].at = "code"
        PROVE  LET new == [visits[v] EXCEPT !.at = "token"]
               IN  /\ new \in Visits /\ Ready(new) /\ new.at # "knock"
                   /\ [visits EXCEPT ![v].at = "token"] = [visits EXCEPT ![v] = new]
    BY <2>0, <2>4 DEF Visits, Ready
  <2>5. ASSUME visits[v].at = "token", Knocks(Requests[visits[v].login])
        PROVE  LET new == [visits[v] EXCEPT !.at = "knock", !.roster = None, !.read = Requests]
               IN  new \in Visits /\ Ready(new) /\ new.read = Requests
    BY <2>0, <2>5, RequestsIs DEF MInv, Visits, Ready, Knocks
  <2>6. CASE \E l \in Login : Begin(v, l)
    BY <2>2, <2>3, <2>6
  <2>7. CASE Redeem(v)  BY <2>1, <2>4, <2>7 DEF Redeem
  <2>8. CASE Admit(v)  BY <2>1, <2>5, <2>8 DEF Admit
  <2>9. CASE Leave(v)  BY <2>1, <2>9 DEF Leave
  <2> QED BY <2>6, <2>7, <2>8, <2>9
<1>3. MType'
  BY <1>1, <1>2 DEF MInv, MType
<1>4. Kept /\ Requests' = Requests
  BY <1>1 DEF Kept, Justified, Requests
<1>5. \A u \in Visit : visits'[u] = IF u = v THEN visit ELSE visits[u]
  BY <1>2 DEF MInv, MType
<1>6. \A l \in Login : Requests'[l] = "approved" => Justified(l)'
  BY <1>4 DEF MInv, CopiesJustified, Kept
<1> QED BY <1>1, <1>2, <1>3, <1>4, <1>5, <1>6, CopiesKept

\* A queue is written back as it was read, with one more request in it.
LEMMA KnockStep ==
    ASSUME MInv, NEW v \in Visit, Knock(v)
    PROVE  MInv'
<1> DEFINE visit == visits[v]
           written == [visit.read EXCEPT ![visit.login] = "pending"]
<1>1. /\ visit.at = "knock" /\ visit.login \in Login /\ visit.read \in Queues
      /\ visits \in [Visit -> Visits]
  BY DEF Knock, MInv, MType, Ready
<1>2. /\ queue' \in {written, Corrupt} /\ visits' = [visits EXCEPT ![v] = Away]
      /\ UNCHANGED <<config, console, torn>>
  BY DEF Knock
<1>3. written \in Queues /\ \A l \in Login : written[l] = "approved" => visit.read[l] = "approved"
  BY <1>1 DEF Queues, Entries
<1>4. Away \in Visits /\ Ready(Away) /\ Away.at # "knock"
  BY DEF Away, Visits, Ready
<1>5. MType'
  BY <1>1, <1>2, <1>3, <1>4 DEF MInv, MType
<1>6. Kept  BY <1>2 DEF Kept, Justified
<1>7. \A l \in Login : Requests'[l] = "approved" => Justified(l)'
  BY <1>1, <1>2, <1>3, <1>6, RequestsNext, FilesAssumption DEF MInv, CopiesJustified, Kept
<1>8. \A u \in Visit : visits'[u] = IF u = v THEN Away ELSE visits[u]
  BY <1>1, <1>2
<1> QED BY <1>2, <1>4, <1>5, <1>6, <1>7, <1>8, CopiesKept

(***************************************************************************)
(* The steps of the console.                                               *)
(***************************************************************************)
LEMMA ConfigureStep ==
    ASSUME MInv, NEW client \in BOOLEAN, NEW org \in BOOLEAN, Configure(client, org)
    PROVE  MInv'
<1>1. /\ console = Idle /\ config \in Rosters /\ UNCHANGED <<queue, visits, console, torn>>
      /\ \/ config' = [config EXCEPT !.client = @ \/ client, !.org = org]
         \/ config' = Corrupt
  BY DEF Configure, MInv, MType
<1>2. config' # Corrupt => config' \in Rosters /\ config'.logins = config.logins
  BY <1>1 DEF Rosters
<1>3. MType'
  BY <1>1, <1>2 DEF MInv, MType, Idle
<1>4. Kept /\ Requests' = Requests
  BY <1>1, <1>2, FilesAssumption DEF Kept, Justified, Requests
<1>5. \A l \in Login : Requests'[l] = "approved" => Justified(l)'
  BY <1>4 DEF MInv, CopiesJustified, Kept
<1> QED BY <1>1, <1>3, <1>4, <1>5, CopiesKept

LEMMA DecideReadsStep ==
    ASSUME MInv, NEW l \in Login, NEW approve \in BOOLEAN, DecideReads(l, approve)
    PROVE  MInv'
<1>1. /\ console = Idle /\ config # Corrupt /\ UNCHANGED <<config, queue, visits, torn>>
      /\ console' = [at |-> "queue", login |-> l, approve |-> approve, read |-> Requests]
  BY DEF DecideReads
<1>2. console' \in Consoles /\ console'.at = "queue" /\ console'.login = l
      /\ console'.read = Requests /\ Requests \in Queues
  BY <1>1, RequestsIs DEF MInv, Consoles
<1>3. MType'
  BY <1>1, <1>2 DEF MInv, MType
<1>4. Kept /\ Requests' = Requests
  BY <1>1 DEF Kept, Justified, Requests, Idle
<1>5. \A k \in Login : Requests'[k] = "approved" => Justified(k)'
  BY <1>4 DEF MInv, CopiesJustified, Kept
<1> QED BY <1>1, <1>2, <1>3, <1>4, <1>5, CopiesKept

LEMMA DecideWritesStep ==
    ASSUME MInv, DecideWrites
    PROVE  MInv'
<1> DEFINE written == [console.read EXCEPT ![console.login] =
                         IF console.approve THEN "approved" ELSE "denied"]
<1>1. /\ console.at = "queue" /\ console.login \in Login /\ console.read \in Queues
      /\ console \in Consoles /\ config # Corrupt
      /\ UNCHANGED <<config, visits, torn>>
  BY DEF DecideWrites, MInv, MType
<1>2. /\ written \in Queues
      /\ \A l \in Login : written[l] = "approved" =>
            console.read[l] = "approved" \/ (l = console.login /\ console.approve)
  BY <1>1 DEF Queues, Entries
<1>3. \/ /\ queue' = written /\ console.approve
         /\ console' = [console EXCEPT !.at = "roster"]
      \/ /\ queue' = written /\ ~console.approve /\ console' = Idle
      \/ queue' = Corrupt /\ console' = Idle
  BY DEF DecideWrites, RosterDue
<1>4. /\ Idle \in Consoles /\ Idle.at = "idle"
      /\ LET new == [console EXCEPT !.at = "roster"]
         IN  new \in Consoles /\ new.at = "roster" /\ new.login = console.login
  BY <1>1 DEF Idle, Consoles
<1>5. MType'
  BY <1>1, <1>2, <1>3, <1>4 DEF MInv, MType
<1>6. Kept  BY <1>1 DEF Kept, Justified
<1>7. \A l \in Login : Requests'[l] = "approved" => Justified(l)'
  <2> SUFFICES ASSUME NEW l \in Login, Requests'[l] = "approved" PROVE Justified(l)'
    OBVIOUS
  <2>1. queue' # Corrupt  BY RequestsNext, FilesAssumption
  <2>2. queue' = written /\ Requests' = written  BY <2>1, <1>2, <1>3, RequestsNext
  <2>3. CASE console.read[l] = "approved"
    BY <2>3, <1>1, <1>6 DEF MInv, CopiesJustified, Kept
  <2>4. CASE l = console.login /\ console.approve
    BY <2>1, <2>4, <1>3, <1>4 DEF Justified
  <2> QED BY <2>2, <2>3, <2>4, <1>2
<1>8. console'.at # "queue"  BY <1>3, <1>4
<1> QED BY <1>1, <1>5, <1>6, <1>7, <1>8, CopiesKept

LEMMA WriteRosterStep ==
    ASSUME MInv, WriteRoster
    PROVE  MInv'
<1>1. /\ console.at = "roster" /\ console.login \in Login /\ config \in Rosters
      /\ UNCHANGED <<queue, visits>> /\ console' = Idle /\ torn' = torn \ {console.login}
      /\ \/ config' = [config EXCEPT !.logins = @ \cup {console.login}]
         \/ config' = Corrupt
  BY DEF WriteRoster, MInv, MType
<1>2. config' # Corrupt => /\ config' \in Rosters
                          /\ config'.logins = config.logins \cup {console.login}
  BY <1>1 DEF Rosters
<1>3. Idle \in Consoles /\ Idle.at = "idle"  BY DEF Idle, Consoles
<1>4. MType'
  BY <1>1, <1>2, <1>3 DEF MInv, MType
<1>5. Kept
  BY <1>1, <1>2, FilesAssumption DEF Kept, Justified
<1>6. \A l \in Login : Requests'[l] = "approved" => Justified(l)'
  BY <1>1, <1>5 DEF MInv, CopiesJustified, Kept, Requests
<1> QED BY <1>1, <1>3, <1>4, <1>5, <1>6, CopiesKept

LEMMA ConsoleDiesStep ==
    ASSUME MInv, ConsoleDies
    PROVE  MInv'
<1>1. /\ UNCHANGED <<config, queue, visits>> /\ console' = Idle
      /\ torn' = IF console.at = "roster" THEN torn \cup {console.login} ELSE torn
  BY DEF ConsoleDies
<1>2. Idle \in Consoles /\ Idle.at = "idle"  BY DEF Idle, Consoles
<1>3. torn' \subseteq Login  BY <1>1 DEF MInv, MType
<1>4. MType'
  BY <1>1, <1>2, <1>3 DEF MInv, MType
<1>5. Kept
  BY <1>1 DEF Kept, Justified
<1>6. \A l \in Login : Requests'[l] = "approved" => Justified(l)'
  BY <1>1, <1>5 DEF MInv, CopiesJustified, Kept, Requests
<1> QED BY <1>1, <1>2, <1>4, <1>5, <1>6, CopiesKept

(***************************************************************************)
(* The invariant, and what it says.                                        *)
(***************************************************************************)
LEMMA MInvStep == MInv /\ [MembershipNext]_mvars => MInv'
<1> SUFFICES ASSUME MInv, [MembershipNext]_mvars PROVE MInv'
  OBVIOUS
<1>1. ASSUME NEW v \in Visit,
             (\E l \in Login : Begin(v, l)) \/ Redeem(v) \/ Admit(v) \/ Leave(v)
      PROVE  MInv'
  BY <1>1, VisitSteps
<1>2. ASSUME NEW v \in Visit, Knock(v) PROVE MInv'
  BY <1>2, KnockStep
<1>3. ASSUME NEW client \in BOOLEAN, NEW org \in BOOLEAN, Configure(client, org) PROVE MInv'
  BY <1>3, ConfigureStep
<1>4. ASSUME NEW l \in Login, NEW approve \in BOOLEAN, DecideReads(l, approve) PROVE MInv'
  BY <1>4, DecideReadsStep
<1>5. CASE DecideWrites  BY <1>5, DecideWritesStep
<1>6. CASE WriteRoster  BY <1>6, WriteRosterStep
<1>7. CASE ConsoleDies  BY <1>7, ConsoleDiesStep
<1>8. CASE UNCHANGED mvars
  BY <1>8 DEF mvars, MInv, MType, CopiesJustified, Justified, Requests
<1> QED BY <1>1, <1>2, <1>3, <1>4, <1>5, <1>6, <1>7, <1>8 DEF MembershipNext

LEMMA MembershipInvariant == MembershipSpec => []MInv
BY MInvInit, MInvStep, PTL DEF MembershipSpec

\* The types.
THEOREM MembershipTypeCorrect == MembershipSpec => []MembershipTypeOK
<1>1. MInv => MembershipTypeOK
  BY DEF MInv, MType, MembershipTypeOK, Visits, Consoles, Ready, Queues
<1> QED BY <1>1, MembershipInvariant, PTL

\* Whom the queue calls approved is admitted, but for an approval under way or cut.
THEOREM ApprovedAreAdmitted == MembershipSpec => []ApprovedIsAdmitted
<1>1. MInv => ApprovedIsAdmitted
  BY DEF MInv, CopiesJustified, Justified, ApprovedIsAdmitted
<1> QED BY <1>1, MembershipInvariant, PTL

\* A denial goes only when the operator approves or a writing is stale or cut.
THEOREM DenialsAreKept == MembershipSpec => DenialsStand
<1> DEFINE Stands(l) ==
      \/ queue' = Corrupt
      \/ console.at = "queue" /\ (console.read[l] # "denied" \/
                                  (console.login = l /\ console.approve))
      \/ \E v \in Visit : visits[v].at = "knock" /\ visits[v].read[l] # "denied"
<1>1. ASSUME MInv, [MembershipNext]_mvars, NEW l \in Login,
             Requests[l] = "denied", Requests'[l] # "denied"
      PROVE  Stands(l)
  <2>1. ASSUME NEW v \in Visit, Knock(v) PROVE Stands(l)
    <3> DEFINE visit == visits[v]
               written == [visit.read EXCEPT ![visit.login] = "pending"]
    <3>1. /\ visit.at = "knock" /\ visit.login \in Login /\ visit.read \in Queues
          /\ visit.read[visit.login] # "denied"
          /\ queue' \in {written, Corrupt}
      BY <1>1, <2>1 DEF Knock, MInv, MType, Ready
    <3>2. CASE queue' = written
      <4>1. written \in Queues  BY <3>1 DEF Queues, Entries
      <4>2. Requests'[l] = written[l]  BY <4>1, <3>2, RequestsNext
      <4>3. visit.read[l] # "denied"  BY <4>2, <3>1, <1>1 DEF Queues
      <4> QED BY <4>3, <3>1
    <3> QED BY <3>1, <3>2
  <2>2. CASE DecideWrites
    <3> DEFINE written == [console.read EXCEPT ![console.login] =
                             IF console.approve THEN "approved" ELSE "denied"]
    <3>1. /\ console.at = "queue" /\ console.login \in Login /\ console.read \in Queues
          /\ queue' \in {written, Corrupt}
      BY <1>1, <2>2 DEF DecideWrites, MInv, MType
    <3>2. CASE queue' = written
      <4>1. written \in Queues  BY <3>1 DEF Queues, Entries
      <4>2. Requests'[l] = written[l]  BY <4>1, <3>2, RequestsNext
      <4>3. console.read[l] # "denied" \/ (console.login = l /\ console.approve)
        BY <4>2, <3>1, <1>1 DEF Queues
      <4> QED BY <4>3, <3>1
    <3> QED BY <3>1, <3>2
  <2>3. ASSUME queue' = queue PROVE FALSE
    BY <1>1, <2>3 DEF Requests
  <2> QED BY <1>1, <2>1, <2>2, <2>3
      DEF MembershipNext, mvars, Begin, Redeem, Admit, Leave, Configure, DecideReads,
          WriteRoster, ConsoleDies
<1>2. MInv /\ [MembershipNext]_mvars =>
        [\A l \in Login : Requests[l] = "denied" /\ Requests'[l] # "denied" => Stands(l)]_mvars
  BY <1>1
<1> QED BY <1>2, MembershipInvariant, PTL DEF MembershipSpec, DenialsStand

-----------------------------------------------------------------------------
(***************************************************************************)
(* Induction over the natural numbers, for a set instead of a predicate:   *)
(* a set that holds 0 and every successor of its members has no least      *)
(* number outside it.                                                      *)
(***************************************************************************)
LEMMA SetInduction ==
    ASSUME NEW S \in SUBSET Nat, 0 \in S, \A n \in S : n + 1 \in S
    PROVE  S = Nat
<1> DEFINE R == {ss \in Nat \X Nat : ss[1] < ss[2]}
<1>1. IsWellFoundedOn(R, Nat)
  BY NatLessThanWellFounded DEF OpToRel
<1>2. \A x, y \in Nat : <<x, y>> \in R <=> x < y
  OBVIOUS
<1> SUFFICES ASSUME Nat \ S # {} PROVE FALSE
  OBVIOUS
<1> HIDE DEF R
<1>3. PICK x \in Nat \ S : \A y \in Nat \ S : ~(<<y, x>> \in R)
  BY <1>1, WFMin
<1>4. x # 0 /\ x - 1 \in Nat /\ x - 1 < x
  BY <1>3
<1>5. x - 1 \in S
  BY <1>2, <1>3, <1>4
<1>6. (x - 1) + 1 = x
  BY <1>3
<1> QED BY <1>3, <1>5, <1>6

(***************************************************************************)
(* The keys of a cohort.                                                   *)
(***************************************************************************)
Minting(f, n) == IF n = 0 THEN <<>> ELSE Append(f[n - 1], Key(f[n - 1], Roles[n]))

LEMMA MintedIs ==
    /\ Minted[0] = <<>>
    /\ \A n \in 1..Len(Roles) : Minted[n] = Append(Minted[n - 1], Key(Minted[n - 1], Roles[n]))
<1> DEFINE S == {m \in Nat : \E f : f = [n \in 0..m |-> Minting(f, n)]}
<1>1. 0 \in S
  <2> DEFINE f == [n \in 0..0 |-> <<>>]
  <2>1. f = [n \in 0..0 |-> Minting(f, n)]  BY DEF Minting
  <2> QED BY <2>1
<1>2. ASSUME NEW m \in S PROVE m + 1 \in S
  <2>1. PICK f : f = [n \in 0..m |-> Minting(f, n)]  OBVIOUS
  <2> DEFINE g == [n \in 0..(m + 1) |-> IF n = m + 1 THEN Minting(f, n) ELSE f[n]]
  <2>2. ASSUME NEW n \in 0..(m + 1) PROVE g[n] = Minting(g, n)
    <3>1. n # 0 => n - 1 \in 0..m /\ n - 1 # m + 1 /\ n - 1 \in 0..(m + 1)  OBVIOUS
    <3>2. n # 0 => g[n - 1] = f[n - 1]  BY <3>1
    <3>3. Minting(g, n) = Minting(f, n)  BY <3>2 DEF Minting
    <3>4. n # m + 1 => f[n] = Minting(f, n)  BY <2>1
    <3> QED BY <3>3, <3>4
  <2>3. g = [n \in 0..(m + 1) |-> Minting(g, n)]  BY <2>2
  <2> HIDE DEF g
  <2> QED BY <2>3
<1>3. Len(Roles) \in S
  <2> HIDE DEF S
  <2>1. S \in SUBSET Nat  BY DEF S
  <2>2. S = Nat  BY <1>1, <1>2, <2>1, SetInduction
  <2> QED BY <2>2, RelayAssumption
<1>4. \E f : f = [n \in 0..Len(Roles) |-> Minting(f, n)]
  BY <1>3
<1>5. Minted = [n \in 0..Len(Roles) |-> Minting(Minted, n)]
  BY <1>4 DEF Minted, Minting
<1>6. Len(Roles) \in Nat  BY RelayAssumption
<1>7. \A n \in 0..Len(Roles) : Minted[n] = Minting(Minted, n)  BY <1>5
<1>8. \A n \in 1..Len(Roles) : n \in 0..Len(Roles) /\ n # 0  BY <1>6
<1>9. Minted[0] = <<>>  BY <1>6, <1>7 DEF Minting
<1> QED BY <1>7, <1>8, <1>9 DEF Minting

\* Every slot has the role it is for and its number among the slots of that role.
Slots == STRING \X Nat
Earlier(i) == {j \in 1..(i - 1) : Roles[j] = Roles[i]}

LEMMA MintedKeys ==
    \A n \in 0..Len(Roles) :
        /\ Minted[n] \in Seq(Slots) /\ Len(Minted[n]) = n
        /\ \A i \in 1..n : Minted[n][i] = <<Roles[i], 1 + Cardinality(Earlier(i))>>
<1> DEFINE Right(n) == /\ Minted[n] \in Seq(Slots) /\ Len(Minted[n]) = n
                       /\ \A i \in 1..n : Minted[n][i] = <<Roles[i], 1 + Cardinality(Earlier(i))>>
           S == {n \in Nat : n <= Len(Roles) => Right(n)}
<1>0. Len(Roles) \in Nat /\ \A i \in 1..Len(Roles) : Roles[i] \in STRING
  BY RelayAssumption
<1>1. Right(0)
  BY MintedIs
<1>2. ASSUME NEW n \in Nat, n + 1 <= Len(Roles), Right(n)
      PROVE  Right(n + 1)
  <2> DEFINE keys == Minted[n]
             role == Roles[n + 1]
  <2>1. Minted[n + 1] = Append(keys, Key(keys, role))
    <3>1. n + 1 \in 1..Len(Roles) /\ (n + 1) - 1 = n  BY <1>0, <1>2
    <3> QED BY <3>1, MintedIs
  <2>2. {k \in DOMAIN keys : keys[k][1] = role} = Earlier(n + 1)
    <3>1. DOMAIN keys = 1..n /\ \A k \in 1..n : keys[k][1] = Roles[k]  BY <1>2
    <3>2. (n + 1) - 1 = n  BY <1>2
    <3> QED BY <3>1, <3>2 DEF Earlier
  <2>3. Key(keys, role) = <<role, 1 + Cardinality(Earlier(n + 1))>>
    BY <2>2 DEF Key
  <2>4. Key(keys, role) \in Slots
    <3>1. IsFiniteSet(1..n)  BY <1>2, FS_Interval
    <3>2. Earlier(n + 1) \subseteq 1..n  BY <1>2 DEF Earlier
    <3>3. Cardinality(Earlier(n + 1)) \in Nat
      BY <3>1, <3>2, FS_Subset, FS_CardinalityType
    <3>4. role \in STRING  BY <1>0, <1>2
    <3> QED BY <3>3, <3>4, <2>3 DEF Slots
  <2> HIDE DEF keys, role
  <2>5. keys \in Seq(Slots) /\ Len(keys) = n
        /\ \A i \in 1..n : keys[i] = <<Roles[i], 1 + Cardinality(Earlier(i))>>
    BY <1>2 DEF keys
  <2>6. /\ Append(keys, Key(keys, role)) \in Seq(Slots)
        /\ Len(Append(keys, Key(keys, role))) = n + 1
        /\ \A i \in 1..n : Append(keys, Key(keys, role))[i] = keys[i]
        /\ Append(keys, Key(keys, role))[n + 1] = Key(keys, role)
    BY <2>4, <2>5
  <2>7. \A i \in 1..(n + 1) : i \in 1..n \/ i = n + 1  BY <1>2
  <2>8. role = Roles[n + 1]  BY DEF role
  <2> QED BY <2>1, <2>3, <2>5, <2>6, <2>7, <2>8
<1> HIDE DEF Right
<1>3. ASSUME NEW n \in S PROVE n + 1 \in S
  <2>1. n + 1 <= Len(Roles) => n <= Len(Roles)  BY <1>0
  <2> QED BY <2>1, <1>2
<1>4. S = Nat
  <2>1. S \in SUBSET Nat /\ 0 \in S  BY <1>1
  <2> HIDE DEF S
  <2> QED BY <2>1, <1>3, SetInduction
<1>5. \A n \in 0..Len(Roles) : Right(n)
  <2>1. \A n \in 0..Len(Roles) : n \in Nat /\ n <= Len(Roles)  BY <1>0
  <2> QED BY <2>1, <1>4
<1> QED BY <1>5 DEF Right

\* No two slots of a cohort share a key.
LEMMA KeysDiffer ==
    /\ Keys \in Seq(Slots) /\ Len(Keys) = Len(Roles) /\ Len(Roles) \in Nat \ {0}
    /\ \A i, j \in 1..Len(Roles) : i # j => Keys[i] # Keys[j]
    /\ Cardinality({Keys[k] : k \in DOMAIN Keys}) = Len(Roles)
<1>1. Len(Roles) \in Nat \ {0}  BY RelayAssumption
<1>2. /\ Keys \in Seq(Slots) /\ Len(Keys) = Len(Roles)
      /\ \A i \in 1..Len(Roles) : Keys[i] = <<Roles[i], 1 + Cardinality(Earlier(i))>>
  <2>1. Len(Roles) \in 0..Len(Roles)  BY <1>1
  <2> QED BY <2>1, MintedKeys DEF Keys
<1>3. ASSUME NEW i \in 1..Len(Roles), NEW j \in 1..Len(Roles), i < j
      PROVE  Keys[i] # Keys[j]
  <2> SUFFICES ASSUME Roles[i] = Roles[j],
                      1 + Cardinality(Earlier(i)) = 1 + Cardinality(Earlier(j))
               PROVE  FALSE
    BY <1>2
  <2>1. Earlier(i) \subseteq Earlier(j) /\ i \in Earlier(j) /\ i \notin Earlier(i)
    BY <1>1, <1>3 DEF Earlier
  <2>2. IsFiniteSet(Earlier(j))
    <3>1. IsFiniteSet(1..(j - 1))  BY FS_Interval
    <3> QED BY <3>1, FS_Subset DEF Earlier
  <2>3. Earlier(i) # Earlier(j)  BY <2>1
  <2>4. Cardinality(Earlier(i)) # Cardinality(Earlier(j))
    BY <2>1, <2>2, <2>3, FS_Subset
  <2>5. Cardinality(Earlier(i)) \in Nat /\ Cardinality(Earlier(j)) \in Nat
    BY <2>1, <2>2, FS_Subset, FS_CardinalityType
  <2> QED BY <2>4, <2>5
<1>4. \A i, j \in 1..Len(Roles) : i # j => Keys[i] # Keys[j]
  <2>1. \A i, j \in 1..Len(Roles) : i # j => i < j \/ j < i  BY <1>1
  <2> QED BY <2>1, <1>3
<1>5. Cardinality({Keys[k] : k \in DOMAIN Keys}) = Len(Roles)
  <2> DEFINE T == {Keys[k] : k \in DOMAIN Keys}
             f == [k \in 1..Len(Roles) |-> Keys[k]]
  <2>1. DOMAIN Keys = 1..Len(Roles)  BY <1>1, <1>2
  <2>2. f \in Bijection(1..Len(Roles), T)
    BY <1>4, <2>1 DEF Bijection, Injection, Surjection, IsInjective
  <2>3. ExistsBijection(1..Len(Roles), T)
    BY <2>2 DEF ExistsBijection
  <2> HIDE DEF T
  <2>4. Cardinality(T) = Len(Roles)
    BY <1>1, <2>3, FS_CountingElements
  <2> QED BY <2>4 DEF T
<1> QED BY <1>1, <1>2, <1>4, <1>5

(***************************************************************************)
(* The inductive invariant.                                                *)
(***************************************************************************)
Stages == {"out", "member", "invite", "claim", "profile", "seat", "announce", "open", "closed"}
Working == {"member", "invite", "claim", "profile", "seat"}

Cohorts == [at : Stages, keys : Seq(Slots), next : Nat, faults : SUBSET Slots]

\* What must hold of a key without a fault.
Settled(d, key) ==
    /\ Pubkey(d, key) \in members
    /\ \/ <<Package[d], Pubkey(d, key)>> \in declined
       \/ Pubkey(d, key) \in named /\ <<Package[d], Pubkey(d, key)>> \in seats

\* What must hold of it once its profile was set.
Named(d, key) ==
    Pubkey(d, key) \in named \/ <<Package[d], Pubkey(d, key)>> \in declined

\* Every slot that was passed is settled or faulted, and the present one is as far
\* as its stage says.
Sound(d, c) ==
    /\ c \in Cohorts
    /\ c.at \in {"out", "closed"} => c.next = 0
    /\ c.at \notin {"out", "closed"} => c.keys = Keys
    /\ c.at \in Working => c.next \in 1..Len(Roles)
    /\ c.at \in {"announce", "open"} => c.next = Len(Roles) + 1
    /\ \A k \in 1..(c.next - 1) : c.keys[k] \in c.faults \/ Settled(d, c.keys[k])
    /\ c.at \in {"profile", "seat"} => Pubkey(d, c.keys[c.next]) \in members
    /\ c.at = "seat" => Named(d, c.keys[c.next])
    /\ c.at = "open" => Package[d] \in channels \/ <<Package[d], d>> \in declined

SpacesInv ==
    /\ spaces \in [Space -> {"unchecked", "asserted", "fine", "not added"}]
    /\ \A s \in Space : spaces[s] = "fine" => <<s, Operator>> \in seats \cup declined

LInv ==
    /\ channels \subseteq {Package[d] : d \in Deployment} \cup Space
    /\ \A seat \in seats : seat[1] \in channels
    /\ \A x \in declined : x[1] \in {Package[d] : d \in Deployment} \cup Space
    /\ DOMAIN cohorts = Deployment /\ \A d \in Deployment : Sound(d, cohorts[d])
    /\ cohorts \in [Deployment -> Cohorts]
    /\ SpacesInv

(***************************************************************************)
(* The relay forgets nothing, so what was sound stays sound.               *)
(***************************************************************************)
Grows ==
    /\ channels \subseteq channels' /\ members \subseteq members'
    /\ named \subseteq named' /\ seats \subseteq seats'
    /\ declined \subseteq declined'

LEMMA SoundGrows ==
    ASSUME Grows, NEW d, NEW c, Sound(d, c)
    PROVE  Sound(d, c)'
BY DEF Grows, Sound, Settled, Named

\* A step of one deployment.
LEMMA CohortStep ==
    ASSUME LInv, Grows, NEW d \in Deployment, NEW c, cohorts' = [cohorts EXCEPT ![d] = c],
           Sound(d, c)', spaces' = spaces,
           channels' \subseteq channels \cup {Package[d]},
           \A seat \in seats' \ seats : seat[1] \in channels,
           \A x \in declined' \ declined : x[1] = Package[d]
    PROVE  LInv'
<1>1. c \in Cohorts  BY DEF Sound
<1>2. cohorts' \in [Deployment -> Cohorts]  BY <1>1 DEF LInv
<1>3. \A e \in Deployment : cohorts'[e] = IF e = d THEN c ELSE cohorts[e]
  BY DEF LInv
<1>4. ASSUME NEW e \in Deployment PROVE Sound(e, cohorts[e])'
  <2>1. Sound(e, cohorts[e])  BY DEF LInv
  <2>2. CASE e = d
    <3>1. c = cohorts'[e]  BY <2>2, <1>3
    <3> QED BY <3>1, <2>2 DEF Sound, Settled, Named
  <2>3. CASE e # d
    <3>1. cohorts'[e] = cohorts[e]  BY <2>3, <1>3
    <3> QED BY <3>1, <2>1 DEF Sound, Settled, Named, Grows
  <2> QED BY <2>2, <2>3
<1>5. channels' \subseteq {Package[e] : e \in Deployment} \cup Space
  BY DEF LInv
<1>6. \A seat \in seats' : seat[1] \in channels'
  BY DEF LInv, Grows
<1>7. SpacesInv'
  BY DEF LInv, SpacesInv, Grows
<1>8. \A x \in declined' : x[1] \in {Package[e] : e \in Deployment} \cup Space
  BY DEF LInv
<1> QED BY <1>2, <1>4, <1>5, <1>6, <1>7, <1>8 DEF LInv

\* What Advance and Proceed make of a sound cohort.
LEMMA AdvanceIs ==
    ASSUME LInv, NEW d \in Deployment, NEW to \in Stages, Advance(d, to)
    PROVE  \E c \in Cohorts :
             /\ cohorts' = [cohorts EXCEPT ![d] = c]
             /\ c.at = to /\ c.keys = cohorts[d].keys
             /\ c.next = cohorts[d].next /\ c.faults = cohorts[d].faults
<1> DEFINE c == [cohorts[d] EXCEPT !.at = to]
<1>1. cohorts[d] \in Cohorts  BY DEF LInv
<1>2. c \in Cohorts /\ c.at = to /\ c.keys = cohorts[d].keys
      /\ c.next = cohorts[d].next /\ c.faults = cohorts[d].faults
  BY <1>1 DEF Cohorts
<1>3. cohorts' = [cohorts EXCEPT ![d] = c]  BY DEF Advance
<1> HIDE DEF c
<1> QED BY <1>2, <1>3

LEMMA ProceedIs ==
    ASSUME LInv, NEW d \in Deployment, NEW faults \in SUBSET Slots, Proceed(d, faults),
           cohorts[d].at \in Working
    PROVE  \E c \in Cohorts :
             /\ cohorts' = [cohorts EXCEPT ![d] = c]
             /\ c.at = IF cohorts[d].next = Len(Roles) THEN "announce" ELSE "member"
             /\ c.keys = cohorts[d].keys /\ c.next = cohorts[d].next + 1
             /\ c.faults = cohorts[d].faults \cup faults
<1> DEFINE at == IF cohorts[d].next = Len(cohorts[d].keys) THEN "announce" ELSE "member"
           c == [cohorts[d] EXCEPT !.faults = @ \cup faults, !.next = @ + 1, !.at = at]
<1>1. cohorts[d] \in Cohorts /\ cohorts[d].keys = Keys
  BY DEF LInv, Sound, Working
<1>2. c \in Cohorts /\ c.at = at /\ c.keys = cohorts[d].keys
      /\ c.next = cohorts[d].next + 1 /\ c.faults = cohorts[d].faults \cup faults
  <2>1. at \in Stages  BY DEF Stages
  <2>2. /\ cohorts[d].keys \in Seq(Slots) /\ cohorts[d].next + 1 \in Nat
        /\ cohorts[d].faults \cup faults \in SUBSET Slots
    BY <1>1 DEF Cohorts
  <2> HIDE DEF at
  <2> DEFINE c1 == [cohorts[d] EXCEPT !.faults = @ \cup faults]
             c2 == [c1 EXCEPT !.next = @ + 1]
  <2>3. c = [c2 EXCEPT !.at = at] /\ c2 = [c1 EXCEPT !.next = c1.next + 1]
    BY <1>1 DEF Cohorts
  <2>4. c1 \in Cohorts /\ c1.keys = cohorts[d].keys /\ c1.next = cohorts[d].next
        /\ c1.faults = cohorts[d].faults \cup faults
    BY <1>1, <2>2 DEF Cohorts
  <2> HIDE DEF c1, c2, c
  <2>5. c2 \in Cohorts /\ c2.keys = c1.keys /\ c2.next = c1.next + 1 /\ c2.faults = c1.faults
    BY <2>2, <2>3, <2>4 DEF Cohorts
  <2>6. c \in Cohorts /\ c.keys = c2.keys /\ c.next = c2.next /\ c.faults = c2.faults /\ c.at = at
    BY <2>1, <2>3, <2>5 DEF Cohorts
  <2> QED BY <2>4, <2>5, <2>6
<1>3. cohorts' = [cohorts EXCEPT ![d] = c]  BY DEF Proceed
<1>4. Len(cohorts[d].keys) = Len(Roles)  BY <1>1, KeysDiffer
<1> HIDE DEF c
<1> QED BY <1>2, <1>3, <1>4

\* Going on to the next identity is sound when the present one is settled or faulted.
LEMMA ProceedSound ==
    ASSUME LInv, Grows, NEW d \in Deployment, NEW faults \in SUBSET Slots,
           Proceed(d, faults), cohorts[d].at \in Working,
           NEW key, key = Current(d), key \in faults \/ Settled(d, key)',
           spaces' = spaces, channels' = channels,
           \A seat \in seats' \ seats : seat[1] \in channels,
           \A x \in declined' \ declined : x[1] = Package[d]
    PROVE  LInv'
<1> DEFINE r == cohorts[d]
<1>1. PICK c \in Cohorts :
        /\ cohorts' = [cohorts EXCEPT ![d] = c]
        /\ c.at = IF r.next = Len(Roles) THEN "announce" ELSE "member"
        /\ c.keys = r.keys /\ c.next = r.next + 1 /\ c.faults = r.faults \cup faults
  BY ProceedIs
<1>2. /\ r.keys = Keys /\ r.next \in 1..Len(Roles)
      /\ \A k \in 1..(r.next - 1) : r.keys[k] \in r.faults \/ Settled(d, r.keys[k])
  BY DEF LInv, Sound, Working
<1>3. Len(Roles) \in Nat \ {0}  BY KeysDiffer
<1>4. ASSUME NEW k \in 1..(c.next - 1) PROVE c.keys[k] \in c.faults \/ Settled(d, c.keys[k])'
  <2>1. k \in 1..(r.next - 1) \/ k = r.next  BY <1>1, <1>2, <1>3
  <2>2. CASE k \in 1..(r.next - 1)
    <3>1. r.keys[k] \in r.faults \/ Settled(d, r.keys[k])  BY <2>2, <1>2
    <3>2. c.keys[k] = r.keys[k] /\ r.faults \subseteq c.faults  BY <1>1
    <3> QED BY <3>1, <3>2 DEF Settled, Grows
  <2>3. CASE k = r.next
    <3>1. c.keys[k] = key /\ faults \subseteq c.faults  BY <2>3, <1>1 DEF Current
    <3> QED BY <3>1 DEF Settled
  <2> QED BY <2>1, <2>2, <2>3
<1>5. /\ c.at \in {"announce", "member"}
      /\ c.at = "announce" => c.next = Len(Roles) + 1
      /\ c.at = "member" => c.next \in 1..Len(Roles)
  BY <1>1, <1>2, <1>3
<1>6. Sound(d, c)'
  BY <1>1, <1>2, <1>4, <1>5 DEF Sound, Working
<1> QED BY <1>1, <1>6, CohortStep

(***************************************************************************)
(* The calls of one deployment.                                            *)
(***************************************************************************)
\* The identity that is being admitted, named and seated.
LEMMA CurrentIs ==
    ASSUME LInv, NEW d \in Deployment, cohorts[d].at \in Working
    PROVE  /\ Current(d) \in Slots /\ Fault(d) \in SUBSET Slots
           /\ cohorts[d].keys[cohorts[d].next] = Current(d)
<1>1. cohorts[d].keys = Keys /\ cohorts[d].next \in 1..Len(Roles)
  BY DEF LInv, Sound, Working
<1>2. Keys \in Seq(Slots) /\ Len(Keys) = Len(Roles)  BY KeysDiffer
<1> QED BY <1>1, <1>2 DEF Current, Fault

\* Going on to the next call for the same identity.
LEMMA AdvanceSound ==
    ASSUME LInv, Grows, NEW d \in Deployment, cohorts[d].at \in Working,
           NEW to \in Working, Advance(d, to), NEW key, key = Current(d),
           to \in {"profile", "seat"} => Pubkey(d, key) \in members',
           to = "seat" => Named(d, key)',
           spaces' = spaces, channels' = channels, seats' = seats,
           \A x \in declined' \ declined : x[1] = Package[d]
    PROVE  LInv'
<1>1. to \in Stages  BY DEF Stages, Working
<1>2. PICK c \in Cohorts : /\ cohorts' = [cohorts EXCEPT ![d] = c]
                           /\ c.at = to /\ c.keys = cohorts[d].keys
                           /\ c.next = cohorts[d].next /\ c.faults = cohorts[d].faults
  BY <1>1, AdvanceIs
<1>3. /\ c.keys = Keys /\ c.next \in 1..Len(Roles)
      /\ \A k \in 1..(c.next - 1) : c.keys[k] \in c.faults \/ Settled(d, c.keys[k])
  BY <1>2 DEF LInv, Sound, Working
<1>4. \A k \in 1..(c.next - 1) : c.keys[k] \in c.faults \/ Settled(d, c.keys[k])'
  BY <1>3 DEF Settled, Grows
<1>5. c.keys[c.next] = key  BY <1>2 DEF Current
<1>6. Sound(d, c)'
  BY <1>2, <1>3, <1>4, <1>5 DEF Sound, Working, Named
<1> QED BY <1>2, <1>6, CohortStep

LEMMA FreshIs == Fresh \in Cohorts /\ Fresh.at = "out" /\ Fresh.next = 0
BY DEF Fresh, Cohorts, Stages

\* The run gives up its channel, or is killed.
LEMMA ClosedStep ==
    ASSUME LInv, Grows, NEW d \in Deployment, Close(d), spaces' = spaces,
           channels' \subseteq channels \cup {Package[d]},
           \A seat \in seats' \ seats : seat[1] \in channels,
           \A x \in declined' \ declined : x[1] = Package[d]
    PROVE  LInv'
<1> DEFINE c == [Fresh EXCEPT !.at = "closed"]
<1>2. c \in Cohorts /\ c.at = "closed" /\ c.next = 0
  <2>1. PICK r \in Cohorts : r = Fresh /\ r.next = 0  BY FreshIs
  <2>2. "closed" \in Stages  BY DEF Stages
  <2>3. c = [r EXCEPT !.at = "closed"]  BY <2>1
  <2> HIDE DEF c
  <2> QED BY <2>1, <2>2, <2>3 DEF Cohorts
<1>3. cohorts' = [cohorts EXCEPT ![d] = c]  BY DEF Close
<1> HIDE DEF c
<1>4. 1..(c.next - 1) = {}  BY <1>2
<1>5. Sound(d, c)'  BY <1>2, <1>4 DEF Sound, Working
<1> QED BY <1>3, <1>5, CohortStep

\* Nothing is lost when a call goes wrong: the identity gets a fault, or the run closes.
LEMMA FaultSound ==
    ASSUME LInv, Grows, NEW d \in Deployment, cohorts[d].at \in Working,
           Proceed(d, Fault(d)) \/ Close(d),
           spaces' = spaces, channels' = channels,
           \A seat \in seats' \ seats : seat[1] \in channels,
           \A x \in declined' \ declined : x[1] = Package[d]
    PROVE  LInv'
<1>1. PICK key : key = Current(d)  OBVIOUS
<1>2. key \in Fault(d) /\ Fault(d) \in SUBSET Slots  BY <1>1, CurrentIs DEF Fault
<1>3. CASE Proceed(d, Fault(d))  BY <1>1, <1>2, <1>3, ProceedSound
<1>4. CASE Close(d)  BY <1>4, ClosedStep
<1> QED BY <1>3, <1>4

\* What a call adds to a set the relay keeps, and to the history.
LEMMA EndIs ==
    ASSUME NEW end \in Ends
    PROVE  /\ end.says \in {"accepted", "declined", "error", "unreadable"}
           /\ end.says = "accepted" => end.done
           /\ end.says = "declined" => ~end.done
BY DEF Ends

LEMMA OpenChannelStep ==
    ASSUME LInv, NEW d \in Deployment, OpenChannel(d)
    PROVE  LInv'
<1> DEFINE c == [at |-> "member", keys |-> Keys, next |-> 1, faults |-> {}]
<1>1. /\ cohorts' = [cohorts EXCEPT ![d] = c] \/ Close(d)
      /\ UNCHANGED <<members, named, seats, spaces, declined>>
      /\ channels' \in {channels, channels \cup {Package[d]}}
  BY DEF OpenChannel, With
<1>2. Grows  BY <1>1 DEF Grows
<1>3. c.next \in 1..Len(Roles) /\ Keys \in Seq(Slots)  BY KeysDiffer
<1>4. c \in Cohorts /\ c.at = "member" /\ c.keys = Keys /\ 1..(c.next - 1) = {}
  BY <1>3 DEF Cohorts, Stages
<1> HIDE DEF c
<1>5. Sound(d, c)'  BY <1>3, <1>4 DEF Sound
<1> QED BY <1>1, <1>2, <1>5, CohortStep, ClosedStep

LEMMA AskMemberStep ==
    ASSUME LInv, NEW d \in Deployment, AskMember(d)
    PROVE  LInv'
<1>1. /\ cohorts[d].at \in Working
      /\ UNCHANGED <<channels, members, named, seats, spaces, declined>>
  BY DEF AskMember, Working, relay
<1>2. Grows  BY <1>1 DEF Grows
<1>3. CASE Pubkey(d, Current(d)) \in members /\ Advance(d, "profile")
  <2>1. PICK key : key = Current(d)  OBVIOUS
  <2>2. Pubkey(d, key) \in members'  BY <2>1, <1>1, <1>3
  <2>3. "profile" \in Working  BY DEF Working
  <2> QED BY <2>1, <2>2, <2>3, <1>1, <1>2, <1>3, AdvanceSound
<1>4. CASE Advance(d, "invite")
  <2>1. "invite" \in Working  BY DEF Working
  <2> QED BY <2>1, <1>1, <1>2, <1>4, AdvanceSound
<1>5. CASE Close(d)  BY <1>1, <1>2, <1>5, FaultSound
<1> QED BY <1>3, <1>4, <1>5 DEF AskMember

LEMMA MintInviteStep ==
    ASSUME LInv, NEW d \in Deployment, MintInvite(d)
    PROVE  LInv'
<1>1. /\ cohorts[d].at \in Working
      /\ UNCHANGED <<channels, members, named, seats, spaces, declined>>
  BY DEF MintInvite, Working, relay
<1>2. Grows  BY <1>1 DEF Grows
<1>3. CASE Advance(d, "claim")
  <2>1. "claim" \in Working  BY DEF Working
  <2> QED BY <2>1, <1>1, <1>2, <1>3, AdvanceSound
<1>4. CASE Proceed(d, Fault(d)) \/ Close(d)  BY <1>1, <1>2, <1>4, FaultSound
<1> QED BY <1>3, <1>4 DEF MintInvite, Hears

LEMMA ClaimInviteStep ==
    ASSUME LInv, NEW d \in Deployment, ClaimInvite(d)
    PROVE  LInv'
<1>1. PICK key : key = Current(d)  OBVIOUS
<1>2. PICK end \in PlainEnds :
        /\ members' = IF end.done THEN members \cup {Pubkey(d, key)} ELSE members
        /\ Hears(d, end, Advance(d, "profile"))
  BY <1>1 DEF ClaimInvite, With
<1>3. cohorts[d].at \in Working /\ UNCHANGED <<channels, named, seats, spaces, declined>>
  BY DEF ClaimInvite, Working
<1>4. Grows  BY <1>2, <1>3 DEF Grows
<1>5. CASE Proceed(d, Fault(d)) \/ Close(d)  BY <1>3, <1>4, <1>5, FaultSound
<1>6. CASE end.says \in {"accepted", "declined"} /\ Advance(d, "profile")
  <2>1. Pubkey(d, key) \in members'  BY <1>2, <1>6, EndIs DEF PlainEnds
  <2>2. "profile" \in Working  BY DEF Working
  <2> QED BY <2>1, <2>2, <1>1, <1>3, <1>4, <1>6, AdvanceSound
<1> QED BY <1>2, <1>5, <1>6 DEF Hears

LEMMA SetProfileStep ==
    ASSUME LInv, NEW d \in Deployment, SetProfile(d)
    PROVE  LInv'
<1>1. PICK key : key = Current(d)  OBVIOUS
<1>2. PICK end \in Ends :
        /\ named' = IF end.done THEN named \cup {Pubkey(d, key)} ELSE named
        /\ Hears(d, end, Advance(d, "seat"))
        /\ declined' = IF end.says = "declined"
                         THEN declined \cup {<<Package[d], Pubkey(d, key)>>} ELSE declined
  BY <1>1 DEF SetProfile, With, Unread, Seat
<1>3. /\ cohorts[d].at = "profile" /\ cohorts[d].at \in Working
      /\ UNCHANGED <<channels, members, seats, spaces>>
  BY DEF SetProfile, Working
<1>4. Grows /\ \A x \in declined' \ declined : x[1] = Package[d]
  BY <1>2, <1>3 DEF Grows
<1>5. CASE Proceed(d, Fault(d)) \/ Close(d)  BY <1>3, <1>4, <1>5, FaultSound
<1>6. CASE end.says \in {"accepted", "declined"} /\ Advance(d, "seat")
  <2>1. Named(d, key)'  BY <1>2, <1>6, EndIs DEF Named
  <2>2. Pubkey(d, key) \in members'
    BY <1>1, <1>3, CurrentIs DEF LInv, Sound
  <2>3. "seat" \in Working  BY DEF Working
  <2> QED BY <2>1, <2>2, <2>3, <1>1, <1>3, <1>4, <1>6, AdvanceSound
<1> QED BY <1>2, <1>5, <1>6 DEF Hears

LEMMA AddMemberStep ==
    ASSUME LInv, NEW d \in Deployment, AddMember(d)
    PROVE  LInv'
<1>1. PICK key : key = Current(d)  OBVIOUS
<1>2. PICK end \in Ends :
        /\ end.done => Package[d] \in channels
        /\ seats' = IF end.done THEN seats \cup {<<Package[d], Pubkey(d, key)>>} ELSE seats
        /\ Hears(d, end, Proceed(d, {}))
        /\ declined' = IF end.says = "declined"
                         THEN declined \cup {<<Package[d], Pubkey(d, key)>>} ELSE declined
  BY <1>1 DEF AddMember, With, Unread, Seat
<1>3. /\ cohorts[d].at = "seat" /\ cohorts[d].at \in Working
      /\ UNCHANGED <<channels, members, named, spaces>>
  BY DEF AddMember, Working
<1>4. Grows /\ \A x \in declined' \ declined : x[1] = Package[d]
  BY <1>2, <1>3 DEF Grows
<1>5. \A seat \in seats' \ seats : seat[1] \in channels  BY <1>2
<1>6. CASE Proceed(d, Fault(d)) \/ Close(d)  BY <1>3, <1>4, <1>5, <1>6, FaultSound
<1>7. CASE end.says \in {"accepted", "declined"} /\ Proceed(d, {})
  <2>1. Pubkey(d, key) \in members /\ Named(d, key)
    BY <1>1, <1>3, CurrentIs DEF LInv, Sound
  <2>2. {<<Package[d], Pubkey(d, key)>>} \subseteq seats' \cup declined'
    BY <1>2, <1>7, EndIs
  <2>3. Settled(d, key)'  BY <2>1, <2>2, <1>3, <1>4 DEF Settled, Named, Grows
  <2>4. {} \in SUBSET Slots  OBVIOUS
  <2> QED BY <2>3, <2>4, <1>1, <1>3, <1>4, <1>5, <1>7, ProceedSound
<1> QED BY <1>2, <1>6, <1>7 DEF Hears

LEMMA AnnounceStep ==
    ASSUME LInv, NEW d \in Deployment, Announce(d)
    PROVE  LInv'
<1>1. cohorts[d].at = "announce" /\ UNCHANGED <<channels, members, named, seats, spaces>>
  BY DEF Announce, relay
<1>2. PICK end \in Ends :
        /\ end.done => Package[d] \in channels
        /\ \/ end.says \in {"accepted", "declined"} /\ Advance(d, "open")
           \/ Close(d)
        /\ declined' = IF end.says = "declined" THEN declined \cup {<<Package[d], d>>}
                       ELSE declined
  BY DEF Announce, Unread
<1>3. Grows /\ \A x \in declined' \ declined : x[1] = Package[d]
  BY <1>1, <1>2 DEF Grows
<1>4. CASE end.says \in {"accepted", "declined"} /\ Advance(d, "open")
  <2>1. "open" \in Stages  BY DEF Stages
  <2>2. PICK c \in Cohorts : /\ cohorts' = [cohorts EXCEPT ![d] = c]
                             /\ c.at = "open" /\ c.keys = cohorts[d].keys
                             /\ c.next = cohorts[d].next /\ c.faults = cohorts[d].faults
    BY <2>1, <1>4, AdvanceIs
  <2>3. /\ c.keys = Keys /\ c.next = Len(Roles) + 1
        /\ \A k \in 1..(c.next - 1) : c.keys[k] \in c.faults \/ Settled(d, c.keys[k])
    BY <2>2, <1>1 DEF LInv, Sound
  <2>4. \A k \in 1..(c.next - 1) : c.keys[k] \in c.faults \/ Settled(d, c.keys[k])'
    BY <2>3, <1>3 DEF Settled, Grows
  <2>5. Package[d] \in channels' \/ <<Package[d], d>> \in declined'
    BY <1>1, <1>2, <1>4, EndIs
  <2>6. Sound(d, c)'
    BY <2>2, <2>3, <2>4, <2>5 DEF Sound, Working
  <2> QED BY <2>2, <2>6, <1>1, <1>3, CohortStep
<1>5. CASE Close(d)  BY <1>1, <1>3, <1>5, ClosedStep
<1> QED BY <1>2, <1>4, <1>5

(***************************************************************************)
(* The standing channels.                                                  *)
(***************************************************************************)
\* Whatever a call of the check finds, only a channel the operator is in or was
\* declined a seat in is found in order.
LEMMA FindsSound ==
    ASSUME LInv, Grows, NEW s \in Space, NEW end, NEW found, Finds(s, end, found),
           found \in {"asserted", "fine", "not added"},
           end.says # "unreadable" /\ found = "fine" => <<s, Operator>> \in seats' \cup declined'
    PROVE  SpacesInv'
<1>1. spaces \in [Space -> {"unchecked", "asserted", "fine", "not added"}]
  BY DEF LInv, SpacesInv
<1>2. CASE end.says = "unreadable"
  BY <1>2 DEF Finds, SpacesInv
<1>3. CASE end.says # "unreadable"
  <2>1. spaces' = [spaces EXCEPT ![s] = found]  BY <1>3 DEF Finds
  <2>2. spaces' \in [Space -> {"unchecked", "asserted", "fine", "not added"}]
    BY <1>1, <2>1
  <2>3. ASSUME NEW t \in Space, spaces'[t] = "fine"
        PROVE  <<t, Operator>> \in seats' \cup declined'
    <3>1. CASE t = s  BY <3>1, <1>1, <1>3, <2>1, <2>3
    <3>2. CASE t # s  BY <3>2, <1>1, <2>1, <2>3 DEF LInv, SpacesInv, Grows
    <3> QED BY <3>1, <3>2
  <2> QED BY <2>2, <2>3 DEF SpacesInv
<1> QED BY <1>2, <1>3

LEMMA SpaceSteps ==
    ASSUME LInv, NEW s \in Space, AssertSpace(s) \/ AddOperator(s)
    PROVE  LInv'
<1>1. /\ UNCHANGED <<members, named, cohorts>>
      /\ channels' \in {channels, channels \cup {s}}
      /\ seats' \in {seats, seats \cup {<<s, Operator>>}}
      /\ seats' # seats => s \in channels
      /\ declined' \in {declined, declined \cup {<<s, Operator>>}}
  BY DEF AssertSpace, AddOperator, With, Unread
<1>2. Grows  BY <1>1 DEF Grows
<1>3. \A d \in Deployment : Sound(d, cohorts[d])'
  BY <1>1, <1>2 DEF LInv, Sound, Settled, Named, Grows
<1>4. channels' \subseteq {Package[d] : d \in Deployment} \cup Space
  BY <1>1 DEF LInv
<1>5. \A seat \in seats' : seat[1] \in channels'
  BY <1>1 DEF LInv
<1>6. SpacesInv'
  <2>1. CASE AssertSpace(s)
    <3>1. PICK end \in Ends : Finds(s, end, "asserted")  BY <2>1 DEF AssertSpace
    <3> QED BY <1>2, <3>1, FindsSound
  <2>2. CASE AddOperator(s)
    <3>1. PICK end \in Ends :
            /\ seats' = IF end.done THEN seats \cup {<<s, Operator>>} ELSE seats
            /\ Finds(s, end, IF end.says = "error" THEN "not added" ELSE "fine")
            /\ declined' = IF end.says = "declined" THEN declined \cup {<<s, Operator>>}
                           ELSE declined
      BY <2>2 DEF AddOperator, With, Unread
    <3> DEFINE found == IF end.says = "error" THEN "not added" ELSE "fine"
    <3>2. found \in {"asserted", "fine", "not added"}  OBVIOUS
    <3>3. end.says # "unreadable" /\ found = "fine" => <<s, Operator>> \in seats' \cup declined'
      BY <3>1, EndIs
    <3>4. Finds(s, end, found)  BY <3>1
    <3> HIDE DEF found
    <3> QED BY <1>2, <3>2, <3>3, <3>4, FindsSound
  <2> QED BY <2>1, <2>2
<1>7. \A x \in declined' : x[1] \in {Package[d] : d \in Deployment} \cup Space
  BY <1>1 DEF LInv
<1> QED BY <1>1, <1>3, <1>4, <1>5, <1>6, <1>7 DEF LInv

(***************************************************************************)
(* The invariant, and what it says.                                        *)
(***************************************************************************)
LEMMA LInvInit == RelayInit => LInv
<1> SUFFICES ASSUME RelayInit PROVE LInv
  OBVIOUS
<1>1. Fresh \in Cohorts /\ Fresh.at = "out" /\ Fresh.next = 0
  BY FreshIs
<1>2. 1..(Fresh.next - 1) = {}  BY <1>1
<1>3. \A d : Sound(d, Fresh)  BY <1>1, <1>2 DEF Sound, Working
<1>4. \A d \in Deployment : cohorts[d] = Fresh  BY DEF RelayInit
<1>5. cohorts \in [Deployment -> Cohorts]  BY <1>1 DEF RelayInit
<1>6. SpacesInv  BY DEF RelayInit, SpacesInv
<1> QED BY <1>3, <1>4, <1>5, <1>6 DEF RelayInit, LInv

LEMMA LInvStep == LInv /\ [RelayNext]_lvars => LInv'
<1> SUFFICES ASSUME LInv, [RelayNext]_lvars PROVE LInv'
  OBVIOUS
<1>1. ASSUME NEW d \in Deployment, KillRun(d) PROVE LInv'
  <2>1. Close(d) /\ UNCHANGED <<channels, members, named, seats, spaces, declined>>
    BY <1>1 DEF KillRun, relay
  <2>2. Grows  BY <2>1 DEF Grows
  <2> QED BY <2>1, <2>2, ClosedStep
<1>2. ASSUME NEW d \in Deployment,
             \/ OpenChannel(d) \/ AskMember(d) \/ MintInvite(d) \/ ClaimInvite(d)
             \/ SetProfile(d) \/ AddMember(d) \/ Announce(d)
      PROVE  LInv'
  BY <1>2, OpenChannelStep, AskMemberStep, MintInviteStep, ClaimInviteStep,
     SetProfileStep, AddMemberStep, AnnounceStep
<1>3. ASSUME NEW s \in Space, AssertSpace(s) \/ AddOperator(s) PROVE LInv'
  BY <1>3, SpaceSteps
<1>4. CASE UNCHANGED lvars
  <2>1. UNCHANGED <<channels, members, named, seats, cohorts, spaces, declined>>
    BY <1>4 DEF lvars, relay
  <2>2. \A d \in Deployment : Sound(d, cohorts[d])'
    BY <2>1 DEF LInv, Sound, Settled, Named
  <2> QED BY <2>1, <2>2 DEF LInv, SpacesInv
<1> QED BY <1>1, <1>2, <1>3, <1>4 DEF RelayNext, Deploying, Checking

LEMMA RelayInvariant == RelaySpec => []LInv
BY LInvInit, LInvStep, PTL DEF RelaySpec

\* The types, and that the relay seats only in channels it has.
THEOREM RelayTypeCorrect == RelaySpec => []RelayTypeOK
<1>1. ASSUME LInv, NEW d \in Deployment PROVE cohorts[d].next \in 0..Len(Roles) + 1
  <2>1. Sound(d, cohorts[d]) /\ cohorts[d].at \in Stages
    BY <1>1 DEF LInv, Sound, Cohorts
  <2>2. cohorts[d].next \in {0, Len(Roles) + 1} \/ cohorts[d].next \in 1..Len(Roles)
    BY <2>1 DEF Sound, Working, Stages
  <2>3. Len(Roles) \in Nat \ {0}  BY KeysDiffer
  <2> QED BY <2>2, <2>3
<1>2. LInv => RelayTypeOK
  BY <1>1 DEF LInv, SpacesInv, Cohorts, Stages, RelayTypeOK
<1> QED BY <1>2, RelayInvariant, PTL

\* No BuzzError is lost: a run that has its channel has an agent for every slot, and each
\* without a fault is admitted, and named and seated unless the relay declined that in an
\* answer that raises nothing; a channel found in order is one the operator is in or was
\* declined a seat in.
THEOREM ErrorsAreNeverSilent == RelaySpec => []NoErrorIsSilent
<1>1. ASSUME LInv, NEW d \in Deployment, cohorts[d].at = "open"
      PROVE  (Package[d] \in channels \/ <<Package[d], d>> \in declined) /\ Accounted(d)
  <2> DEFINE c == cohorts[d]
  <2>1. /\ c.keys = Keys /\ c.next = Len(Roles) + 1
        /\ Package[d] \in channels \/ <<Package[d], d>> \in declined
        /\ \A k \in 1..(c.next - 1) : c.keys[k] \in c.faults \/ Settled(d, c.keys[k])
    BY <1>1 DEF LInv, Sound
  <2>2. /\ Len(Roles) \in Nat /\ DOMAIN Keys = 1..Len(Roles)
        /\ Cardinality({Keys[k] : k \in DOMAIN Keys}) = Len(Roles)
    BY KeysDiffer
  <2>3. \A k \in DOMAIN Keys : Keys[k] \in c.faults \/ Settled(d, Keys[k])
    BY <2>1, <2>2
  <2> HIDE DEF c
  <2>4. cohorts[d] = c  BY DEF c
  <2> QED BY <2>1, <2>2, <2>3, <2>4 DEF Accounted, Settled
<1>2. LInv => NoErrorIsSilent
  BY <1>1 DEF LInv, SpacesInv, NoErrorIsSilent
<1> QED BY <1>2, RelayInvariant, PTL

-----------------------------------------------------------------------------
(***************************************************************************)
(* The two together.  They share no variable, so a behaviour of the whole  *)
(* is a behaviour of each.                                                 *)
(***************************************************************************)
LEMMA PartsRun == CollaborationSpec => MembershipSpec /\ RelaySpec
<1>1. CollaborationInit => MembershipInit /\ RelayInit
  BY DEF CollaborationInit
<1>2. [CollaborationNext]_<<mvars, lvars, part>> => [MembershipNext]_mvars /\ [RelayNext]_lvars
  BY DEF CollaborationNext, RelayNext
<1> QED BY <1>1, <1>2, PTL DEF CollaborationSpec, MembershipSpec, RelaySpec

\* Neither part leaves its types when the other one steps.
THEOREM CollaborationTypeCorrect == CollaborationSpec => []CollaborationTypeOK
<1>1. MembershipTypeOK /\ RelayTypeOK => CollaborationTypeOK
  BY DEF CollaborationTypeOK
<1> QED BY <1>1, PartsRun, MembershipTypeCorrect, RelayTypeCorrect, PTL
=============================================================================
