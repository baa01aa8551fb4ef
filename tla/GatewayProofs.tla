---------------------------- MODULE GatewayProofs ----------------------------
(***************************************************************************)
(* What the gateway guarantees for every table of principals, every rate   *)
(* limit, window and time to live, every sequence of messages and          *)
(* confirmations, and every course of the clock.                           *)
(***************************************************************************)
EXTENDS Gateway, FiniteSetTheorems, TLAPS

(***************************************************************************)
(* The inductive invariant.                                                *)
(***************************************************************************)
Outcomes == {"REFUSED", "AUTHORISED", "AWAITING_CONFIRMATION", "CONFIRMED"}

AuditLine ==
    [actor : Actor, outcome : Outcomes,
     reason : Uncounted \cup Counted \cup Unconfirmed \cup {None},
     action : Actions \cup {None}, nonce : Nat \cup {None}, at : Nat]

Awaiting == {i \in Lines : audit[i].outcome = "AWAITING_CONFIRMATION"}
Tried == {audit[i].nonce : i \in {j \in Lines : audit[j].outcome # "AWAITING_CONFIRMATION"}}

GType ==
    /\ now \in Nat
    /\ principals \in Grants
    /\ recent \in [Actor -> SUBSET Lines]
    /\ audit \in Seq(AuditLine)

\* No line is newer than the clock, and a nonce is tried after it is issued.
NonceOf(line, i) ==
    /\ IF line.outcome = "AWAITING_CONFIRMATION" THEN line.nonce = i
       ELSE line.nonce \in 0..(i - 1) \cup {None}
    /\ line.outcome = "CONFIRMED" => line.nonce \in 1..(i - 1)
LinesInv ==
    \A i \in Lines : audit[i].at <= now /\ NonceOf(audit[i], i)

\* What waits is what was issued and not tried, as it was issued.
PendingInv ==
    /\ DOMAIN pending = Awaiting \ Tried
    /\ \A n \in DOMAIN pending : /\ pending[n].actor = audit[n].actor
                                 /\ pending[n].action = audit[n].action
                                 /\ pending[n].at = audit[n].at

\* The window of an actor is his counted lines of the last WindowSeconds, and there
\* are never more than RateLimit of them.
WindowInv ==
    \A a \in Actor :
        /\ recent[a] \subseteq CountedLines(a)
        /\ \A i \in CountedLines(a) : now - audit[i].at < WindowSeconds => i \in recent[a]
        /\ Cardinality(Window(a)) <= RateLimit

GInv ==
    /\ GType /\ LinesInv /\ PendingInv /\ WindowInv
    /\ RateBounded /\ RateRefusalEarned /\ ConfirmedOnceByItsRequester

(***************************************************************************)
(* The line a message is answered with.                                    *)
(***************************************************************************)
LEMMA RefusalIs ==
    ASSUME NEW a, NEW text, NEW forwarded \in BOOLEAN
    PROVE  /\ Refusal(a, text, forwarded) \in Uncounted \cup Counted \cup {None}
           /\ Refusal(a, text, forwarded) = "rate" => Full(a)
           /\ Refusal(a, text, forwarded) \notin Uncounted => ~Full(a)
           /\ Refusal(a, text, forwarded) = None => text.word \in Actions
BY GrantAssumption DEF Refusal, Uncounted, Counted

LEMMA VerdictIs ==
    ASSUME GType, NEW a \in Actor, NEW text, NEW forwarded \in BOOLEAN, NEW line,
           line = Verdict(a, text, forwarded)
    PROVE  /\ line \in AuditLine /\ line.actor = a /\ line.at = now
           /\ line.reason \notin Unconfirmed
           /\ line.outcome \in {"REFUSED", "AUTHORISED", "AWAITING_CONFIRMATION"}
           /\ line.outcome = "REFUSED" <=> line.reason # None
           /\ line.reason = "rate" => Full(a)
           /\ line.reason \notin Uncounted => ~Full(a)
           /\ line.nonce = IF line.outcome = "AWAITING_CONFIRMATION"
                             THEN Len(audit) + 1 ELSE None
<1> DEFINE reason == Refusal(a, text, forwarded)
<1>1. /\ reason \in Uncounted \cup Counted \cup {None}
      /\ reason = "rate" => Full(a)
      /\ reason \notin Uncounted => ~Full(a)
      /\ reason = None => text.word \in Actions
  BY RefusalIs
<1>2. now \in Nat /\ Len(audit) + 1 \in Nat  BY DEF GType
<1>3. line = IF reason # None THEN Line(a, "REFUSED", reason, None, None)
             ELSE IF text.word \in Danger
               THEN Line(a, "AWAITING_CONFIRMATION", None, text.word, Len(audit) + 1)
               ELSE Line(a, "AUTHORISED", None, text.word, None)
  BY DEF Verdict
<1>4. None \notin Uncounted \cup Counted \cup Unconfirmed  BY GrantAssumption
<1>5. (Uncounted \cup Counted) \cap Unconfirmed = {}
  BY DEF Uncounted, Counted, Unconfirmed
<1> HIDE DEF reason
<1> QED BY <1>1, <1>2, <1>3, <1>4, <1>5 DEF Line, AuditLine, Outcomes

(***************************************************************************)
(* One more line in the audit file.                                        *)
(***************************************************************************)
LEMMA Appended ==
    ASSUME GType, NEW line \in AuditLine, audit' = Append(audit, line)
    PROVE  /\ audit' \in Seq(AuditLine) /\ audit'[Len(audit) + 1] = line
           /\ Len(audit) \in Nat /\ Len(audit') = Len(audit) + 1
           /\ \A i \in Lines : audit'[i] = audit[i] /\ audit[i] \in AuditLine
           /\ Lines' = Lines \cup {Len(audit) + 1} /\ Len(audit) + 1 \notin Lines
           /\ Lines \subseteq Nat /\ IsFiniteSet(Lines) /\ IsFiniteSet(Lines')
<1>1. audit \in Seq(AuditLine) /\ Len(audit) \in Nat  BY DEF GType
<1>2. IsFiniteSet(1..Len(audit)) /\ IsFiniteSet(1..(Len(audit) + 1))
  BY <1>1, FS_Interval
<1>3. Len(audit') = Len(audit) + 1 /\ audit' \in Seq(AuditLine)  BY <1>1
<1> QED BY <1>1, <1>2, <1>3 DEF Lines

\* The lines of an audit file that passed the rate check, those of them that the
\* limit of line i is about, and those that a refusal in line i is about.
Passed(line) ==
    line.outcome \in {"AUTHORISED", "AWAITING_CONFIRMATION"} \/ line.reason \in Counted
CountedOf(file, a) ==
    {i \in 1..Len(file) : file[i].actor = a /\ Passed(file[i])}
Near(file, i) ==
    {j \in CountedOf(file, file[i].actor) :
        file[j].at <= file[i].at /\ file[i].at - file[j].at < WindowSeconds}
Before(file, i) ==
    {j \in CountedOf(file, file[i].actor) :
        j < i /\ file[i].at - file[j].at < WindowSeconds}

\* The same on the present file and on the next.
LEMMA OfTheFile ==
    /\ \A a : CountedLines(a) = CountedOf(audit, a)
    /\ \A a : CountedLines(a)' = CountedOf(audit', a)
    /\ RateBounded <=> \A i \in Lines : Cardinality(Near(audit, i)) <= RateLimit
    /\ RateBounded' <=> \A i \in Lines' : Cardinality(Near(audit', i)) <= RateLimit
    /\ RateRefusalEarned <=>
         \A i \in Lines : audit[i].reason = "rate" => Cardinality(Before(audit, i)) = RateLimit
    /\ RateRefusalEarned' <=>
         \A i \in Lines' : audit'[i].reason = "rate" => Cardinality(Before(audit', i)) = RateLimit
<1>1. /\ \A a : CountedLines(a) = CountedOf(audit, a)
      /\ \A a : CountedLines(a)' = CountedOf(audit', a)
  BY DEF CountedLines, CountedOf, Passed, Lines
<1>2. RateBounded <=> \A i \in Lines : Cardinality(Near(audit, i)) <= RateLimit
  BY <1>1 DEF RateBounded, Near
<1>3. RateBounded' <=> \A i \in Lines' : Cardinality(Near(audit', i)) <= RateLimit
  BY DEF RateBounded, Near, CountedLines, CountedOf, Passed, Lines
<1>4. RateRefusalEarned <=>
        \A i \in Lines : audit[i].reason = "rate" => Cardinality(Before(audit, i)) = RateLimit
  BY <1>1 DEF RateRefusalEarned, Before
<1>5. RateRefusalEarned' <=>
        \A i \in Lines' : audit'[i].reason = "rate" => Cardinality(Before(audit', i)) = RateLimit
  BY DEF RateRefusalEarned, Before, CountedLines, CountedOf, Passed, Lines
<1> QED BY <1>1, <1>2, <1>3, <1>4, <1>5

LEMMA Recounted ==
    ASSUME GType, NEW line \in AuditLine, audit' = Append(audit, line), NEW a
    PROVE  CountedOf(audit', a) = CountedOf(audit, a) \cup
               (IF line.actor = a /\ Passed(line) THEN {Len(audit) + 1} ELSE {})
<1>1. /\ \A i \in Lines : audit'[i] = audit[i]
      /\ Lines' = Lines \cup {Len(audit) + 1} /\ Len(audit) + 1 \notin Lines
      /\ audit'[Len(audit) + 1] = line
  BY Appended
<1> QED BY <1>1 DEF CountedOf, Lines

LEMMA Retried ==
    ASSUME GType, NEW line \in AuditLine, audit' = Append(audit, line)
    PROVE  /\ Awaiting' = Awaiting \cup
                (IF line.outcome = "AWAITING_CONFIRMATION" THEN {Len(audit) + 1} ELSE {})
           /\ Tried' = Tried \cup
                (IF line.outcome = "AWAITING_CONFIRMATION" THEN {} ELSE {line.nonce})
<1> DEFINE n == Len(audit) + 1
<1>1. /\ \A i \in Lines : audit'[i] = audit[i]
      /\ Lines' = Lines \cup {n} /\ n \notin Lines /\ audit'[n] = line
  BY Appended
<1> HIDE DEF n
<1>2. Awaiting' = {i \in Lines' : audit'[i].outcome = "AWAITING_CONFIRMATION"}
  BY DEF Awaiting
<1>3. Awaiting' = Awaiting \cup
                (IF line.outcome = "AWAITING_CONFIRMATION" THEN {n} ELSE {})
  BY <1>1, <1>2 DEF Awaiting
<1>4. Tried' = {audit'[i].nonce : i \in {j \in Lines' : audit'[j].outcome # "AWAITING_CONFIRMATION"}}
  BY DEF Tried
<1>5. ASSUME NEW x PROVE x \in Tried' <=> \/ x \in Tried
                                          \/ /\ line.outcome # "AWAITING_CONFIRMATION"
                                             /\ x = line.nonce
  <2>1. x \in Tried' <=> \E i \in Lines' : /\ audit'[i].outcome # "AWAITING_CONFIRMATION"
                                          /\ x = audit'[i].nonce
    BY <1>4
  <2>2. x \in Tried <=> \E i \in Lines : /\ audit[i].outcome # "AWAITING_CONFIRMATION"
                                          /\ x = audit[i].nonce
    BY DEF Tried
  <2> QED BY <2>1, <2>2, <1>1
<1>6. Tried' = Tried \cup
                (IF line.outcome = "AWAITING_CONFIRMATION" THEN {} ELSE {line.nonce})
  BY <1>5
<1> QED BY <1>3, <1>6 DEF n

\* What was confirmed once and by whom does not change with what comes after.
LEMMA ConfirmedStay ==
    ASSUME GInv, NEW line \in AuditLine, audit' = Append(audit, line),
           line.outcome # "CONFIRMED"
    PROVE  ConfirmedOnceByItsRequester'
<1> DEFINE n == Len(audit) + 1
<1>1. /\ \A i \in Lines : audit'[i] = audit[i]
      /\ Lines' = Lines \cup {n} /\ n \notin Lines /\ audit'[n] = line
  BY Appended DEF GInv
<1> HIDE DEF n
<1> SUFFICES ASSUME NEW i \in Lines', audit'[i].outcome = "CONFIRMED"
             PROVE  LET m == audit'[i].nonce
                    IN  /\ audit'[m].outcome = "AWAITING_CONFIRMATION"
                        /\ audit'[m].actor = audit'[i].actor
                        /\ audit'[m].action = audit'[i].action
                        /\ audit'[i].at - audit'[m].at <= TTL
                        /\ \A j \in (m + 1)..(i - 1) : audit'[j].nonce # m
  BY DEF ConfirmedOnceByItsRequester
<1>2. i \in Lines /\ audit'[i] = audit[i]  BY <1>1
<1> DEFINE m == audit[i].nonce
<1>3. m \in 1..(i - 1)  BY <1>2 DEF GInv, LinesInv, NonceOf
<1>4. m \in Lines /\ (m + 1)..(i - 1) \subseteq Lines
  <2>1. Len(audit) \in Nat  BY DEF GInv, GType
  <2> HIDE DEF m
  <2> QED BY <2>1, <1>2, <1>3 DEF Lines
<1>5. /\ audit[m].outcome = "AWAITING_CONFIRMATION"
      /\ audit[m].actor = audit[i].actor
      /\ audit[m].action = audit[i].action
      /\ audit[i].at - audit[m].at <= TTL
      /\ \A j \in (m + 1)..(i - 1) : audit[j].nonce # m
  BY <1>2 DEF GInv, ConfirmedOnceByItsRequester
<1> QED BY <1>1, <1>2, <1>4, <1>5

\* Whoever adds a line, the limit holds in every window if it holds in the present
\* one, and a refusal for the rate is the count of a full window.
LEMMA RatesKept ==
    ASSUME GInv, NEW line \in AuditLine, audit' = Append(audit, line), now' = now,
           line.at = now, line.reason = "rate" => Full(line.actor),
           LinesInv', WindowInv', GType'
    PROVE  RateBounded' /\ RateRefusalEarned'
<1> DEFINE n == Len(audit) + 1
<1>1. /\ \A i \in Lines : audit'[i] = audit[i] /\ audit[i] \in AuditLine
      /\ Lines' = Lines \cup {n} /\ n \notin Lines /\ Lines \subseteq Nat /\ n \in Nat
      /\ audit'[n] = line /\ ~(n < n) /\ \A i \in Lines : i < n
      /\ IsFiniteSet(Lines)
  BY Appended DEF GInv, Lines
<1>2. now \in Nat /\ WindowSeconds \in Nat \ {0} /\ RateLimit \in Nat \ {0}
  BY GatewayAssumption DEF GInv, GType
<1>3. \A a : CountedOf(audit', a) = CountedOf(audit, a) \cup
                 (IF line.actor = a /\ Passed(line) THEN {n} ELSE {})
  BY Recounted DEF GInv
<1>4. \A a : CountedOf(audit, a) \subseteq Lines /\ CountedOf(audit', a) \subseteq Lines'
  BY DEF CountedOf, Lines
<1>5. \A i \in Lines' : audit'[i] \in AuditLine /\ audit'[i].at <= now
  BY <1>1 DEF GType, LinesInv
<1>6. \A a \in Actor : /\ Window(a) = {j \in CountedOf(audit, a) : now - audit[j].at < WindowSeconds}
                       /\ Cardinality(Window(a)) <= RateLimit
  BY OfTheFile DEF GInv, WindowInv, Window
<1>7. \A a \in Actor :
         Cardinality({j \in CountedOf(audit', a) : now - audit'[j].at < WindowSeconds}) <= RateLimit
  <2> TAKE a \in Actor
  <2>1. /\ recent'[a] \subseteq CountedOf(audit', a)
        /\ \A i \in CountedOf(audit', a) : now - audit'[i].at < WindowSeconds => i \in recent'[a]
        /\ Cardinality({i \in recent'[a] : now - audit'[i].at < WindowSeconds}) <= RateLimit
    BY OfTheFile DEF WindowInv, Window
  <2>2. {i \in recent'[a] : now - audit'[i].at < WindowSeconds} =
          {j \in CountedOf(audit', a) : now - audit'[j].at < WindowSeconds}
    BY <2>1
  <2> QED BY <2>1, <2>2
<1> HIDE DEF n
<1>8. ASSUME NEW i \in Lines'
      PROVE  Cardinality(Near(audit', i)) <= RateLimit
  <2>0. audit'[i].actor \in Actor /\ audit'[i].at \in Nat  BY <1>5 DEF AuditLine
  <2>1. CASE audit'[i].at = now
    <3>1. Near(audit', i) = {j \in CountedOf(audit', audit'[i].actor) : now - audit'[j].at < WindowSeconds}
      BY <2>1, <1>4, <1>5 DEF Near
    <3> QED BY <3>1, <2>0, <1>7
  <2>2. CASE audit'[i].at # now
    <3> DEFINE b == audit'[i].actor
    <3>0. audit'[n].at = now  BY <1>1
    <3>1. i \in Lines /\ audit[i] = audit'[i] /\ audit[i].at < now
      <4>1. i # n  BY <3>0, <2>2
      <4>2. i \in Lines /\ audit[i] = audit'[i]  BY <4>1, <1>1
      <4>3. \A t \in Nat : t <= now /\ t # now => t < now  BY <1>2
      <4> QED BY <4>2, <4>3, <1>5, <2>0, <2>2
    <3>2. \A j \in CountedOf(audit', b) :
             audit'[j].at <= audit[i].at => j \in CountedOf(audit, b)
      <4>1. \A t \in Nat : t < now => ~(now <= t)  BY <1>2
      <4>2. ~(audit'[n].at <= audit[i].at)  BY <4>1, <3>0, <3>1, <2>0
      <4> QED BY <4>2, <1>3
    <3>3. \A j \in CountedOf(audit, b) : j \in CountedOf(audit', b) /\ audit'[j] = audit[j]
      BY <1>1, <1>3, <1>4
    <3>4. Near(audit', i) = Near(audit, i)
      <4>1. Near(audit', i) = {j \in CountedOf(audit', b) :
              audit'[j].at <= audit[i].at /\ audit[i].at - audit'[j].at < WindowSeconds}
        BY <3>1 DEF Near
      <4>2. Near(audit, i) = {j \in CountedOf(audit, b) :
              audit[j].at <= audit[i].at /\ audit[i].at - audit[j].at < WindowSeconds}
        BY <3>1 DEF Near
      <4> HIDE DEF b
      <4> QED BY <4>1, <4>2, <3>2, <3>3
    <3>5. Cardinality(Near(audit, i)) <= RateLimit
      BY <3>1, OfTheFile DEF GInv
    <3> QED BY <3>4, <3>5
  <2> QED BY <2>1, <2>2
<1>9. ASSUME NEW i \in Lines', audit'[i].reason = "rate"
      PROVE  Cardinality(Before(audit', i)) = RateLimit
  <2>0. audit'[i].actor \in Actor /\ audit'[i].at \in Nat  BY <1>5 DEF AuditLine
  <2>1. CASE i = n
    <3> DEFINE a == line.actor
    <3>1. audit'[i].actor = a /\ audit'[i].at = now /\ Full(a)
      BY <1>1, <1>9, <2>1
    <3>2. Before(audit', i) = Window(a)
      <4>1. Before(audit', i) = {j \in CountedOf(audit', a) :
                                   j < n /\ now - audit'[j].at < WindowSeconds}
        BY <3>1, <2>1 DEF Before
      <4>2. \A j \in CountedOf(audit', a) : j < n <=> j \in CountedOf(audit, a)
        <5>1. \A j \in CountedOf(audit, a) : j < n  BY <1>1, <1>4
        <5> QED BY <5>1, <1>1, <1>3
      <4>3. CountedOf(audit, a) \subseteq CountedOf(audit', a)  BY <1>3
      <4>4. Window(a) = {j \in CountedOf(audit, a) : now - audit[j].at < WindowSeconds}
        BY <1>6, <2>0, <3>1
      <4>5. \A j \in CountedOf(audit, a) : audit'[j] = audit[j]  BY <1>1, <1>4
      <4> HIDE DEF a
      <4> QED BY <4>1, <4>2, <4>3, <4>4, <4>5
    <3>3. Cardinality(Window(a)) <= RateLimit /\ Cardinality(Window(a)) >= RateLimit
      BY <2>0, <3>1, <1>6 DEF Full
    <3>4. Cardinality(Window(a)) \in Nat
      <4>1. Window(a) \subseteq Lines  BY <1>4, <1>6, <2>0, <3>1
      <4> QED BY <4>1, <1>1, FS_Subset, FS_CardinalityType
    <3> QED BY <3>2, <3>3, <3>4, <1>2
  <2>2. CASE i # n
    <3> DEFINE b == audit'[i].actor
    <3>1. i \in Lines /\ audit[i] = audit'[i] /\ i \in Nat /\ i < n  BY <1>1, <2>2
    <3>2. \A j \in CountedOf(audit', b) : j < i => j \in CountedOf(audit, b)
      <4>1. ~(n < i)  BY <3>1, <1>1
      <4> QED BY <4>1, <1>3
    <3>3. \A j \in CountedOf(audit, b) : j \in CountedOf(audit', b) /\ audit'[j] = audit[j]
      BY <1>1, <1>3, <1>4
    <3>4. Before(audit', i) = Before(audit, i)
      <4>1. Before(audit', i) = {j \in CountedOf(audit', b) :
              j < i /\ audit[i].at - audit'[j].at < WindowSeconds}
        BY <3>1 DEF Before
      <4>2. Before(audit, i) = {j \in CountedOf(audit, b) :
              j < i /\ audit[i].at - audit[j].at < WindowSeconds}
        BY <3>1 DEF Before
      <4> HIDE DEF b
      <4> QED BY <4>1, <4>2, <3>2, <3>3
    <3>5. Cardinality(Before(audit, i)) = RateLimit
      BY <3>1, <1>9, OfTheFile DEF GInv
    <3> QED BY <3>4, <3>5
  <2> QED BY <2>1, <2>2
<1> QED BY <1>8, <1>9, OfTheFile

(***************************************************************************)
(* translate()                                                             *)
(***************************************************************************)
LEMMA ReceiveKeeps ==
    ASSUME GInv, NEW a \in Actor, NEW text \in Text, NEW forwarded \in BOOLEAN,
           Receive(a, text, forwarded)
    PROVE  GInv'
<1> DEFINE n == Len(audit) + 1
           line == Verdict(a, text, forwarded)
           counted == IF line.reason \in Uncounted THEN {} ELSE {n}
<1>1. /\ line \in AuditLine /\ line.actor = a /\ line.at = now
      /\ line.reason \notin Unconfirmed
      /\ line.outcome \in {"REFUSED", "AUTHORISED", "AWAITING_CONFIRMATION"}
      /\ line.outcome = "REFUSED" <=> line.reason # None
      /\ line.reason = "rate" => Full(a)
      /\ line.reason \notin Uncounted => ~Full(a)
      /\ line.nonce = IF line.outcome = "AWAITING_CONFIRMATION" THEN n ELSE None
  BY VerdictIs DEF GInv
<1>2. /\ audit' = Append(audit, line) /\ now' = now /\ principals' = principals
      /\ recent' = IF line.reason \in Uncounted THEN recent
                   ELSE [recent EXCEPT ![a] = Window(a) \cup {n}]
      /\ pending' = IF line.outcome # "AWAITING_CONFIRMATION" THEN pending
                    ELSE [m \in DOMAIN pending \cup {line.nonce} |->
                            IF m = line.nonce
                              THEN [action |-> line.action, actor |-> a, at |-> now]
                              ELSE pending[m]]
  BY DEF Receive, Translate, Count
<1> HIDE DEF line
<1>3. /\ audit' \in Seq(AuditLine) /\ audit'[n] = line /\ n \in Nat
      /\ \A i \in Lines : audit'[i] = audit[i] /\ audit[i] \in AuditLine /\ i < n
      /\ Lines' = Lines \cup {n} /\ n \notin Lines
      /\ Lines \subseteq Nat /\ IsFiniteSet(Lines)
  BY <1>1, <1>2, Appended DEF GInv, Lines
<1>4. None \notin Nat \cup Actions \cup Classes \cup Uncounted \cup Counted \cup Unconfirmed
  BY GrantAssumption
<1>5. Passed(line) <=> line.reason \notin Uncounted
  BY <1>1, <1>4 DEF Passed, AuditLine, Uncounted, Counted, Unconfirmed
<1>6. \A b : CountedLines(b)' = CountedLines(b) \cup (IF b = a THEN counted ELSE {})
  BY <1>1, <1>2, <1>5, Recounted, OfTheFile DEF GInv
<1> HIDE DEF n
<1>7. GType'
  <2>1. recent' \in [Actor -> SUBSET Lines']
    BY <1>2, <1>3 DEF GInv, GType, Window
  <2> QED BY <2>1, <1>2, <1>3 DEF GInv, GType
<1>8. LinesInv'
  <2>1. NonceOf(line, n)  BY <1>1, <1>3 DEF NonceOf
  <2>2. line.at <= now  BY <1>1 DEF GInv, GType
  <2> QED BY <2>1, <2>2, <1>2, <1>3 DEF GInv, LinesInv
<1>9. PendingInv'
  <2>1. /\ Awaiting' = Awaiting \cup (IF line.outcome = "AWAITING_CONFIRMATION" THEN {n} ELSE {})
        /\ Tried' = Tried \cup (IF line.outcome = "AWAITING_CONFIRMATION" THEN {} ELSE {line.nonce})
    BY <1>1, <1>2, Retried DEF GInv, n
  <2>2. /\ DOMAIN pending = Awaiting \ Tried /\ Awaiting \subseteq Lines
        /\ \A m \in DOMAIN pending : /\ pending[m].actor = audit[m].actor
                                      /\ pending[m].action = audit[m].action
                                      /\ pending[m].at = audit[m].at
    BY DEF GInv, PendingInv, Awaiting
  <2>3. CASE line.outcome = "AWAITING_CONFIRMATION"
    <3>1. n \notin Tried
      <4>1. \A i \in Lines : audit[i].outcome # "AWAITING_CONFIRMATION" =>
                             audit[i].nonce \in 0..(i - 1) \cup {None}
        BY DEF GInv, LinesInv, NonceOf
      <4>2. \A i \in Lines : n \notin 0..(i - 1)  BY <1>3
      <4>3. n # None  BY <1>3, <1>4
      <4> QED BY <4>1, <4>2, <4>3 DEF Tried
    <3>2. DOMAIN pending' = DOMAIN pending \cup {n}
      BY <2>3, <1>1, <1>2
    <3>3. \A m \in DOMAIN pending' : /\ pending'[m].actor = audit'[m].actor
                                      /\ pending'[m].action = audit'[m].action
                                      /\ pending'[m].at = audit'[m].at
      <4> TAKE m \in DOMAIN pending'
      <4>1. CASE m = n
        <5>1. pending'[m] = [action |-> line.action, actor |-> a, at |-> now]
          BY <4>1, <3>2, <2>3, <1>1, <1>2
        <5> QED BY <5>1, <4>1, <1>1, <1>3
      <4>2. CASE m # n
        <5>1. m \in DOMAIN pending /\ pending'[m] = pending[m] /\ audit'[m] = audit[m]
          BY <4>2, <3>2, <2>2, <2>3, <1>1, <1>2, <1>3
        <5> QED BY <5>1, <2>2
      <4> QED BY <4>1, <4>2
    <3> QED BY <3>1, <3>2, <3>3, <2>1, <2>2, <2>3 DEF PendingInv
  <2>4. CASE line.outcome # "AWAITING_CONFIRMATION"
    <3>1. None \notin Awaiting  BY <2>2, <1>3, <1>4
    <3>2. pending' = pending /\ line.nonce = None  BY <2>4, <1>1, <1>2
    <3>3. DOMAIN pending' = Awaiting' \ Tried'  BY <3>1, <3>2, <2>1, <2>2, <2>4
    <3>4. \A m \in DOMAIN pending : audit'[m] = audit[m]  BY <2>2, <1>3
    <3> QED BY <3>2, <3>3, <3>4, <2>2 DEF PendingInv
  <2> QED BY <2>3, <2>4
<1>10. WindowInv'
  <2> SUFFICES ASSUME NEW b \in Actor
               PROVE  /\ recent'[b] \subseteq CountedLines(b)'
                      /\ \A i \in CountedLines(b)' :
                            now - audit'[i].at < WindowSeconds => i \in recent'[b]
                      /\ Cardinality({i \in recent'[b] : now - audit'[i].at < WindowSeconds})
                           <= RateLimit
    BY <1>2 DEF WindowInv, Window
  <2> DEFINE window == {i \in recent'[b] : now - audit'[i].at < WindowSeconds}
  <2>1. /\ recent[b] \subseteq CountedLines(b) /\ CountedLines(b) \subseteq Lines
        /\ \A i \in CountedLines(b) : now - audit[i].at < WindowSeconds => i \in recent[b]
        /\ Window(b) = {i \in recent[b] : now - audit[i].at < WindowSeconds}
        /\ Cardinality(Window(b)) <= RateLimit
        /\ recent \in [Actor -> SUBSET Lines]
    BY DEF GInv, GType, WindowInv, Window, CountedLines
  <2>2. CASE b = a /\ line.reason \notin Uncounted
    <3>1. recent'[b] = Window(b) \cup {n}  BY <2>1, <2>2, <1>2
    <3>2. CountedLines(b)' = CountedLines(b) \cup {n}  BY <2>2, <1>6
    <3>3. now - audit'[n].at < WindowSeconds
      BY <1>1, <1>3, GatewayAssumption DEF GInv, GType
    <3>4. window = Window(b) \cup {n}  BY <3>1, <3>3, <2>1, <1>3
    <3>5. IsFiniteSet(Window(b)) /\ n \notin Window(b)  BY <2>1, <1>3, FS_Subset
    <3>6. Cardinality(window) = Cardinality(Window(b)) + 1 /\ Cardinality(Window(b)) \in Nat
      BY <3>4, <3>5, FS_AddElement, FS_CardinalityType
    <3>7. ~(Cardinality(Window(b)) >= RateLimit)  BY <2>2, <1>1 DEF Full
    <3>8. Cardinality(window) <= RateLimit  BY <3>6, <3>7, GatewayAssumption
    <3>9. recent'[b] \subseteq CountedLines(b)'  BY <3>1, <3>2, <2>1
    <3>10. \A i \in CountedLines(b)' : now - audit'[i].at < WindowSeconds => i \in recent'[b]
      BY <3>1, <3>2, <2>1, <1>3
    <3> QED BY <3>8, <3>9, <3>10
  <2>3. CASE ~(b = a /\ line.reason \notin Uncounted)
    <3>1. recent'[b] = recent[b]  BY <2>1, <2>3, <1>2
    <3>2. CountedLines(b)' = CountedLines(b)  BY <2>3, <1>6
    <3>3. window = Window(b)  BY <3>1, <2>1, <1>3
    <3>4. \A i \in CountedLines(b) : audit'[i] = audit[i]  BY <2>1, <1>3
    <3> QED BY <3>1, <3>2, <3>3, <3>4, <2>1
  <2> QED BY <2>2, <2>3
<1>11. RateBounded' /\ RateRefusalEarned'
  BY <1>1, <1>2, <1>7, <1>8, <1>10, RatesKept
<1>12. ConfirmedOnceByItsRequester'
  BY <1>1, <1>2, ConfirmedStay DEF GInv
<1> QED BY <1>7, <1>8, <1>9, <1>10, <1>11, <1>12 DEF GInv

(***************************************************************************)
(* confirm()                                                               *)
(***************************************************************************)
LEMMA ConfirmKeeps ==
    ASSUME GInv, NEW a \in Actor, NEW nonce \in Nonces, Confirmed(a, nonce)
    PROVE  GInv'
<1> DEFINE n == Len(audit) + 1
           reason == ConfirmRefusal(a, nonce)
           line == IF reason # None THEN Line(a, "REFUSED", reason, None, nonce)
                   ELSE Line(a, "CONFIRMED", None, pending[nonce].action, nonce)
<1>1. /\ audit' = Append(audit, line) /\ now' = now
      /\ principals' = principals /\ recent' = recent
      /\ pending' = [m \in DOMAIN pending \ {nonce} |-> pending[m]]
  BY DEF Confirmed, Confirm, Consume
<1>2. None \notin Nat \cup Actions \cup Classes \cup Uncounted \cup Counted \cup Unconfirmed
  BY GrantAssumption
<1>3. /\ DOMAIN pending = Awaiting \ Tried /\ Awaiting \subseteq Lines
      /\ \A m \in DOMAIN pending : /\ pending[m].actor = audit[m].actor
                                    /\ pending[m].action = audit[m].action
                                    /\ pending[m].at = audit[m].at
  BY DEF GInv, PendingInv, Awaiting
<1>4. /\ reason \in Unconfirmed \cup {None}
      /\ reason = None => /\ nonce \in DOMAIN pending /\ pending[nonce].actor = a
                         /\ ~(now - pending[nonce].at > TTL)
  BY <1>2 DEF ConfirmRefusal, Unconfirmed
<1>5. nonce \in 0..Len(audit) /\ Len(audit) \in Nat /\ n \in Nat /\ now \in Nat
  BY DEF Nonces, GInv, GType
<1>6. \A i \in Lines : audit[i] \in AuditLine  BY DEF GInv, GType, Lines
<1> HIDE DEF reason, n
<1>7. nonce \in DOMAIN pending => pending[nonce].action \in Actions \cup {None}
  BY <1>3, <1>6 DEF AuditLine
<1>8. /\ line \in AuditLine /\ line.actor = a /\ line.at = now /\ line.nonce = nonce
      /\ line.outcome = IF reason # None THEN "REFUSED" ELSE "CONFIRMED"
      /\ line.reason = reason
      /\ reason = None => line.action = pending[nonce].action
  BY <1>4, <1>5, <1>7 DEF Line, AuditLine, Outcomes
<1> HIDE DEF line
<1>9. /\ audit' \in Seq(AuditLine) /\ audit'[n] = line /\ \A i \in Lines : i < n
      /\ \A i \in Lines : audit'[i] = audit[i]
      /\ Lines' = Lines \cup {n} /\ n \notin Lines
      /\ Lines \subseteq Nat
  BY <1>1, <1>8, Appended DEF GInv, Lines, n
<1>10. /\ line.outcome \notin {"AUTHORISED", "AWAITING_CONFIRMATION"}
       /\ line.reason \notin Uncounted \cup Counted
  BY <1>2, <1>4, <1>8 DEF Unconfirmed, Uncounted, Counted
<1>11. \A b : CountedLines(b)' = CountedLines(b)
  BY <1>1, <1>8, <1>10, Recounted, OfTheFile DEF GInv, Passed
<1>12. /\ Awaiting' = Awaiting /\ Tried' = Tried \cup {nonce}
  BY <1>1, <1>8, <1>10, Retried DEF GInv
<1>13. reason = None => nonce \in Lines /\ nonce \in Awaiting /\ nonce \notin Tried
  BY <1>3, <1>4
<1>14. GType'
  <2>1. recent' \in [Actor -> SUBSET Lines']
    BY <1>1, <1>9 DEF GInv, GType
  <2> QED BY <2>1, <1>1, <1>9 DEF GInv, GType
<1>15. LinesInv'
  <2>1. nonce \in 0..(n - 1)  BY <1>5 DEF n
  <2>2. reason = None => nonce \in 1..(n - 1)
    BY <1>5, <1>13 DEF n, Lines
  <2>3. NonceOf(line, n)  BY <2>1, <2>2, <1>8, <1>10 DEF NonceOf
  <2>4. line.at <= now  BY <1>5, <1>8
  <2> QED BY <2>3, <2>4, <1>1, <1>9 DEF GInv, LinesInv
<1>16. PendingInv'
  <2>1. DOMAIN pending' = DOMAIN pending \ {nonce}  BY <1>1
  <2>2. \A m \in DOMAIN pending' : pending'[m] = pending[m] /\ audit'[m] = audit[m]
    BY <2>1, <1>1, <1>3, <1>9
  <2> QED BY <2>1, <2>2, <1>3, <1>12 DEF PendingInv
<1>17. WindowInv'
  <2> SUFFICES ASSUME NEW b \in Actor
               PROVE  /\ recent'[b] \subseteq CountedLines(b)'
                      /\ \A i \in CountedLines(b)' :
                            now - audit'[i].at < WindowSeconds => i \in recent'[b]
                      /\ Cardinality({i \in recent'[b] : now - audit'[i].at < WindowSeconds})
                           <= RateLimit
    BY <1>1 DEF WindowInv, Window
  <2>1. /\ recent[b] \subseteq CountedLines(b) /\ CountedLines(b) \subseteq Lines
        /\ \A i \in CountedLines(b) : now - audit[i].at < WindowSeconds => i \in recent[b]
        /\ Cardinality({i \in recent[b] : now - audit[i].at < WindowSeconds}) <= RateLimit
    BY DEF GInv, WindowInv, Window, CountedLines
  <2>2. {i \in recent'[b] : now - audit'[i].at < WindowSeconds} =
          {i \in recent[b] : now - audit[i].at < WindowSeconds}
    BY <2>1, <1>1, <1>9
  <2>3. \A i \in CountedLines(b) : audit'[i] = audit[i]  BY <2>1, <1>9
  <2> QED BY <2>1, <2>2, <2>3, <1>1, <1>11
<1>18. RateBounded' /\ RateRefusalEarned'
  <2>1. line.reason # "rate"  BY <1>10 DEF Uncounted
  <2> QED BY <2>1, <1>1, <1>8, <1>14, <1>15, <1>17, RatesKept
<1>19. ConfirmedOnceByItsRequester'
  <2>1. CASE reason # None
    BY <2>1, <1>1, <1>8, ConfirmedStay
  <2>2. CASE reason = None
    <3> SUFFICES ASSUME NEW i \in Lines', audit'[i].outcome = "CONFIRMED"
                 PROVE  LET m == audit'[i].nonce
                        IN  /\ audit'[m].outcome = "AWAITING_CONFIRMATION"
                            /\ audit'[m].actor = audit'[i].actor
                            /\ audit'[m].action = audit'[i].action
                            /\ audit'[i].at - audit'[m].at <= TTL
                            /\ \A j \in (m + 1)..(i - 1) : audit'[j].nonce # m
      BY DEF ConfirmedOnceByItsRequester
    <3>1. CASE i = n
      <4>1. audit'[i] = line /\ audit'[i].nonce = nonce  BY <3>1, <1>8, <1>9
      <4>2. /\ nonce \in Awaiting /\ nonce \in Lines /\ nonce \notin Tried
            /\ nonce \in DOMAIN pending /\ audit'[nonce] = audit[nonce]
        BY <2>2, <1>3, <1>4, <1>9
      <4>3. /\ audit[nonce].outcome = "AWAITING_CONFIRMATION"
            /\ audit[nonce].actor = a /\ audit[nonce].action = line.action
            /\ ~(now - audit[nonce].at > TTL)
        BY <2>2, <4>2, <1>3, <1>4, <1>8 DEF Awaiting
      <4>4. now - audit[nonce].at <= TTL
        <5>1. audit[nonce].at \in Nat  BY <4>2, <1>6 DEF AuditLine
        <5> HIDE DEF Confirmed
        <5> QED BY <5>1, <4>3, <1>5, GatewayAssumption
      <4>5. ASSUME NEW j \in (nonce + 1)..(n - 1) PROVE audit'[j].nonce # nonce
        <5>1. j \in Lines /\ j # nonce  BY <4>2, <1>5 DEF Lines, n
        <5>2. audit'[j] = audit[j]  BY <5>1, <1>9
        <5>3. CASE audit[j].outcome = "AWAITING_CONFIRMATION"
          BY <5>1, <5>2, <5>3 DEF GInv, LinesInv, NonceOf
        <5>4. CASE audit[j].outcome # "AWAITING_CONFIRMATION"
          BY <5>1, <5>2, <5>4, <4>2 DEF Tried
        <5> QED BY <5>3, <5>4
      <4> QED BY <4>1, <4>2, <4>3, <4>4, <4>5, <3>1, <1>8
    <3>2. CASE i # n
      <4>1. i \in Lines /\ audit'[i] = audit[i]  BY <3>2, <1>9
      <4> DEFINE m == audit[i].nonce
      <4>2. m \in 1..(i - 1)  BY <4>1 DEF GInv, LinesInv, NonceOf
      <4>3. m \in Lines /\ (m + 1)..(i - 1) \subseteq Lines
        <5> HIDE DEF m
        <5> QED BY <1>5, <4>1, <4>2 DEF Lines
      <4>4. /\ audit[m].outcome = "AWAITING_CONFIRMATION"
            /\ audit[m].actor = audit[i].actor
            /\ audit[m].action = audit[i].action
            /\ audit[i].at - audit[m].at <= TTL
            /\ \A j \in (m + 1)..(i - 1) : audit[j].nonce # m
        BY <4>1 DEF GInv, ConfirmedOnceByItsRequester
      <4> QED BY <4>1, <4>3, <4>4, <1>9
    <3> QED BY <3>1, <3>2
  <2> QED BY <2>1, <2>2
<1> QED BY <1>14, <1>15, <1>16, <1>17, <1>18, <1>19 DEF GInv

(***************************************************************************)
(* Time passes.                                                            *)
(***************************************************************************)
LEMMA TickKeeps ==
    ASSUME GInv, Tick
    PROVE  GInv'
<1>1. now' = now + 1 /\ UNCHANGED <<principals, recent, pending, audit>>  BY DEF Tick
<1>2. now \in Nat /\ \A i \in Lines : audit[i].at \in Nat /\ audit[i].at <= now
  <2>1. \A i \in Lines : audit[i] \in AuditLine  BY DEF GInv, GType, Lines
  <2> QED BY <2>1 DEF GInv, GType, AuditLine, LinesInv
<1>3. GType' /\ PendingInv' /\ Lines' = Lines /\ \A b : CountedLines(b)' = CountedLines(b)
  BY <1>1 DEF GInv, GType, PendingInv, Awaiting, Tried, Lines, CountedLines
<1>4. LinesInv'
  <2>1. \A t \in Nat : t <= now => t <= now + 1  BY <1>2
  <2> QED BY <2>1, <1>1, <1>2, <1>3 DEF GInv, LinesInv
<1>5. WindowInv'
  <2> SUFFICES ASSUME NEW b \in Actor
               PROVE  /\ recent[b] \subseteq CountedLines(b)
                      /\ \A i \in CountedLines(b) :
                            now' - audit[i].at < WindowSeconds => i \in recent[b]
                      /\ Cardinality({i \in recent[b] : now' - audit[i].at < WindowSeconds})
                           <= RateLimit
    BY <1>1, <1>3 DEF WindowInv, Window
  <2> DEFINE then == {i \in recent[b] : now' - audit[i].at < WindowSeconds}
  <2>1. /\ recent[b] \subseteq CountedLines(b) /\ CountedLines(b) \subseteq Lines
        /\ \A i \in CountedLines(b) : now - audit[i].at < WindowSeconds => i \in recent[b]
        /\ Window(b) = {i \in recent[b] : now - audit[i].at < WindowSeconds}
        /\ Cardinality(Window(b)) <= RateLimit
    BY DEF GInv, WindowInv, Window, CountedLines
  <2>2. \A i \in Lines : now' - audit[i].at < WindowSeconds => now - audit[i].at < WindowSeconds
    <3>1. \A t \in Nat : (now + 1) - t < WindowSeconds => now - t < WindowSeconds
      BY <1>2, GatewayAssumption
    <3> QED BY <3>1, <1>1, <1>2
  <2>3. then \subseteq Window(b) /\ Window(b) \subseteq Lines  BY <2>1, <2>2
  <2>4. IsFiniteSet(Lines)
    BY FS_Interval DEF GInv, GType, Lines
  <2>5. IsFiniteSet(Window(b))  BY <2>3, <2>4, FS_Subset
  <2>6. Cardinality(then) <= Cardinality(Window(b)) /\ IsFiniteSet(then)
    BY <2>3, <2>5, FS_Subset
  <2>7. Cardinality(then) \in Nat /\ Cardinality(Window(b)) \in Nat
    BY <2>5, <2>6, FS_CardinalityType
  <2>8. Cardinality(then) <= RateLimit  BY <2>1, <2>6, <2>7, GatewayAssumption
  <2> QED BY <2>1, <2>2, <2>8
<1>6. RateBounded' /\ RateRefusalEarned'
  BY <1>1, <1>3, OfTheFile DEF GInv
<1>7. ConfirmedOnceByItsRequester'
  BY <1>1 DEF GInv, ConfirmedOnceByItsRequester, Lines
<1> QED BY <1>3, <1>4, <1>5, <1>6, <1>7 DEF GInv

(***************************************************************************)
(* The invariant, and what it says.                                        *)
(***************************************************************************)
LEMMA GInvInit == GatewayInit => GInv
<1> SUFFICES ASSUME GatewayInit PROVE GInv
  OBVIOUS
<1>1. now = 0 /\ audit = <<>> /\ Lines = {} /\ pending = <<>>
  BY DEF GatewayInit, Lines
<1>2. GType
  BY <1>1, GrantAssumption DEF GatewayInit, GType, Grants
<1>3. LinesInv  BY <1>1 DEF LinesInv
<1>4. PendingInv  BY <1>1 DEF PendingInv, Awaiting, Tried
<1>5. WindowInv
  <2> SUFFICES ASSUME NEW b \in Actor
               PROVE  recent[b] \subseteq CountedLines(b) /\ CountedLines(b) = {}
                      /\ Cardinality(Window(b)) <= RateLimit
    BY DEF WindowInv
  <2>1. recent[b] = {} /\ CountedLines(b) = {}  BY <1>1 DEF GatewayInit, CountedLines
  <2>2. Window(b) = {}  BY <2>1 DEF Window
  <2> QED BY <2>1, <2>2, FS_EmptySet, GatewayAssumption
<1>6. RateBounded /\ RateRefusalEarned /\ ConfirmedOnceByItsRequester
  BY <1>1 DEF RateBounded, RateRefusalEarned, ConfirmedOnceByItsRequester
<1> QED BY <1>2, <1>3, <1>4, <1>5, <1>6 DEF GInv

LEMMA GInvStep == GInv /\ [GatewayNext]_gvars => GInv'
<1> SUFFICES ASSUME GInv, [GatewayNext]_gvars PROVE GInv'
  OBVIOUS
<1>1. ASSUME NEW a \in Actor, NEW text \in Text, NEW forwarded \in BOOLEAN,
             Receive(a, text, forwarded)
      PROVE  GInv'
  BY <1>1, ReceiveKeeps
<1>2. ASSUME NEW a \in Actor, NEW nonce \in Nonces, Confirmed(a, nonce) PROVE GInv'
  BY <1>2, ConfirmKeeps
<1>3. CASE Tick  BY <1>3, TickKeeps
<1>4. CASE UNCHANGED gvars
  <2>1. /\ UNCHANGED <<now, principals, recent, pending, audit>>
        /\ Lines' = Lines /\ \A b : CountedLines(b)' = CountedLines(b)
    BY <1>4 DEF gvars, CountedLines, Lines
  <2>2. GType' /\ LinesInv' /\ PendingInv' /\ WindowInv'
    BY <2>1 DEF GInv, GType, LinesInv, PendingInv, Awaiting, Tried, WindowInv, Window
  <2>3. RateBounded' /\ RateRefusalEarned' /\ ConfirmedOnceByItsRequester'
    BY <2>1, OfTheFile DEF GInv, ConfirmedOnceByItsRequester
  <2> QED BY <2>2, <2>3 DEF GInv
<1> QED BY <1>1, <1>2, <1>3, <1>4 DEF GatewayNext

LEMMA GatewayInvariant == GatewaySpec => []GInv
BY GInvInit, GInvStep, PTL DEF GatewaySpec

\* The types, and that what waits for a confirmation is exactly what was announced
\* as waiting and that nobody has tried to confirm.
THEOREM GatewayTypeCorrect == GatewaySpec => []GatewayTypeOK
<1>1. GInv => GatewayTypeOK
  BY DEF GInv, GType, PendingInv, Awaiting, Tried, GatewayTypeOK
<1> QED BY <1>1, GatewayInvariant, PTL

\* The rate limit holds over every window of the audit file.
THEOREM RateIsBounded == GatewaySpec => []RateBounded
<1>1. GInv => RateBounded  BY DEF GInv
<1> QED BY <1>1, GatewayInvariant, PTL

\* The rate refuses nobody who had not used it up himself.
THEOREM RateRefusalsAreEarned == GatewaySpec => []RateRefusalEarned
<1>1. GInv => RateRefusalEarned  BY DEF GInv
<1> QED BY <1>1, GatewayInvariant, PTL

\* A confirmed action is confirmed once, in time, by the one who asked for it.
THEOREM ConfirmedOnce == GatewaySpec => []ConfirmedOnceByItsRequester
<1>1. GInv => ConfirmedOnceByItsRequester  BY DEF GInv
<1> QED BY <1>1, GatewayInvariant, PTL
=============================================================================
