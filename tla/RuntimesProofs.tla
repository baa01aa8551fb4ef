--------------------------- MODULE RuntimesProofs ---------------------------
(***************************************************************************)
(* What the registry, its copies and the binding of cohorts guarantee for  *)
(* any set of runtimes and families, any packages and any order of probes, *)
(* qualifications, operator commands and switches.                         *)
(***************************************************************************)
EXTENDS Runtimes, FiniteSetTheorems, WellFoundedInduction, TLAPS

(***************************************************************************)
(* Numbers.                                                                *)
(***************************************************************************)

\* A set of numbers that is not empty has a least member.
LEMMA LeastNumber ==
    ASSUME NEW S \in SUBSET Nat, S # {}
    PROVE  \E x \in S : \A y \in S : x <= y
<1> DEFINE R == {ss \in Nat \X Nat : ss[1] < ss[2]}
<1>1. IsWellFoundedOn(R, Nat)
  BY NatLessThanWellFounded DEF OpToRel
<1>2. \A x, y \in Nat : <<x, y>> \in R <=> x < y
  OBVIOUS
<1> HIDE DEF R
<1>3. PICK x \in S : \A y \in S : ~(<<y, x>> \in R)
  BY <1>1, WFMin
<1>4. ASSUME NEW y \in S PROVE x <= y
  <2>1. ~(y < x)  BY <1>2, <1>3
  <2> QED BY <2>1
<1> QED BY <1>4

\* Induction, for a set instead of a predicate.
LEMMA SetInduction ==
    ASSUME NEW S \in SUBSET Nat, 0 \in S, \A n \in S : n + 1 \in S
    PROVE  S = Nat
<1> SUFFICES ASSUME Nat \ S # {} PROVE FALSE
  OBVIOUS
<1>1. PICK x \in Nat \ S : \A y \in Nat \ S : x <= y
  BY LeastNumber
<1>2. x # 0 /\ x - 1 \in Nat /\ x - 1 < x /\ (x - 1) + 1 = x
  BY <1>1
<1>3. x - 1 \in S
  BY <1>1, <1>2
<1> QED BY <1>1, <1>2, <1>3

\* A bounded set of numbers that is not empty has a greatest member.
LEMMA GreatestNumber ==
    ASSUME NEW S \in SUBSET Nat, S # {}, NEW n \in Nat, \A x \in S : x <= n
    PROVE  \E x \in S : \A y \in S : y <= x
<1> DEFINE T == {m \in Nat : \A y \in S : y <= m}
<1>1. n \in T
  OBVIOUS
<1>2. PICK m \in T : \A k \in T : m <= k
  BY <1>1, LeastNumber
<1>3. CASE m \in S
  BY <1>2, <1>3
<1>4. CASE m \notin S
  <2>1. m \in Nat /\ \A y \in S : y < m  BY <1>2, <1>4
  <2>2. m # 0 /\ m - 1 \in Nat
    <3>1. PICK y \in S : TRUE  OBVIOUS
    <3> HIDE DEF T
    <3> QED BY <2>1, <3>1
  <2>3. m - 1 \in T  BY <2>1, <2>2
  <2> QED BY <1>2, <2>2, <2>3
<1> QED BY <1>3, <1>4

(***************************************************************************)
(* Choosing a runtime.                                                     *)
(***************************************************************************)
LEMMA PositionIs ==
    \A r \in Runtime : Position(r) \in 1..Len(Preference) /\ Preference[Position(r)] = r
BY RuntimesAssumption DEF Position

\* There is a cheapest one.
LEMMA CheapestIs ==
    ASSUME NEW S \in SUBSET Runtime, S # {}
    PROVE  Cheapest(S) \in S
<1>1. Len(Preference) \in Nat
  BY RuntimesAssumption
<1> DEFINE P == {Position(r) : r \in S}
<1>2. P \in SUBSET Nat /\ P # {}
  BY <1>1, PositionIs
<1>3. PICK x \in P : \A y \in P : x <= y
  BY <1>2, LeastNumber
<1>4. \E r \in S : \A q \in S : Position(r) <= Position(q)
  BY <1>3
<1> QED BY <1>4 DEF Cheapest

\* The families a role may not have, given what is bound.
Barred(role, bound) ==
    {Family[bound[k]] : k \in {<<other, 1>> : other \in FamilyIndependentOf(role)}
                              \cap DOMAIN bound}

\* Whatever is chosen is eligible; and reserved, where work is meant for a reserve.
LEMMA BindIs ==
    ASSUME NEW registry, NEW role, NEW bound, NEW work
    PROVE  LET candidates == Eligible(registry, role, Barred(role, bound), work)
               r == Bind(registry, role, bound, work)
           IN  /\ candidates = {} => r = None
               /\ candidates # {} => r \in candidates
               /\ Held(registry, role, candidates, work) # {} /\ FamilyIndependentOf(role) = {}
                    => r \in Held(registry, role, candidates, work)
<1> DEFINE candidates == Eligible(registry, role, Barred(role, bound), work)
           held == Held(registry, role, candidates, work)
           fresh == {r \in candidates : Family[r] \notin Families(bound)}
           First(S) == IF S \cap held # {} THEN Cheapest(S \cap held) ELSE Cheapest(S)
<1>1. Bind(registry, role, bound, work) =
        IF candidates = {} THEN None
        ELSE IF FamilyIndependentOf(role) # {} /\ fresh # {} THEN First(fresh)
        ELSE First(candidates)
  BY DEF Bind, Barred
<1>2. candidates \subseteq Runtime /\ held \subseteq candidates /\ fresh \subseteq candidates
  BY DEF Eligible, Held
<1> HIDE DEF candidates, held, fresh
<1>3. ASSUME NEW S \in SUBSET candidates, S # {} PROVE First(S) \in S
  BY <1>2, <1>3, CheapestIs
<1>4. candidates # {} => Bind(registry, role, bound, work) \in candidates
  <2> HIDE DEF First
  <2> QED BY <1>1, <1>2, <1>3
<1>5. ASSUME held # {}, FamilyIndependentOf(role) = {}
      PROVE  Bind(registry, role, bound, work) \in held
  <2>1. candidates # {} /\ candidates \cap held = held  BY <1>2, <1>5
  <2>2. Cheapest(held) \in held  BY <1>2, <1>5, CheapestIs
  <2> QED BY <1>1, <1>5, <2>1, <2>2
<1> QED BY <1>1, <1>4, <1>5 DEF candidates, held

\* A role without a constraint gets the same runtime whatever else is bound.
LEMMA BindAlike ==
    ASSUME NEW registry, NEW role, NEW bound, NEW work, FamilyIndependentOf(role) = {}
    PROVE  Bind(registry, role, bound, work) = Bind(registry, role, <<>>, work)
<1>1. Barred(role, bound) = {} /\ Barred(role, <<>>) = {}
  BY DEF Barred
<1> QED BY <1>1 DEF Bind, Barred

(***************************************************************************)
(* Binding slot after slot.                                                *)
(***************************************************************************)
First == <<"implementer", 1>>

\* No slot that judges implementers comes before one of them.
Ordered(s) ==
    \A i, j \in 1..Len(s) : i < j /\ s[j] = "implementer" => s[i] \notin Reviewing

\* The keys of a role are numbered without a gap.
Numbered(bound) ==
    \A role \in BoundRoles : \E c \in Nat :
        {k \in DOMAIN bound : k[1] = role} = {<<role, i>> : i \in 1..c}

\* The first n slots are bound: each has a key of its own, a runtime that is eligible,
\* the same for every slot of an unconstrained role, and whoever judges is apart from
\* the first implementer.
BoundUpTo(registry, work, s, n, bound) ==
    /\ DOMAIN bound \subseteq BoundRoles \X Nat
    /\ IsFiniteSet(DOMAIN bound) /\ Cardinality(DOMAIN bound) = n
    /\ Numbered(bound)
    /\ \A role \in BoundRoles : <<role, 1>> \in DOMAIN bound <=> \E i \in 1..n : s[i] = role
    /\ \A k \in DOMAIN bound : bound[k] \in Eligible(registry, k[1], {}, work)
    /\ \A k \in DOMAIN bound : FamilyIndependentOf(k[1]) = {} =>
          bound[k] = Bind(registry, k[1], <<>>, work)
    /\ \A k \in DOMAIN bound : k[1] \in Reviewing /\ First \in DOMAIN bound =>
          Family[bound[k]] # Family[bound[First]]

LEMMA Constraints ==
    /\ Reviewing \subseteq BoundRoles /\ {"architect", "implementer"} \subseteq BoundRoles
    /\ \A role : FamilyIndependentOf(role) = {} <=> role \notin Reviewing
    /\ "implementer" \notin Reviewing /\ "architect" \notin Reviewing
BY DEF Reviewing, BoundRoles, FamilyIndependentOf

\* A new key is new, and keeps the numbering.
LEMMA KeyIs ==
    ASSUME NEW bound, DOMAIN bound \subseteq BoundRoles \X Nat, Numbered(bound),
           NEW role \in BoundRoles, NEW value
    PROVE  LET key == Key(role, bound) IN
           /\ key \in BoundRoles \X Nat /\ key[1] = role /\ key \notin DOMAIN bound
           /\ key = <<role, 1>> <=> <<role, 1>> \notin DOMAIN bound
           /\ Numbered(Put(bound, key, value))
<1> DEFINE key == Key(role, bound)
           more == Put(bound, key, value)
<1>1. PICK c \in Nat : {k \in DOMAIN bound : k[1] = role} = {<<role, i>> : i \in 1..c}
  BY DEF Numbered
<1>2. Cardinality({<<role, i>> : i \in 1..c}) = c
  <2> DEFINE f == [i \in 1..c |-> <<role, i>>]
  <2>1. f \in Bijection(1..c, {<<role, i>> : i \in 1..c})
    <3>1. \A i \in 1..c : f[i] = <<role, i>>  OBVIOUS
    <3>2. f \in [1..c -> {<<role, i>> : i \in 1..c}]  OBVIOUS
    <3>3. \A i, j \in 1..c : f[i] = f[j] => i = j  BY <3>1
    <3>4. \A t \in {<<role, i>> : i \in 1..c} : \E i \in 1..c : f[i] = t  BY <3>1
    <3> HIDE DEF f
    <3> QED BY <3>2, <3>3, <3>4 DEF Bijection, Injection, Surjection, IsInjective
  <2>2. IsFiniteSet(1..c) /\ Cardinality(1..c) = c  BY FS_Interval
  <2>3. ExistsBijection(1..c, {<<role, i>> : i \in 1..c})
    BY <2>1 DEF ExistsBijection
  <2> QED BY <2>2, <2>3, FS_Bijection
<1>3. key = <<role, c + 1>>
  BY <1>1, <1>2 DEF Key
<1>4. key \notin DOMAIN bound
  <2> SUFFICES ASSUME key \in DOMAIN bound PROVE FALSE
    OBVIOUS
  <2>1. <<role, c + 1>> \in {<<role, i>> : i \in 1..c}  BY <1>1, <1>3
  <2>2. PICK i \in 1..c : <<role, c + 1>> = <<role, i>>  BY <2>1
  <2> QED BY <2>2
<1>5. key = <<role, 1>> <=> <<role, 1>> \notin DOMAIN bound
  <2>1. CASE c = 0
    BY <1>1, <1>3, <2>1
  <2>2. CASE c # 0
    <3>1. <<role, 1>> \in {<<role, i>> : i \in 1..c}  BY <2>2
    <3>2. <<role, 1>> \in DOMAIN bound  BY <1>1, <3>1
    <3> QED BY <1>4, <3>2
  <2> QED BY <2>1, <2>2
<1>6. DOMAIN more = DOMAIN bound \cup {key}
  BY DEF Put
<1>7. Numbered(more)
  <2> SUFFICES ASSUME NEW other \in BoundRoles
               PROVE  \E d \in Nat : {k \in DOMAIN more : k[1] = other} = {<<other, i>> : i \in 1..d}
    BY DEF Numbered
  <2> HIDE DEF more, key
  <2>1. CASE other = role
    <3>1. {k \in DOMAIN more : k[1] = role} = {<<role, i>> : i \in 1..c} \cup {<<role, c + 1>>}
      BY <1>1, <1>3, <1>6
    <3>2. {<<role, i>> : i \in 1..c} \cup {<<role, c + 1>>} = {<<role, i>> : i \in 1..(c + 1)}
      OBVIOUS
    <3> QED BY <2>1, <3>1, <3>2
  <2>2. CASE other # role
    <3>1. {k \in DOMAIN more : k[1] = other} = {k \in DOMAIN bound : k[1] = other}
      BY <1>3, <1>6, <2>2
    <3> QED BY <3>1 DEF Numbered
  <2> QED BY <2>1, <2>2
<1> QED BY <1>3, <1>4, <1>5, <1>7

\* One more slot.
LEMMA SlotBound ==
    ASSUME NEW registry, NEW work, NEW s \in Seq(BoundRoles), Ordered(s),
           NEW n \in Nat, n + 1 <= Len(s), NEW bound,
           BoundUpTo(registry, work, s, n, bound),
           Bind(registry, s[n + 1], bound, work) # None
    PROVE  BoundUpTo(registry, work, s, n + 1,
                     Put(bound, Key(s[n + 1], bound), Bind(registry, s[n + 1], bound, work)))
<1> DEFINE role == s[n + 1]
           key == Key(role, bound)
           r == Bind(registry, role, bound, work)
           more == Put(bound, key, r)
<1>1. role \in BoundRoles /\ n + 1 \in 1..Len(s)
  OBVIOUS
<1>2. /\ key \in BoundRoles \X Nat /\ key[1] = role /\ key \notin DOMAIN bound
      /\ key = <<role, 1>> <=> <<role, 1>> \notin DOMAIN bound
      /\ Numbered(more)
  BY <1>1, KeyIs DEF BoundUpTo
<1>3. DOMAIN more = DOMAIN bound \cup {key} /\ more[key] = r
      /\ \A k \in DOMAIN bound : more[k] = bound[k]
  BY <1>2 DEF Put
<1>4. r \in Eligible(registry, role, Barred(role, bound), work)
  BY BindIs
<1>5. r \in Eligible(registry, role, {}, work)
  BY <1>4 DEF Eligible
<1>6. IsFiniteSet(DOMAIN more) /\ Cardinality(DOMAIN more) = n + 1
  BY <1>2, <1>3, FS_AddElement DEF BoundUpTo
<1>7. ASSUME NEW other \in BoundRoles
      PROVE  <<other, 1>> \in DOMAIN more <=> \E i \in 1..(n + 1) : s[i] = other
  <2>1. \A i \in 1..(n + 1) : i \in 1..n \/ i = n + 1
    OBVIOUS
  <2>2. <<other, 1>> \in DOMAIN bound <=> \E i \in 1..n : s[i] = other
    BY DEF BoundUpTo
  <2>3. CASE other = role
    <3>1. <<other, 1>> \in DOMAIN more  BY <1>2, <1>3, <2>3
    <3> QED BY <2>3, <3>1
  <2>4. CASE other # role
    <3>1. <<other, 1>> \in DOMAIN more <=> <<other, 1>> \in DOMAIN bound  BY <1>2, <1>3, <2>4
    <3> QED BY <2>1, <2>2, <2>4, <3>1
  <2> QED BY <2>3, <2>4
<1>8. FamilyIndependentOf(role) = {} => r = Bind(registry, role, <<>>, work)
  BY BindAlike
<1>9. ASSUME NEW k \in DOMAIN more, k[1] \in Reviewing, First \in DOMAIN more
      PROVE  Family[more[k]] # Family[more[First]]
  <2>1. CASE First \in DOMAIN bound /\ k \in DOMAIN bound
    BY <1>3, <1>9, <2>1 DEF BoundUpTo
  <2>2. CASE First \in DOMAIN bound /\ k = key
    <3>1. role \in Reviewing /\ First \in {<<other, 1>> : other \in FamilyIndependentOf(role)}
      BY <1>2, <1>9, <2>2 DEF FamilyIndependentOf, First
    <3>2. Family[bound[First]] \in Barred(role, bound)
      BY <2>2, <3>1 DEF Barred
    <3>3. Family[r] \notin Barred(role, bound)
      BY <1>4 DEF Eligible
    <3> QED BY <1>3, <2>2, <3>2, <3>3
  <2>3. CASE First \notin DOMAIN bound
    <3>1. key = First /\ role = "implementer"
      BY <1>2, <1>3, <1>9, <2>3 DEF First
    <3>2. k # key /\ k \in DOMAIN bound
      BY <1>2, <1>3, <1>9, <3>1, Constraints
    <3>3. <<k[1], 1>> \in DOMAIN bound
      <4>1. k \in BoundRoles \X Nat  BY <3>2 DEF BoundUpTo
      <4>2. PICK c \in Nat :
              {j \in DOMAIN bound : j[1] = k[1]} = {<<k[1], i>> : i \in 1..c}
        BY <4>1 DEF BoundUpTo, Numbered
      <4>3. k \in {<<k[1], i>> : i \in 1..c}  BY <3>2, <4>2
      <4>4. c # 0  BY <4>3
      <4>5. <<k[1], 1>> \in {<<k[1], i>> : i \in 1..c}  BY <4>4
      <4> QED BY <4>2, <4>5
    <3>4. PICK i \in 1..n : s[i] = k[1]
      BY <3>3, <1>9, Constraints DEF BoundUpTo
    <3>5. i \in 1..Len(s) /\ i < n + 1
      OBVIOUS
    <3> QED BY <1>1, <1>9, <3>1, <3>4, <3>5 DEF Ordered
  <2> QED BY <1>3, <2>1, <2>2, <2>3
<1> HIDE DEF more, key, r, role
<1> QED
  <2>1. DOMAIN more \subseteq BoundRoles \X Nat  BY <1>2, <1>3 DEF BoundUpTo
  <2>2. \A k \in DOMAIN more : more[k] \in Eligible(registry, k[1], {}, work)
    BY <1>2, <1>3, <1>5 DEF BoundUpTo
  <2>3. \A k \in DOMAIN more : FamilyIndependentOf(k[1]) = {} =>
          more[k] = Bind(registry, k[1], <<>>, work)
    BY <1>2, <1>3, <1>8 DEF BoundUpTo
  <2>4. BoundUpTo(registry, work, s, n + 1, more)
    BY <1>2, <1>6, <1>7, <1>9, <2>1, <2>2, <2>3 DEF BoundUpTo
  <2> QED BY <2>4 DEF more, key, r, role

\* Whoever is bound was eligible, and no key is bound to nothing.
LEMMA BoundIsRuntime ==
    ASSUME NEW registry, NEW work, NEW s, NEW n, NEW bound, BoundUpTo(registry, work, s, n, bound)
    PROVE  ~Unbound(bound) /\ \A k \in DOMAIN bound : bound[k] \in Runtime
BY FileAssumption DEF BoundUpTo, Eligible, Unbound

\* A cohort is bound slot after slot, until one cannot be bound.
LEMMA CohortBound ==
    ASSUME NEW registry, NEW work, NEW s \in Seq(BoundRoles), Ordered(s)
    PROVE  LET bound == BindCohort(registry, work, s)
           IN  Unbound(bound) \/ BoundUpTo(registry, work, s, Len(s), bound)
<1> DEFINE Slot(f, n) == IF n = 0 THEN <<>> ELSE BindSlot(registry, work, f[n - 1], s[n])
           bound == CHOOSE f : f = [n \in 0..Len(s) |-> Slot(f, n)]
           S == {m \in Nat : \E f : f = [n \in 0..m |-> Slot(f, n)]}
<1>1. BindCohort(registry, work, s) = bound[Len(s)]
  BY DEF BindCohort
<1>2. 0 \in S
  <2> DEFINE f == [n \in 0..0 |-> <<>>]
  <2>1. f = [n \in 0..0 |-> Slot(f, n)]  OBVIOUS
  <2> HIDE DEF f
  <2> QED BY <2>1
<1>3. ASSUME NEW m \in S PROVE m + 1 \in S
  <2>1. PICK f : f = [n \in 0..m |-> Slot(f, n)]  OBVIOUS
  <2> DEFINE g == [n \in 0..(m + 1) |-> IF n = m + 1 THEN Slot(f, n) ELSE f[n]]
  <2>2. ASSUME NEW n \in 0..(m + 1) PROVE g[n] = Slot(g, n)
    <3>1. n # 0 => n - 1 \in 0..m /\ n - 1 # m + 1 /\ n - 1 \in 0..(m + 1)  OBVIOUS
    <3>2. n # 0 => g[n - 1] = f[n - 1]  BY <3>1
    <3>3. Slot(g, n) = Slot(f, n)  BY <3>2
    <3> HIDE DEF Slot
    <3>4. m \in Nat /\ (n # m + 1 => n \in 0..m)  OBVIOUS
    <3>5. n # m + 1 => f[n] = Slot(f, n)  BY <2>1, <3>4
    <3> QED BY <3>3, <3>5
  <2> HIDE DEF Slot
  <2>3. g = [n \in 0..(m + 1) |-> Slot(g, n)]  BY <2>2
  <2> HIDE DEF g
  <2> QED BY <2>3
<1>4. S = Nat
  <2>1. S \in SUBSET Nat  OBVIOUS
  <2> HIDE DEF S
  <2> QED BY <1>2, <1>3, <2>1, SetInduction
<1>5. Len(s) \in S
  BY <1>4
<1>6. bound = [n \in 0..Len(s) |-> Slot(bound, n)]
  <2> HIDE DEF Slot
  <2> QED BY <1>5
<1> HIDE DEF bound, S
<1>7. \A n \in 0..Len(s) : bound[n] = Slot(bound, n)
  <2> HIDE DEF Slot
  <2> QED BY <1>6
<1> DEFINE Done(n) == Unbound(bound[n]) \/ BoundUpTo(registry, work, s, n, bound[n])
           T == {n \in Nat : n <= Len(s) => Done(n)}
<1>8. Done(0)
  <2>1. bound[0] = <<>> /\ DOMAIN bound[0] = {}  BY <1>7
  <2>2. \A role \in BoundRoles : {k \in {} : k[1] = role} = {<<role, i>> : i \in 1..0}
    OBVIOUS
  <2>3. Numbered(bound[0])
    <3>1. 0 \in Nat  OBVIOUS
    <3> QED BY <2>1, <2>2, <3>1 DEF Numbered
  <2> QED BY <2>1, <2>3, FS_EmptySet DEF BoundUpTo
<1>9. ASSUME NEW n \in Nat, n + 1 <= Len(s), Done(n) PROVE Done(n + 1)
  <2>1. bound[n + 1] = BindSlot(registry, work, bound[n], s[n + 1])
    BY <1>7, <1>9
  <2>2. CASE Unbound(bound[n])
    BY <2>1, <2>2 DEF BindSlot
  <2>3. CASE ~Unbound(bound[n])
    <3> DEFINE role == s[n + 1]
               r == Bind(registry, role, bound[n], work)
               key == Key(role, bound[n])
    <3>1. bound[n + 1] = Put(bound[n], key, r)
      BY <2>1, <2>3 DEF BindSlot
    <3>2. CASE r = None
      <4>1. key \in DOMAIN bound[n + 1] /\ bound[n + 1][key] = None
        BY <3>1, <3>2 DEF Put
      <4> QED BY <4>1 DEF Unbound
    <3>3. CASE r # None
      BY <1>9, <2>3, <3>1, <3>3, SlotBound
    <3> QED BY <3>2, <3>3
  <2> QED BY <2>2, <2>3
<1> HIDE DEF Done
<1>10. ASSUME NEW n \in T PROVE n + 1 \in T
  <2>1. n + 1 <= Len(s) => n <= Len(s)  OBVIOUS
  <2> QED BY <2>1, <1>9
<1>11. T = Nat
  <2>1. T \in SUBSET Nat /\ 0 \in T  BY <1>8
  <2> HIDE DEF T
  <2> QED BY <2>1, <1>10, SetInduction
<1>12. Len(s) \in T
  BY <1>11
<1> QED BY <1>1, <1>12 DEF Done

(***************************************************************************)
(* The slots of a cohort.                                                  *)
(***************************************************************************)

LEMMA Joined ==
    ASSUME NEW T, NEW a \in Seq(T), NEW b \in Seq(T)
    PROVE  /\ a \o b \in Seq(T) /\ Len(a \o b) = Len(a) + Len(b)
           /\ \A i \in 1..Len(a) : (a \o b)[i] = a[i]
           /\ \A i \in 1..Len(b) : (a \o b)[Len(a) + i] = b[i]
OBVIOUS

\* compile_cohort: an architect, at least one implementer, the judges.
LEMMA CohortIs ==
    ASSUME NEW p
    PROVE  LET s == CompileCohort(p)
               n == ImplementerTasks(p)
           IN  /\ s \in Seq(BoundRoles) /\ n \in Nat \ {0}
               /\ Len(s) = n + 4 \/ Len(s) = n + 5
               /\ \A i \in 1..Len(s) :
                    s[i] = IF i = 1 THEN "architect" ELSE IF i <= n + 1 THEN "implementer"
                           ELSE IF i = n + 2 THEN "spec_reviewer"
                           ELSE IF i = n + 3 THEN "code_reviewer" ELSE "verifier"
<1> DEFINE n == ImplementerTasks(p)
           tasks == [i \in 1..n |-> "implementer"]
           judges == <<"spec_reviewer", "code_reviewer", "verifier">>
           more == IF AssuranceLevel(p) = "HIGH" THEN <<"verifier">> ELSE <<>>
           s == <<"architect">> \o tasks \o judges \o more
<1>1. n \in Nat \ {0}
  <2> DEFINE kinds == {k \in {"code", "config", "docs"} : p[k] > 0}
  <2>1. IsFiniteSet({"code", "config", "docs"})
    <3>1. IsFiniteSet({"code"} \cup {"config"})  BY FS_Singleton, FS_AddElement
    <3>2. IsFiniteSet(({"code"} \cup {"config"}) \cup {"docs"})  BY <3>1, FS_AddElement
    <3>3. ({"code"} \cup {"config"}) \cup {"docs"} = {"code", "config", "docs"}  OBVIOUS
    <3> QED BY <3>2, <3>3
  <2>2. Cardinality(kinds) \in Nat
    BY <2>1, FS_Subset, FS_CardinalityType
  <2> HIDE DEF kinds
  <2>3. n = 1 \/ (n = Cardinality(kinds) /\ ~(Cardinality(kinds) < 2))
    BY DEF ImplementerTasks, kinds
  <2> HIDE DEF n
  <2> QED BY <2>2, <2>3
<1>2. CompileCohort(p) = s
  BY DEF CompileCohort
<1> HIDE DEF n
<1>3. /\ tasks \in Seq(BoundRoles) /\ Len(tasks) = n
      /\ \A i \in 1..n : tasks[i] = "implementer"
  BY <1>1 DEF BoundRoles
<1> HIDE DEF tasks
<1>4. /\ judges \in Seq(BoundRoles) /\ Len(judges) = 3
      /\ judges[1] = "spec_reviewer" /\ judges[2] = "code_reviewer" /\ judges[3] = "verifier"
  BY DEF BoundRoles
<1>5. more \in Seq(BoundRoles) /\ (Len(more) = 0 \/ (Len(more) = 1 /\ more[1] = "verifier"))
  <2>1. /\ <<"verifier">> \in Seq(BoundRoles) /\ Len(<<"verifier">>) = 1
        /\ <<"verifier">>[1] = "verifier" /\ <<>> \in Seq(BoundRoles) /\ Len(<<>>) = 0
    BY DEF BoundRoles
  <2>2. more = <<"verifier">> \/ more = <<>>  OBVIOUS
  <2> HIDE DEF more
  <2> QED BY <2>1, <2>2
<1>6. <<"architect">> \in Seq(BoundRoles)
  BY DEF BoundRoles
<1> HIDE DEF judges, more
<1>7. /\ <<"architect">> \o tasks \in Seq(BoundRoles)
      /\ Len(<<"architect">> \o tasks) = n + 1
      /\ (<<"architect">> \o tasks)[1] = "architect"
      /\ \A i \in 2..(n + 1) : (<<"architect">> \o tasks)[i] = "implementer"
  BY <1>1, <1>3, <1>6
<1> DEFINE front == <<"architect">> \o tasks
<1>8. s = front \o judges \o more
  OBVIOUS
<1> HIDE DEF front
<1>9. front \in Seq(BoundRoles) /\ Len(front) = n + 1 /\ front[1] = "architect"
      /\ \A i \in 2..(n + 1) : front[i] = "implementer"
  BY <1>7 DEF front
<1> DEFINE most == front \o judges
<1>10. /\ most \in Seq(BoundRoles) /\ Len(most) = n + 4
       /\ \A i \in 1..(n + 1) : most[i] = front[i]
       /\ \A i \in 1..3 : most[(n + 1) + i] = judges[i]
  <2>1. (n + 1) + 3 = n + 4  BY <1>1
  <2>2. front \in Seq(BoundRoles) /\ judges \in Seq(BoundRoles)  BY <1>4, <1>9
  <2>3. /\ most \in Seq(BoundRoles) /\ Len(most) = Len(front) + Len(judges)
        /\ \A i \in 1..Len(front) : most[i] = front[i]
        /\ \A i \in 1..Len(judges) : most[Len(front) + i] = judges[i]
    BY <2>2, Joined
  <2> HIDE DEF most
  <2>4. Len(front) = n + 1 /\ Len(judges) = 3  BY <1>4, <1>9
  <2> QED BY <2>1, <2>3, <2>4
<1>11. s = most \o more
  BY <1>8
<1> HIDE DEF most, s
<1>12. /\ s \in Seq(BoundRoles) /\ Len(s) = (n + 4) + Len(more)
       /\ \A i \in 1..(n + 4) : s[i] = most[i]
       /\ \A i \in 1..Len(more) : s[(n + 4) + i] = more[i]
  <2>1. most \in Seq(BoundRoles) /\ more \in Seq(BoundRoles)  BY <1>5, <1>10
  <2>2. /\ most \o more \in Seq(BoundRoles) /\ Len(most \o more) = Len(most) + Len(more)
        /\ \A i \in 1..Len(most) : (most \o more)[i] = most[i]
        /\ \A i \in 1..Len(more) : (most \o more)[Len(most) + i] = more[i]
    BY <2>1, Joined
  <2>3. Len(most) = n + 4  BY <1>10
  <2> QED BY <1>11, <2>2, <2>3
<1>13. \/ Len(more) = 0 /\ Len(s) = n + 4
       \/ Len(more) = 1 /\ Len(s) = n + 5 /\ s[n + 5] = "verifier"
  <2>1. CASE Len(more) = 0
    <3>1. (n + 4) + 0 = n + 4  BY <1>1
    <3> QED BY <1>12, <2>1, <3>1
  <2>2. CASE Len(more) = 1 /\ more[1] = "verifier"
    <3>1. (n + 4) + 1 = n + 5 /\ 1 \in 1..1  BY <1>1
    <3> QED BY <1>12, <2>2, <3>1
  <2> QED BY <1>5, <2>1, <2>2
<1>14. ASSUME NEW i \in 1..Len(s)
       PROVE s[i] = IF i = 1 THEN "architect" ELSE IF i <= n + 1 THEN "implementer"
                    ELSE IF i = n + 2 THEN "spec_reviewer"
                    ELSE IF i = n + 3 THEN "code_reviewer" ELSE "verifier"
  <2>1. i \in 1..(n + 4) \/ (i = n + 5 /\ s[n + 5] = "verifier")  BY <1>1, <1>13
  <2>2. i = 1 \/ i \in 2..(n + 1) \/ i = n + 2 \/ i = n + 3 \/ i = n + 4 \/ i = n + 5
    BY <1>1, <2>1
  <2>3. /\ n + 2 = (n + 1) + 1 /\ n + 3 = (n + 1) + 2 /\ n + 4 = (n + 1) + 3
        /\ {1, 2, 3} \subseteq 1..3 /\ {1} \cup (2..(n + 1)) \subseteq 1..(n + 1)
        /\ 1..(n + 1) \subseteq 1..(n + 4) /\ {n + 2, n + 3, n + 4} \subseteq 1..(n + 4)
    BY <1>1
  <2>4. /\ s[n + 2] = "spec_reviewer" /\ s[n + 3] = "code_reviewer"
        /\ s[n + 4] = "verifier"
    BY <1>4, <1>10, <1>12, <2>3
  <2>5. s[1] = "architect" /\ \A k \in 2..(n + 1) : s[k] = "implementer"
    BY <1>9, <1>10, <1>12, <2>3
  <2> QED BY <1>1, <2>1, <2>2, <2>4, <2>5
<1>15. s \in Seq(BoundRoles)
  BY <1>12
<1>16. CompileCohort(p) = s /\ ImplementerTasks(p) = n
  BY <1>2 DEF n
<1> QED BY <1>1, <1>13, <1>14, <1>15, <1>16

\* Sorting leaves alone what is in order.
IndexIn(roles, role) == CHOOSE k \in DOMAIN roles : roles[k] = role

LEMMA SortedAlready ==
    ASSUME NEW roles, NEW s, NEW n \in Nat, DOMAIN s = 1..n, s = [i \in 1..n |-> s[i]],
           \A i \in 1..n : IndexIn(roles, s[i]) \in Nat,
           \A i, j \in 1..n : i < j => IndexIn(roles, s[i]) <= IndexIn(roles, s[j])
    PROVE  Sorted(s, roles) = s
<1> DEFINE Index(i) == IndexIn(roles, s[i])
           UpTo(i) == {j \in 1..n : Index(j) < Index(i) \/ (Index(j) = Index(i) /\ j <= i)}
<1>1. ASSUME NEW i \in 1..n PROVE Cardinality(UpTo(i)) = i
  <2>1. ASSUME NEW j \in 1..n PROVE j \in UpTo(i) <=> j <= i
    <3>1. j < i => Index(j) <= Index(i)  OBVIOUS
    <3>2. i < j => Index(i) <= Index(j)  OBVIOUS
    <3>3. Index(i) \in Nat /\ Index(j) \in Nat  OBVIOUS
    <3> QED BY <3>1, <3>2, <3>3
  <2>2. UpTo(i) = 1..i  BY <2>1
  <2> HIDE DEF UpTo
  <2>3. 1 \in Int /\ i \in Int /\ ~(1 > i) /\ i - 1 + 1 = i  OBVIOUS
  <2>4. Cardinality(1..i) = i  BY <2>3, FS_Interval
  <2> QED BY <2>2, <2>4
<1>2. Sorted(s, roles) = [m \in 1..n |-> s[CHOOSE i \in 1..n : Cardinality(UpTo(i)) = m]]
  BY DEF Sorted, IndexIn
<1> HIDE DEF UpTo
<1>3. ASSUME NEW m \in 1..n PROVE (CHOOSE i \in 1..n : Cardinality(UpTo(i)) = m) = m
  BY <1>1
<1> QED BY <1>2, <1>3

\* bind_cohort sorts, and compile_cohort lists the slots in that order already.
LEMMA OrderIs ==
    ASSUME NEW p
    PROVE  /\ Order(CompileCohort(p)) = CompileCohort(p)
           /\ Ordered(CompileCohort(p)) /\ CompileCohort(p) \in Seq(BoundRoles)
           /\ \E i \in 1..Len(CompileCohort(p)) : CompileCohort(p)[i] = "architect"
           /\ \E i \in 1..Len(CompileCohort(p)) : CompileCohort(p)[i] = "implementer"
<1> DEFINE s == CompileCohort(p)
           n == ImplementerTasks(p)
           roles == <<"architect", "implementer", "spec_reviewer", "code_reviewer", "verifier",
                      "specialist">>
<1>1. /\ s \in Seq(BoundRoles) /\ n \in Nat \ {0}
      /\ Len(s) = n + 4 \/ Len(s) = n + 5
      /\ \A i \in 1..Len(s) :
           s[i] = IF i = 1 THEN "architect" ELSE IF i <= n + 1 THEN "implementer"
                  ELSE IF i = n + 2 THEN "spec_reviewer"
                  ELSE IF i = n + 3 THEN "code_reviewer" ELSE "verifier"
  BY CohortIs
<1>2. Order(s) = Sorted(s, roles)
  BY DEF Order
<1> HIDE DEF s, n
<1>3. /\ IndexIn(roles, "architect") = 1 /\ IndexIn(roles, "implementer") = 2
      /\ IndexIn(roles, "spec_reviewer") = 3 /\ IndexIn(roles, "code_reviewer") = 4
      /\ IndexIn(roles, "verifier") = 5
  <2>1. DOMAIN roles = 1..6 /\ 1..6 = {1, 2, 3, 4, 5, 6}  OBVIOUS
  <2>2. /\ roles[1] = "architect" /\ roles[2] = "implementer" /\ roles[3] = "spec_reviewer"
        /\ roles[4] = "code_reviewer" /\ roles[5] = "verifier" /\ roles[6] = "specialist"
    OBVIOUS
  <2> HIDE DEF roles
  <2> QED BY <2>1, <2>2 DEF IndexIn
<1> HIDE DEF roles
<1>4. ASSUME NEW i \in 1..Len(s)
      PROVE  IndexIn(roles, s[i]) = IF i = 1 THEN 1 ELSE IF i <= n + 1 THEN 2
                                    ELSE IF i = n + 2 THEN 3 ELSE IF i = n + 3 THEN 4 ELSE 5
  BY <1>1, <1>3
<1>5. \A i, j \in 1..Len(s) : i < j => IndexIn(roles, s[i]) <= IndexIn(roles, s[j])
  BY <1>1, <1>4
<1>6. \A i \in 1..Len(s) : IndexIn(roles, s[i]) \in Nat
  BY <1>4
<1>7. Len(s) \in Nat /\ DOMAIN s = 1..Len(s) /\ s = [i \in 1..Len(s) |-> s[i]]
  BY <1>1
<1>8. Sorted(s, roles) = s
  BY <1>5, <1>6, <1>7, SortedAlready
<1>9. Ordered(s)
  BY <1>1, Constraints DEF Ordered, Reviewing
<1>10. 1 \in 1..Len(s) /\ s[1] = "architect" /\ 2 \in 1..Len(s) /\ s[2] = "implementer"
  BY <1>1
<1> QED BY <1>1, <1>2, <1>8, <1>9, <1>10 DEF s

(***************************************************************************)
(* The inductive invariant.                                                *)
(***************************************************************************)
Words == [Runtime -> [mode : Modes, roles : SUBSET BoundRoles]]

RType ==
    /\ file \in Registries /\ word \in Words /\ DOMAIN unseen = Saver
    /\ copy \in [Holder -> Registries \cup {None}]
    /\ copy["bridge"] # None
    /\ copy["run"] = None <=> phase = "idle"

\* A copy is at odds with what was decided only where it has not seen the decision, or
\* where the decision had been overwritten before it was loaded.
CopyInv ==
    /\ DecisionsKept
    /\ \A h \in Saver : copy[h] # None =>
         \A r \in Runtime :
            /\ <<r, "mode">> \notin lost \cup unseen[h] => copy[h][r].mode = word[r].mode
            /\ <<r, "roles">> \notin lost \cup unseen[h] => copy[h][r].roles = word[r].roles

\* A run is bound on the registry it loaded; after a switch the registry differs from
\* it in the status of the runtime that failed.
RunInv ==
    /\ phase \in {"idle", "ready", "bound", "switched", "blocked"}
    /\ phase # "idle" =>
         /\ loaded \in Registries /\ slots \in Seq(BoundRoles) /\ Ordered(slots)
         /\ \E i \in 1..Len(slots) : slots[i] = "architect"
         /\ \E i \in 1..Len(slots) : slots[i] = "implementer"
    /\ phase \in {"idle", "ready"} => bindings = <<>>
    /\ phase \in {"ready", "bound", "blocked"} => copy["run"] = loaded
    /\ phase = "bound" =>
         /\ BoundUpTo(loaded, class, slots, Len(slots), bindings)
         /\ \A role \in DOMAIN clients :
              \E k \in DOMAIN bindings : k[1] = role /\ clients[role] = bindings[k]
    /\ phase = "switched" =>
         /\ failed \in Runtime /\ copy["run"] = [loaded EXCEPT ![failed].status = "DEGRADED"]
         /\ Cardinality(DOMAIN bindings) = Len(slots)
    /\ \A k \in DOMAIN bindings : bindings[k] \in Runtime

RInv == RType /\ CopyInv /\ RunInv

LEMMA RInvInit == RuntimesInit => RInv
<1> SUFFICES ASSUME RuntimesInit PROVE RInv
  OBVIOUS
<1> USE DEF RuntimesInit
<1>1. file \in Registries /\ None \notin Registries
  BY FileAssumption
<1>2. /\ copy \in [Holder -> Registries \cup {None}] /\ copy["bridge"] = file
      /\ copy["run"] = None /\ copy["probe"] = None /\ copy["qualify"] = None
  BY <1>1 DEF Holder, Saver
<1>3. word \in Words /\ \A r \in Runtime : word[r].mode = file[r].mode /\ word[r].roles = file[r].roles
  BY <1>1 DEF Words, Registries
<1>4. RType
  BY <1>1, <1>2, <1>3 DEF RType
<1>5. CopyInv
  BY <1>2, <1>3 DEF CopyInv, DecisionsKept, Saver
<1>6. RunInv
  BY DEF RunInv
<1> QED BY <1>4, <1>5, <1>6 DEF RInv

LEMMA RunKept ==
    ASSUME RInv, UNCHANGED run, copy'["run"] = copy["run"]
    PROVE  RunInv'
<1>1. UNCHANGED <<phase, slots, class, bindings, clients, failed, loaded>>
  BY DEF run
<1> QED BY <1>1 DEF RInv, RunInv, BoundUpTo, Numbered

LEMMA CopyKept ==
    ASSUME RInv, UNCHANGED <<store, unseen>>, \A h \in Saver : copy'[h] = copy[h]
    PROVE  CopyInv'
BY DEF RInv, CopyInv, DecisionsKept, store

\* Loading the file shows a process every decision that stands in it.
LEMMA Loaded ==
    ASSUME RInv, NEW h \in Saver, Load(h), UNCHANGED store
    PROVE  CopyInv' /\ copy' \in [Holder -> Registries \cup {None}] /\ DOMAIN unseen' = Saver
           /\ copy'[h] # None /\ \A k \in Holder \ {h} : copy'[k] = copy[k]
<1>1. /\ copy'[h] = file /\ unseen'[h] = lost /\ DOMAIN unseen' = Saver
      /\ \A k \in Holder \ {h} : copy'[k] = copy[k]
      /\ \A k \in Saver \ {h} : unseen'[k] = unseen[k]
      /\ copy' \in [Holder -> Registries \cup {None}]
  BY DEF Load, RInv, RType, Holder
<1>2. file' = file /\ word' = word /\ lost' = lost
  BY DEF store
<1>3. DecisionsKept'
  BY <1>2 DEF RInv, CopyInv, DecisionsKept
<1>4. ASSUME NEW k \in Saver, copy'[k] # None, NEW r \in Runtime
      PROVE  /\ <<r, "mode">> \notin lost' \cup unseen'[k] => copy'[k][r].mode = word'[r].mode
             /\ <<r, "roles">> \notin lost' \cup unseen'[k] => copy'[k][r].roles = word'[r].roles
  <2>1. CASE k = h
    BY <1>1, <1>2, <2>1 DEF RInv, CopyInv, DecisionsKept
  <2>2. CASE k # h
    BY <1>1, <1>2, <1>4, <2>2 DEF RInv, CopyInv, Holder
  <2> QED BY <2>1, <2>2
<1>5. copy'[h] # None
  BY <1>1, FileAssumption DEF RInv, RType
<1> QED BY <1>1, <1>3, <1>4, <1>5 DEF CopyInv

\* Saving: what a process decides with the save stands; what it does not decide it
\* leaves as its copy has it, and what it had not seen is lost.
LEMMA Saved ==
    ASSUME RInv, NEW h \in Saver, NEW registry \in Registries, NEW decision,
           Save(h, registry, decision), copy[h] # None, word' \in Words,
           copy'[h] = None \/ copy'[h] = registry,
           \A k \in Saver \ {h} : copy'[k] = copy[k],
           \A r \in Runtime :
              /\ IF <<r, "mode">> \in decision THEN registry[r].mode = word'[r].mode
                 ELSE registry[r].mode = copy[h][r].mode /\ word'[r].mode = word[r].mode
              /\ IF <<r, "roles">> \in decision THEN registry[r].roles = word'[r].roles
                 ELSE registry[r].roles = copy[h][r].roles /\ word'[r].roles = word[r].roles
    PROVE  CopyInv' /\ file' \in Registries /\ DOMAIN unseen' = Saver
<1>1. /\ file' = registry /\ lost' = (lost \cup unseen[h]) \ decision
      /\ DOMAIN unseen' = Saver
      /\ \A k \in Saver : unseen'[k] = IF copy'[k] = None THEN {}
                                       ELSE IF k = h THEN unseen[h] \ decision
                                       ELSE unseen[k] \cup decision
  BY DEF Save
<1>2. ASSUME NEW r \in Runtime
      PROVE  /\ <<r, "mode">> \notin lost' => registry[r].mode = word'[r].mode
             /\ <<r, "roles">> \notin lost' => registry[r].roles = word'[r].roles
  <2>1. /\ <<r, "mode">> \notin lost \cup unseen[h] => copy[h][r].mode = word[r].mode
        /\ <<r, "roles">> \notin lost \cup unseen[h] => copy[h][r].roles = word[r].roles
    BY DEF RInv, CopyInv
  <2> QED BY <1>1, <2>1
<1>3. DecisionsKept'
  <2>1. file' = registry  BY <1>1
  <2> QED BY ONLY <1>2, <2>1 DEF DecisionsKept
<1>4. ASSUME NEW k \in Saver, copy'[k] # None, NEW r \in Runtime
      PROVE  /\ <<r, "mode">> \notin lost' \cup unseen'[k] => copy'[k][r].mode = word'[r].mode
             /\ <<r, "roles">> \notin lost' \cup unseen'[k] => copy'[k][r].roles = word'[r].roles
  <2>1. CASE k = h
    <3>1. copy'[k] = registry /\ unseen'[k] = unseen[h] \ decision
      BY <1>1, <1>4, <2>1
    <3> QED BY <1>1, <2>1, <3>1 DEF RInv, CopyInv
  <2>2. CASE k # h
    <3>1. copy'[k] = copy[k] /\ unseen'[k] = unseen[k] \cup decision
      BY <1>1, <1>4, <2>2
    <3> QED BY <1>1, <1>4, <2>2, <3>1 DEF RInv, CopyInv
  <2> QED BY <2>1, <2>2
<1> QED BY <1>1, <1>3, <1>4 DEF CopyInv

(***************************************************************************)
(* The file: probes, qualifications, the bridge.                           *)
(***************************************************************************)
Entries == [status : Statuses, mode : Modes, roles : SUBSET BoundRoles]

\* No probe and no qualification touches what it was not asked about.
LEMMA ProbedIs ==
    ASSUME NEW r, NEW entry \in Entries, NEW answers
    PROVE  /\ Probed(r, entry, answers) \in Entries
           /\ Probed(r, entry, answers).mode = entry.mode
           /\ Probed(r, entry, answers).roles = entry.roles
BY DEF Probed, Entries, Statuses

LEMMA QualifiedIs ==
    ASSUME NEW entry \in Entries, NEW roles \in SUBSET BoundRoles
    PROVE  /\ Qualified(entry, roles) \in Entries
           /\ Qualified(entry, roles).mode = entry.mode
           /\ Qualified(entry, roles).roles = roles
BY DEF Qualified, Entries, Statuses

LEMMA StartToolStep ==
    ASSUME RInv, NEW h \in {"probe", "qualify"}, StartTool(h)
    PROVE  RInv'
<1>1. h \in Saver /\ Load(h) /\ UNCHANGED <<store, run>>
  BY DEF StartTool, Saver
<1>2. /\ CopyInv' /\ copy' \in [Holder -> Registries \cup {None}] /\ DOMAIN unseen' = Saver
      /\ copy'["run"] = copy["run"] /\ copy'["bridge"] = copy["bridge"]
  BY <1>1, Loaded DEF Holder, Saver
<1>3. RunInv'
  BY <1>1, <1>2, RunKept
<1>4. RType'
  BY <1>1, <1>2 DEF RInv, RType, store, run
<1> QED BY <1>2, <1>3, <1>4 DEF RInv

LEMMA RestartBridgeStep == ASSUME RInv, RestartBridge PROVE RInv'
<1>1. "bridge" \in Saver /\ Load("bridge") /\ UNCHANGED <<store, run>>
  BY DEF RestartBridge, Saver
<1>2. /\ CopyInv' /\ copy' \in [Holder -> Registries \cup {None}] /\ DOMAIN unseen' = Saver
      /\ copy'["run"] = copy["run"] /\ copy'["bridge"] # None
  BY <1>1, Loaded DEF Holder, Saver
<1>3. RunInv'
  BY <1>1, <1>2, RunKept
<1>4. RType'
  BY <1>1, <1>2 DEF RInv, RType, store, run
<1> QED BY <1>2, <1>3, <1>4 DEF RInv

LEMMA FinishProbeStep == ASSUME RInv, FinishProbe PROVE RInv'
<1>1. /\ copy["probe"] # None /\ copy' = [copy EXCEPT !["probe"] = None]
      /\ UNCHANGED <<run, word>>
  BY DEF FinishProbe
<1>2. PICK answering \in SUBSET Runtime :
        Save("probe", [r \in Runtime |-> Probed(r, copy["probe"][r], r \in answering)], {})
  BY DEF FinishProbe
<1> DEFINE registry == [r \in Runtime |-> Probed(r, copy["probe"][r], r \in answering)]
<1>3. copy["probe"] \in Registries /\ \A r \in Runtime : copy["probe"][r] \in Entries
  BY <1>1 DEF RInv, RType, Holder, Saver, Registries, Entries
<1>4. /\ registry \in Registries
      /\ \A r \in Runtime : /\ registry[r].mode = copy["probe"][r].mode
                            /\ registry[r].roles = copy["probe"][r].roles
  <2>1. ASSUME NEW r \in Runtime
        PROVE  /\ registry[r] \in Entries
               /\ registry[r].mode = copy["probe"][r].mode
               /\ registry[r].roles = copy["probe"][r].roles
    BY <1>3, ProbedIs
  <2>2. registry = [r \in Runtime |-> registry[r]]
    OBVIOUS
  <2> HIDE DEF registry
  <2> QED BY <2>1, <2>2 DEF Registries, Entries
<1>5. Save("probe", registry, {})
  BY <1>2
<1> HIDE DEF registry
<1>6. /\ copy' \in [Holder -> Registries \cup {None}] /\ copy'["probe"] = None
      /\ \A k \in Holder \ {"probe"} : copy'[k] = copy[k]
  BY <1>1 DEF RInv, RType, Holder, Saver
<1>7. word' = word /\ word' \in Words
  BY <1>1 DEF RInv, RType
<1>8. CopyInv' /\ file' \in Registries /\ DOMAIN unseen' = Saver
  <2>1. "probe" \in Saver /\ Saver \subseteq Holder  BY DEF Saver, Holder
  <2> QED BY <1>1, <1>4, <1>5, <1>6, <1>7, <2>1, Saved
<1>9. copy'["run"] = copy["run"] /\ copy'["bridge"] = copy["bridge"]
  BY <1>6 DEF Holder, Saver
<1>10. RunInv'
  BY <1>1, <1>9, RunKept
<1>11. RType'
  BY <1>1, <1>6, <1>7, <1>8, <1>9 DEF RInv, RType, run
<1> QED BY <1>8, <1>10, <1>11 DEF RInv

LEMMA RecordQualificationStep ==
    ASSUME RInv, NEW r \in Runtime, NEW passed, RecordQualification(r, passed)
    PROVE  RInv'
<1> DEFINE roles == QualifiedRoles(passed)
           registry == [copy["qualify"] EXCEPT ![r] = Qualified(copy["qualify"][r], roles)]
<1>1. /\ copy["qualify"] # None /\ copy' = [copy EXCEPT !["qualify"] = None]
      /\ Save("qualify", registry, {<<r, "roles">>})
      /\ word' = [word EXCEPT ![r].roles = roles] /\ UNCHANGED run
  BY DEF RecordQualification
<1>2. roles \subseteq BoundRoles
  BY DEF QualifiedRoles
<1> HIDE DEF roles
<1>3. copy["qualify"] \in Registries /\ \A q \in Runtime : copy["qualify"][q] \in Entries
  BY <1>1 DEF RInv, RType, Holder, Saver, Registries, Entries
<1>4. /\ registry \in Registries
      /\ registry[r].mode = copy["qualify"][r].mode /\ registry[r].roles = roles
      /\ \A q \in Runtime \ {r} : registry[q] = copy["qualify"][q]
  <2>1. /\ Qualified(copy["qualify"][r], roles) \in Entries
        /\ Qualified(copy["qualify"][r], roles).mode = copy["qualify"][r].mode
        /\ Qualified(copy["qualify"][r], roles).roles = roles
    BY <1>2, <1>3, QualifiedIs
  <2>2. registry \in Registries
    BY <1>3, <2>1 DEF Registries, Entries
  <2>3. registry[r] = Qualified(copy["qualify"][r], roles)
        /\ \A q \in Runtime \ {r} : registry[q] = copy["qualify"][q]
    BY <1>3 DEF Registries
  <2> HIDE DEF registry
  <2> QED BY <2>1, <2>2, <2>3
<1> HIDE DEF registry
<1>5. /\ copy' \in [Holder -> Registries \cup {None}] /\ copy'["qualify"] = None
      /\ \A k \in Holder \ {"qualify"} : copy'[k] = copy[k]
  BY <1>1 DEF RInv, RType, Holder, Saver
<1>6. /\ word' \in Words /\ word'[r].roles = roles /\ word'[r].mode = word[r].mode
      /\ \A q \in Runtime \ {r} : word'[q] = word[q]
  BY <1>1, <1>2 DEF RInv, RType, Words
<1>7. CopyInv' /\ file' \in Registries /\ DOMAIN unseen' = Saver
  <2>1. "qualify" \in Saver /\ Saver \subseteq Holder  BY DEF Saver, Holder
  <2>2. ASSUME NEW q \in Runtime
        PROVE /\ IF <<q, "mode">> \in {<<r, "roles">>} THEN registry[q].mode = word'[q].mode
                 ELSE registry[q].mode = copy["qualify"][q].mode /\ word'[q].mode = word[q].mode
              /\ IF <<q, "roles">> \in {<<r, "roles">>} THEN registry[q].roles = word'[q].roles
                 ELSE registry[q].roles = copy["qualify"][q].roles /\ word'[q].roles = word[q].roles
    BY <1>4, <1>6
  <2>3. copy["qualify"] # None /\ Save("qualify", registry, {<<r, "roles">>})
    BY <1>1
  <2>4. registry \in Registries /\ word' \in Words
    BY <1>4, <1>6
  <2>5. copy'["qualify"] = None /\ \A k \in Saver \ {"qualify"} : copy'[k] = copy[k]
    BY <1>5, <2>1
  <2> QED BY <2>1, <2>2, <2>3, <2>4, <2>5, Saved
<1>8. copy'["run"] = copy["run"] /\ copy'["bridge"] = copy["bridge"]
  BY <1>5 DEF Holder, Saver
<1>9. RunInv'
  BY <1>1, <1>8, RunKept
<1>10. RType'
  BY <1>1, <1>5, <1>6, <1>7, <1>8 DEF RInv, RType, run
<1> QED BY <1>7, <1>9, <1>10 DEF RInv

LEMMA RuntimeModeStep ==
    ASSUME RInv, NEW r \in Runtime, NEW mode \in Modes, RuntimeMode(r, mode)
    PROVE  RInv'
<1> DEFINE registry == [copy["bridge"] EXCEPT ![r].mode = mode]
<1>1. copy["bridge"] \in Registries
  BY DEF RInv, RType, Holder, Saver
<1>2. /\ copy' = [copy EXCEPT !["bridge"] = registry]
      /\ word' = [word EXCEPT ![r].mode = mode] /\ UNCHANGED run
  BY DEF RuntimeMode
<1>3. /\ registry \in Registries /\ registry[r].mode = mode
      /\ registry[r].roles = copy["bridge"][r].roles
      /\ \A q \in Runtime \ {r} : registry[q] = copy["bridge"][q]
  BY <1>1 DEF Registries
<1> HIDE DEF registry
<1>4. /\ copy' \in [Holder -> Registries \cup {None}] /\ copy'["bridge"] = registry
      /\ \A k \in Holder \ {"bridge"} : copy'[k] = copy[k]
  BY <1>2, <1>3 DEF RInv, RType, Holder, Saver
<1>5. Save("bridge", registry, {<<r, "mode">>})
  BY <1>4 DEF RuntimeMode
<1>6. /\ word' \in Words /\ word'[r].mode = mode /\ word'[r].roles = word[r].roles
      /\ \A q \in Runtime \ {r} : word'[q] = word[q]
  BY <1>2 DEF RInv, RType, Words
<1>7. CopyInv' /\ file' \in Registries /\ DOMAIN unseen' = Saver
  <2>1. "bridge" \in Saver /\ Saver \subseteq Holder  BY DEF Saver, Holder
  <2>2. ASSUME NEW q \in Runtime
        PROVE /\ IF <<q, "mode">> \in {<<r, "mode">>} THEN registry[q].mode = word'[q].mode
                 ELSE registry[q].mode = copy["bridge"][q].mode /\ word'[q].mode = word[q].mode
              /\ IF <<q, "roles">> \in {<<r, "mode">>} THEN registry[q].roles = word'[q].roles
                 ELSE registry[q].roles = copy["bridge"][q].roles /\ word'[q].roles = word[q].roles
    BY <1>3, <1>6
  <2>3. copy["bridge"] # None  BY DEF RInv, RType
  <2> QED BY <1>3, <1>4, <1>5, <1>6, <2>1, <2>2, <2>3, Saved
<1>8. copy'["run"] = copy["run"] /\ copy'["bridge"] # None
  BY <1>3, <1>4, FileAssumption DEF Holder, Saver
<1>9. RunInv'
  BY <1>2, <1>8, RunKept
<1>10. RType'
  BY <1>2, <1>4, <1>6, <1>7, <1>8 DEF RInv, RType, run
<1> QED BY <1>7, <1>9, <1>10 DEF RInv

(***************************************************************************)
(* A run: its slots, its bindings, its switch.                             *)
(***************************************************************************)
LEMMA StartRunStep ==
    ASSUME RInv, NEW p, NEW work, StartRun(p, work)
    PROVE  RInv'
<1>1. /\ phase = "idle" /\ phase' = "ready" /\ slots' = Order(CompileCohort(p))
      /\ loaded' = file /\ copy' = [copy EXCEPT !["run"] = file]
      /\ UNCHANGED <<store, unseen, bindings, clients, failed>>
  BY DEF StartRun
<1>2. /\ copy' \in [Holder -> Registries \cup {None}] /\ copy'["run"] = file
      /\ \A h \in Saver : copy'[h] = copy[h]
  BY <1>1 DEF RInv, RType, Holder, Saver
<1>3. /\ slots' \in Seq(BoundRoles) /\ Ordered(slots')
      /\ \E i \in 1..Len(slots') : slots'[i] = "architect"
      /\ \E i \in 1..Len(slots') : slots'[i] = "implementer"
  BY <1>1, OrderIs
<1>4. CopyInv'
  BY <1>1, <1>2, CopyKept
<1>5. bindings' = <<>>
  BY <1>1 DEF RInv, RunInv
<1>6. RunInv'
  <2>1. loaded' \in Registries  BY <1>1 DEF RInv, RType
  <2>2. \A k \in DOMAIN bindings' : bindings'[k] \in Runtime  BY <1>5
  <2>3. (Ordered(slots))'  BY <1>3 DEF Ordered
  <2> QED BY <1>1, <1>2, <1>3, <1>5, <2>1, <2>2, <2>3 DEF RunInv
<1>7. RType'
  BY <1>1, <1>2, FileAssumption DEF RInv, RType, store, Saver, Holder
<1> QED BY <1>4, <1>6, <1>7 DEF RInv

\* A client speaks to the runtime of a slot of its role.
LEMMA ClientsAre ==
    ASSUME NEW registry, NEW work, NEW s, NEW n, NEW bound, BoundUpTo(registry, work, s, n, bound)
    PROVE  \A role \in DOMAIN BuildClients(bound) :
              \E k \in DOMAIN bound : k[1] = role /\ BuildClients(bound)[role] = bound[k]
<1> DEFINE roles == {k[1] : k \in {j \in DOMAIN bound : bound[j] \in Endpoints}}
           At(role) == CHOOSE k \in DOMAIN bound :
                          /\ k[1] = role /\ bound[k] \in Endpoints
                          /\ \A j \in DOMAIN bound :
                               j[1] = role /\ bound[j] \in Endpoints => j[2] <= k[2]
<1>1. BuildClients(bound) = [role \in roles |-> bound[At(role)]]
  BY DEF BuildClients
<1>2. ASSUME NEW role \in roles
      PROVE  At(role) \in DOMAIN bound /\ At(role)[1] = role
  <2> DEFINE mine == {k \in DOMAIN bound : k[1] = role}
             numbers == {i \in Nat : <<role, i>> \in DOMAIN bound /\ bound[<<role, i>>] \in Endpoints}
  <2>1. PICK one \in DOMAIN bound : one[1] = role /\ bound[one] \in Endpoints
    OBVIOUS
  <2>2. \A k \in DOMAIN bound : k = <<k[1], k[2]>> /\ k[1] \in BoundRoles /\ k[2] \in Nat
    BY DEF BoundUpTo
  <2>3. PICK c \in Nat : mine = {<<role, i>> : i \in 1..c}
    <3>1. role \in BoundRoles
      BY <2>1, <2>2
    <3>2. Numbered(bound)
      BY DEF BoundUpTo
    <3>3. \E c \in Nat : {k \in DOMAIN bound : k[1] = role} = {<<role, i>> : i \in 1..c}
      <4> HIDE DEF mine, numbers, roles
      <4> QED BY <3>1, <3>2 DEF Numbered
    <3> QED BY <3>3
  <2>4. ASSUME NEW i \in numbers PROVE i <= c
    <3>1. <<role, i>> \in mine  OBVIOUS
    <3>2. PICK j \in 1..c : <<role, i>> = <<role, j>>  BY <2>3, <3>1
    <3> QED BY <3>2
  <2>5. numbers \in SUBSET Nat /\ one[2] \in numbers
    BY <2>1, <2>2
  <2>6. PICK top \in numbers : \A i \in numbers : i <= top
    <3> HIDE DEF numbers
    <3> QED BY <2>4, <2>5, GreatestNumber
  <2>7. \A j \in DOMAIN bound : j[1] = role /\ bound[j] \in Endpoints => j[2] \in numbers
    BY <2>2
  <2>8. /\ <<role, top>> \in DOMAIN bound /\ <<role, top>>[1] = role
        /\ bound[<<role, top>>] \in Endpoints /\ <<role, top>>[2] = top
    OBVIOUS
  <2> HIDE DEF numbers
  <2>9. \A j \in DOMAIN bound : j[1] = role /\ bound[j] \in Endpoints => j[2] <= <<role, top>>[2]
    BY <2>6, <2>7, <2>8
  <2> QED BY <2>8, <2>9
<1> HIDE DEF At, roles
<1> QED BY <1>1, <1>2

LEMMA BindRunStep == ASSUME RInv, BindRun PROVE RInv'
<1> DEFINE bound == BindCohort(copy["run"], class, slots)
<1>1. /\ phase = "ready"
      /\ IF Unbound(bound) THEN phase' = "blocked" /\ UNCHANGED <<bindings, clients>>
         ELSE phase' = "bound" /\ bindings' = bound /\ clients' = BuildClients(bound)
      /\ UNCHANGED <<store, copy, unseen, slots, class, failed, loaded, runs>>
  BY DEF BindRun
<1>2. /\ loaded \in Registries /\ slots \in Seq(BoundRoles) /\ Ordered(slots)
      /\ \E i \in 1..Len(slots) : slots[i] = "architect"
      /\ \E i \in 1..Len(slots) : slots[i] = "implementer"
      /\ bindings = <<>> /\ copy["run"] = loaded
  BY <1>1 DEF RInv, RunInv
<1>3. Unbound(bound) \/ BoundUpTo(loaded, class, slots, Len(slots), bound)
  BY <1>2, CohortBound
<1> HIDE DEF bound
<1>4. CopyInv'
  BY <1>1, CopyKept
<1>5. RType'
  BY <1>1 DEF RInv, RType, store
<1>6. UNCHANGED <<copy, slots, class, failed, loaded>>
  BY <1>1
<1>7. CASE Unbound(bound)
  <2>1. phase' = "blocked" /\ bindings' = bindings  BY <1>1, <1>7
  <2>2. \A k \in DOMAIN bindings' : bindings'[k] \in Runtime  BY <1>2, <2>1
  <2>3. RunInv'  BY <1>2, <1>6, <2>1, <2>2 DEF RunInv, Ordered
  <2> QED BY <1>4, <1>5, <2>3 DEF RInv
<1>8. CASE ~Unbound(bound)
  <2>1. phase' = "bound" /\ bindings' = bound /\ clients' = BuildClients(bound)
    BY <1>1, <1>8
  <2>2. BoundUpTo(loaded, class, slots, Len(slots), bound)
    BY <1>3, <1>8
  <2>3. \A k \in DOMAIN bound : bound[k] \in Runtime
    BY <2>2, BoundIsRuntime
  <2>4. \A role \in DOMAIN BuildClients(bound) :
          \E k \in DOMAIN bound : k[1] = role /\ BuildClients(bound)[role] = bound[k]
    BY <2>2, ClientsAre
  <2>5. (BoundUpTo(loaded, class, slots, Len(slots), bindings))'
    BY <1>6, <2>1, <2>2 DEF BoundUpTo, Numbered
  <2>6. RunInv'  BY <1>2, <1>6, <2>1, <2>3, <2>4, <2>5 DEF RunInv, Ordered
  <2> QED BY <1>4, <1>5, <2>6 DEF RInv
<1> QED BY <1>7, <1>8

LEMMA SwitchStep == ASSUME RInv, SwitchImplementer PROVE RInv'
<1> DEFINE old == bindings[First]
           new == Bind(Excluded(copy["run"], old), "implementer", bindings, None)
<1>1. /\ phase = "bound" /\ failed' = old
      /\ copy' = [copy EXCEPT !["run"] = Restored(copy["run"], old, new)]
      /\ IF new = None THEN phase' = "blocked" /\ UNCHANGED <<bindings, clients>>
         ELSE /\ phase' = "switched"
              /\ bindings' = [bindings EXCEPT ![First] = new]
      /\ UNCHANGED <<store, unseen, slots, class, loaded, runs>>
  BY DEF SwitchImplementer, First
<1>2. /\ loaded \in Registries /\ slots \in Seq(BoundRoles) /\ Ordered(slots)
      /\ \E i \in 1..Len(slots) : slots[i] = "architect"
      /\ \E i \in 1..Len(slots) : slots[i] = "implementer"
      /\ copy["run"] = loaded /\ BoundUpTo(loaded, class, slots, Len(slots), bindings)
      /\ \A k \in DOMAIN bindings : bindings[k] \in Runtime
  BY <1>1 DEF RInv, RunInv
<1>3. First \in DOMAIN bindings /\ old \in Runtime
  BY <1>2, Constraints DEF BoundUpTo, First
<1>4. new \in Runtime \cup {None}
  BY BindIs DEF Eligible
<1> HIDE DEF old, new
<1>5. Restored(loaded, old, new) = IF new = None THEN loaded
                                   ELSE [loaded EXCEPT ![old].status = "DEGRADED"]
  BY DEF Restored
<1>6. Restored(loaded, old, new) \in Registries
  BY <1>2, <1>3, <1>5 DEF Registries, Statuses
<1>7. /\ copy' \in [Holder -> Registries \cup {None}] /\ copy'["run"] = Restored(loaded, old, new)
      /\ copy'["run"] # None /\ \A h \in Saver : copy'[h] = copy[h]
  BY <1>1, <1>2, <1>6, FileAssumption DEF RInv, RType, Holder, Saver
<1>8. CopyInv'
  BY <1>1, <1>7, CopyKept
<1>9. RType'
  BY <1>1, <1>7 DEF RInv, RType, store, Saver
<1>10. UNCHANGED <<slots, class, loaded>>
  BY <1>1
<1>11. CASE new = None
  <2>1. phase' = "blocked" /\ bindings' = bindings /\ copy'["run"] = loaded
    BY <1>1, <1>5, <1>7, <1>11
  <2>2. RunInv'  BY <1>2, <1>10, <2>1 DEF RunInv, Ordered
  <2> QED BY <1>8, <1>9, <2>2 DEF RInv
<1>12. CASE new # None
  <2>1. /\ phase' = "switched" /\ failed' = old /\ bindings' = [bindings EXCEPT ![First] = new]
        /\ copy'["run"] = [loaded EXCEPT ![old].status = "DEGRADED"]
    BY <1>1, <1>5, <1>7, <1>12
  <2>2. DOMAIN bindings' = DOMAIN bindings /\ \A k \in DOMAIN bindings' : bindings'[k] \in Runtime
    BY <1>2, <1>4, <1>12, <2>1
  <2>3. Cardinality(DOMAIN bindings') = Len(slots')
    BY <1>2, <1>10, <2>2 DEF BoundUpTo
  <2>4. RunInv'  BY <1>2, <1>3, <1>10, <2>1, <2>2, <2>3 DEF RunInv, Ordered
  <2> QED BY <1>8, <1>9, <2>4 DEF RInv
<1> QED BY <1>11, <1>12

LEMMA EndRunStep == ASSUME RInv, EndRun PROVE RInv'
<1>1. /\ phase # "idle" /\ phase' = "idle" /\ bindings' = <<>>
      /\ copy' = [copy EXCEPT !["run"] = None] /\ UNCHANGED <<store, unseen>>
  BY DEF EndRun
<1>2. /\ copy' \in [Holder -> Registries \cup {None}] /\ copy'["run"] = None
      /\ \A h \in Saver : copy'[h] = copy[h]
  BY <1>1 DEF RInv, RType, Holder, Saver
<1>3. CopyInv'
  BY <1>1, <1>2, CopyKept
<1>4. RType'
  BY <1>1, <1>2 DEF RInv, RType, store, Saver
<1>5. RunInv'
  <2>1. \A k \in DOMAIN bindings' : bindings'[k] \in Runtime  BY <1>1
  <2> QED BY <1>1, <2>1 DEF RunInv
<1> QED BY <1>3, <1>4, <1>5 DEF RInv

LEMMA RInvStep == RInv /\ [RuntimesNext]_rvars => RInv'
<1> SUFFICES ASSUME RInv, [RuntimesNext]_rvars PROVE RInv'
  OBVIOUS
<1>1. CASE UNCHANGED rvars
  <2>1. /\ UNCHANGED <<store, unseen, copy, run>>
    BY <1>1 DEF rvars, store, run
  <2>2. RunInv' /\ CopyInv'  BY <2>1, RunKept, CopyKept
  <2>3. RType'  BY <2>1 DEF RInv, RType, store, run
  <2> QED BY <2>2, <2>3 DEF RInv
<1>2. CASE RuntimesNext
  <2>1. {"NORMAL", "RESERVE", "DISABLED"} \subseteq Modes  BY DEF Modes
  <2> QED BY <1>2, <2>1, StartToolStep, FinishProbeStep, RecordQualificationStep,
             RestartBridgeStep, RuntimeModeStep, StartRunStep, BindRunStep, SwitchStep,
             EndRunStep DEF RuntimesNext
<1> QED BY <1>1, <1>2

LEMMA RuntimesInvariant == RuntimesSpec => []RInv
BY RInvInit, RInvStep, PTL DEF RuntimesSpec

(***************************************************************************)
(* What follows.                                                           *)
(***************************************************************************)

\* Every process holds a registry or none, and only those at work hold one.
THEOREM RuntimesTypeCorrect == RuntimesSpec => []RuntimesTypeOK
<1>1. RInv => RuntimesTypeOK
  BY DEF RInv, RType, RunInv, RuntimesTypeOK
<1> QED BY <1>1, RuntimesInvariant, PTL

\* orchestrator.bind_cohort: every slot of every cohort has a binding of its own.
THEOREM SlotsAreBound == RuntimesSpec => []EverySlotBound
<1>1. RInv => EverySlotBound
  BY DEF RInv, RunInv, EverySlotBound, BoundUpTo
<1> QED BY <1>1, RuntimesInvariant, PTL

\* profiles.bind: no reviewer is of the family of any implementer, however many slots
\* there are and however few families.
THEOREM ReviewersAreIndependent == RuntimesSpec => []ReviewersIndependent
<1>1. ASSUME RInv, phase = "bound" PROVE IndependentBindings
  <2>1. /\ BoundUpTo(loaded, class, slots, Len(slots), bindings)
        /\ \A role \in DOMAIN clients :
              \E k \in DOMAIN bindings : k[1] = role /\ clients[role] = bindings[k]
    BY <1>1 DEF RInv, RunInv
  <2>2. ASSUME NEW k \in DOMAIN bindings, k[1] = "implementer"
        PROVE  First \in DOMAIN bindings /\ bindings[k] = bindings[First]
    <3>1. k \in BoundRoles \X Nat  BY <2>1 DEF BoundUpTo
    <3>2. PICK c \in Nat :
            {j \in DOMAIN bindings : j[1] = k[1]} = {<<k[1], i>> : i \in 1..c}
      BY <2>1, <3>1 DEF BoundUpTo, Numbered
    <3>3. k \in {<<k[1], i>> : i \in 1..c}  BY <3>2
    <3>4. c # 0  BY <3>3
    <3>5. First \in {<<k[1], i>> : i \in 1..c}  BY <2>2, <3>4 DEF First
    <3>6. First \in DOMAIN bindings  BY <3>2, <3>5
    <3>7. First[1] = "implementer"  BY DEF First
    <3> QED BY <2>1, <2>2, <3>6, <3>7, Constraints DEF BoundUpTo
  <2>3. ASSUME NEW j \in DOMAIN bindings, NEW k \in DOMAIN bindings,
               j[1] \in Reviewing, k[1] = "implementer"
        PROVE  Family[bindings[j]] # Family[bindings[k]]
    <3>1. First \in DOMAIN bindings /\ bindings[k] = bindings[First]  BY <2>2, <2>3
    <3> QED BY <2>1, <2>3, <3>1 DEF BoundUpTo
  <2>4. ASSUME NEW j \in DOMAIN clients, NEW k \in DOMAIN clients,
               j \in Reviewing, k = "implementer"
        PROVE  Family[clients[j]] # Family[clients[k]]
    <3>1. PICK x \in DOMAIN bindings : x[1] = j /\ clients[j] = bindings[x]  BY <2>1
    <3>2. PICK y \in DOMAIN bindings : y[1] = k /\ clients[k] = bindings[y]  BY <2>1
    <3> QED BY <2>3, <2>4, <3>1, <3>2
  <2> QED BY <2>3, <2>4 DEF IndependentBindings
<1>2. RInv => ReviewersIndependent
  BY <1>1 DEF ReviewersIndependent
<1> QED BY <1>2, RuntimesInvariant, PTL

\* RESERVE_ADMITS and RESERVE_ROLES: a reserve is spent on the work it is kept for, and
\* on unclassified work not at all.
THEOREM ReserveIsSpent == RuntimesSpec => []ReserveSpent
<1> DEFINE reserved == {r \in Runtime : loaded[r].mode = "RESERVE" /\ Usable(loaded[r])}
           Architect == <<"architect", 1>>
<1>1. ASSUME RInv, phase = "bound" PROVE BoundUpTo(loaded, class, slots, Len(slots), bindings)
  BY <1>1 DEF RInv, RunInv
<1>2. ASSUME RInv, phase = "bound", class = "ARCHITECTURE_CRITICAL",
             \E r \in reserved : "architect" \in loaded[r].roles
      PROVE  bindings[Architect] \in reserved
  <2> DEFINE candidates == Eligible(loaded, "architect", Barred("architect", <<>>), class)
             held == Held(loaded, "architect", candidates, class)
  <2>1. PICK i \in 1..Len(slots) : slots[i] = "architect"
    BY <1>2 DEF RInv, RunInv
  <2>2. Architect \in DOMAIN bindings /\ Architect[1] = "architect"
    BY <1>1, <1>2, <2>1, Constraints DEF BoundUpTo
  <2>3. bindings[Architect] = Bind(loaded, "architect", <<>>, class)
    BY <1>1, <1>2, <2>2, Constraints DEF BoundUpTo
  <2>4. FamilyIndependentOf("architect") = {} /\ Barred("architect", <<>>) = {}
    BY Constraints DEF Barred
  <2>5. class \in ReserveAdmits /\ "architect" \in ReserveRoles(class)
    BY <1>2 DEF ReserveAdmits, ReserveRoles
  <2>6. PICK r \in reserved : "architect" \in loaded[r].roles
    BY <1>2
  <2>7. r \in candidates
    BY <2>4, <2>5, <2>6 DEF Eligible
  <2>8. held = {q \in candidates : loaded[q].mode = "RESERVE"}
    BY <2>5 DEF Held
  <2>9. r \in held
    BY <2>6, <2>7, <2>8
  <2>10. held \subseteq reserved
    BY <2>8 DEF Eligible
  <2> HIDE DEF held, candidates, reserved
  <2>11. Bind(loaded, "architect", <<>>, class) \in held
    BY <2>4, <2>9, BindIs DEF held, candidates
  <2> QED BY <2>3, <2>10, <2>11
<1>3. ASSUME RInv, phase = "bound", class = None, NEW k \in DOMAIN bindings
      PROVE  bindings[k] \notin reserved
  <2>1. bindings[k] \in Eligible(loaded, k[1], {}, class)
    BY <1>1, <1>3 DEF BoundUpTo
  <2> QED BY <1>3, <2>1, FileAssumption DEF Eligible
<1>4. RInv => ReserveSpent
  BY <1>2, <1>3 DEF ReserveSpent
<1> QED BY <1>4, RuntimesInvariant, PTL

\* handoff.switch: the exclusion of the failed runtime does not outlast the decision.
THEOREM SwitchIsTraceless == RuntimesSpec => []SwitchLeavesNoTrace
<1>1. ASSUME RInv, phase # "idle", NEW r \in Runtime
      PROVE  /\ copy["run"][r].mode = loaded[r].mode
             /\ copy["run"][r].roles = loaded[r].roles
             /\ r # failed \/ phase = "blocked" => copy["run"][r].status = loaded[r].status
  <2>1. CASE phase = "switched"
    <3>1. /\ failed \in Runtime /\ loaded \in Registries
          /\ copy["run"] = [loaded EXCEPT ![failed].status = "DEGRADED"]
      BY <1>1, <2>1 DEF RInv, RunInv
    <3>2. /\ loaded[r] \in [status : Statuses, mode : Modes, roles : SUBSET BoundRoles]
          /\ r \in DOMAIN loaded
      BY <3>1 DEF Registries
    <3>3. CASE r = failed
      BY <2>1, <3>1, <3>2, <3>3
    <3>4. CASE r # failed
      BY <3>1, <3>2, <3>4
    <3> QED BY <3>3, <3>4
  <2>2. CASE phase # "switched"
    BY <1>1, <2>2 DEF RInv, RunInv
  <2> QED BY <2>1, <2>2
<1>2. RInv => SwitchLeavesNoTrace
  BY <1>1 DEF SwitchLeavesNoTrace
<1> QED BY <1>2, RuntimesInvariant, PTL

\* What people set and qualifications measured is undone by stale copies only.
THEOREM DecisionsAreKept == RuntimesSpec => []DecisionsKept
<1>1. RInv => DecisionsKept
  BY DEF RInv, CopyInv
<1> QED BY <1>1, RuntimesInvariant, PTL
=============================================================================
