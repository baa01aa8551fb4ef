--------------------------- MODULE ExecutorProofs ---------------------------
(***************************************************************************)
(* What a run of one package guarantees for every limit on turns, silent   *)
(* turns, idle runs and attempts, every base tree, and whatever the models *)
(* answer at every turn.                                                   *)
(***************************************************************************)
EXTENDS Executor, FiniteSetTheorems, WellFoundedInduction, TLAPS

(***************************************************************************)
(* The inductive invariant.                                                *)
(***************************************************************************)
Stages ==
    {"plan", "worktree", "ask", "calls", "written", "report", "reportcalls",
     "finish", "synthetic", "refused", "broken", "gates", "specification",
     "quality", "verification", "end"}

Flags ==
    /\ dirty \in BOOLEAN /\ changed \in BOOLEAN /\ ran \in BOOLEAN
    /\ fresh \in BOOLEAN /\ moved \in BOOLEAN /\ useful \in BOOLEAN

EType ==
    /\ executor \in Executors /\ base \in Bases /\ base \in Tree
    /\ stage \in Stages /\ session \in 1..2
    /\ tree \in Tree /\ head \in Tree \cup {None}
    /\ ignored \subseteq {"test", "code", "docs", "frozen"}
    /\ red \in {1, 2, None} /\ green \in {0, None}
    /\ idle \in Nat /\ silent \in Nat /\ turn \in Nat /\ left \in 0..MaxCalls
    /\ Flags
    /\ cycle \in 0..2 /\ repeats \in Nat

\* The limits, and where each of them is used up.
LimitInv ==
    /\ idle <= MaxIdleTestRuns
    /\ stage \in {"ask", "calls"} => idle < MaxIdleTestRuns
    /\ silent < MaxSilentTurns
    /\ turn <= MaxToolTurns \/ turn <= DeliverableTurns
    /\ stage = "ask" => turn <= MaxToolTurns
    /\ stage = "calls" => turn < MaxToolTurns
    /\ stage = "report" => turn <= DeliverableTurns
    /\ stage = "reportcalls" => turn < DeliverableTurns

\* Every attempt that has anything has a branch, and a new one finds a number.
AttemptInv ==
    /\ attempt \in 1..MaxAttempts \cup {None}
    /\ disk \subseteq branches /\ known \subseteq branches
    /\ branches \subseteq 1..MaxAttempts
    /\ heads \in [1..MaxAttempts + 1 -> {"none", "base", "candidate"}]
    /\ \A a \in 1..MaxAttempts + 1 : heads[a] # "none" => a \in branches
    /\ stage \in {"plan", "worktree"} => Cardinality(branches) < MaxAttempts
    /\ stage \notin {"plan", "worktree", "end"} => attempt \in branches

\* red and green are what the suite was seen to say, in this order.
CycleInv ==
    /\ red # None => cycle \in {1, 2}
    /\ green = 0 => cycle = 2
    /\ stage = "synthetic" => red = None /\ green = None /\ executor # "model"
    /\ stage = "gates" /\ executor = "model" => cycle = 2

\* What the loop counts covers what moved: files no run was asked for on are known to have
\* changed, and an idle run is one that asked again.  Until the session moves a file the
\* count may be one ahead: its first run is idle, whatever the tree was run on before.
IdleInv ==
    /\ stage \in {"ask", "calls"} =>
         /\ idle <= repeats + 1
         /\ moved /\ ~changed => idle <= repeats
         /\ fresh => changed \/ dirty \/ (~moved /\ idle = 0)
         /\ useful => changed \/ dirty \/ (~moved /\ idle = 0)
         /\ ran /\ ~changed => ~fresh
    /\ stage = "ask" => ~changed
    /\ stage = "refused" /\ why = "idle" =>
         /\ repeats + 1 >= MaxIdleTestRuns
         /\ moved => repeats >= MaxIdleTestRuns

\* A commit holds the files of the worktree it was made in, but for what was ignored.
HeadInv ==
    /\ stage = "synthetic" => head = None
    /\ stage = "gates" /\ head # None /\ tree.docs => head.docs \/ "docs" \in ignored
    /\ stage \in {"specification", "quality", "verification"} =>
         /\ head # None /\ head.frozen
         /\ tree.docs /\ (head.docs \/ "docs" \in ignored)

EInv == EType /\ LimitInv /\ AttemptInv /\ CycleInv /\ IdleInv /\ HeadInv

(***************************************************************************)
(* Trees and tool calls.                                                   *)
(***************************************************************************)
LEMMA NoneIs == None \notin Tree /\ None \notin {0, 1, 2} /\ Bases \subseteq Tree
<1>1. {0, 1, 2} \subseteq Int  OBVIOUS
<1> QED BY <1>1, TreeAssumption

LEMMA ExitIs ==
    ASSUME NEW t \in Tree
    PROVE  /\ Exit(t) \in {0, 1, 2, 5}
           /\ Exit(t) \in {0, 1, 2} => t.test # "absent"
BY DEF Exit, Tree

LEMMA EditsAre ==
    ASSUME NEW t \in Tree, NEW u \in Edits(t)
    PROVE  u \in Tree
BY DEF Edits, Tree

\* A call that moves a file counts as a change, and one that runs the suite moves none.
LEMMA ToolCallIs ==
    ASSUME NEW t \in Tree, NEW c \in ToolCall(t)
    PROVE  /\ c.tree \in Tree /\ c.counts \in BOOLEAN /\ c.ran \in BOOLEAN
           /\ c.tree # t => c.counts
           /\ c.ran => c.tree = t /\ ~c.counts
           /\ c.exit = None \/ (c.ran /\ c.exit = Exit(t))
<1>1. CASE \E u \in Edits(t) : c = [tree |-> u, counts |-> TRUE, ran |-> FALSE, exit |-> None]
  BY <1>1, EditsAre
<1>2. CASE \E b \in BOOLEAN : c = [tree |-> t, counts |-> b, ran |-> FALSE, exit |-> None]
  BY <1>2
<1>3. CASE \E x \in {Exit(t), None} : c = [tree |-> t, counts |-> FALSE, ran |-> TRUE, exit |-> x]
  BY <1>3
<1> QED BY <1>1, <1>2, <1>3 DEF ToolCall

\* What Watch makes of a call.
LEMMA WatchIs ==
    ASSUME EType, NEW c \in ToolCall(tree), Watch(c)
    PROVE  /\ cycle' \in 0..2 /\ cycle' >= cycle
           /\ c.exit \in {1, 2} => cycle' \in {1, 2}
           /\ c.exit = 0 /\ cycle \in {1, 2} => cycle' = 2
           /\ fresh' \in BOOLEAN /\ moved' \in BOOLEAN /\ useful' \in BOOLEAN
           /\ repeats' = repeats
           /\ fresh' => ~c.ran /\ (fresh \/ c.counts)
           /\ moved' => moved \/ c.counts
           /\ useful' => useful \/ c.counts \/ fresh
<1>1. /\ c.tree \in Tree /\ c.counts \in BOOLEAN /\ c.ran \in BOOLEAN
      /\ c.tree # tree => c.counts
      /\ c.ran => c.tree = tree
      /\ c.exit = None \/ (c.ran /\ c.exit = Exit(tree))
  BY ToolCallIs DEF EType
<1>2. None \notin {0, 1, 2}  BY NoneIs
<1>3. c.exit \in {0, 1, 2} => /\ c.exit # None /\ c.tree.test # "absent"
                             /\ Exit(c.tree) = c.exit
  BY <1>1, <1>2, ExitIs
<1>4. cycle \in 0..2  BY DEF EType
<1>5. cycle' = IF c.exit = None \/ c.tree.test = "absent" THEN cycle
               ELSE IF Exit(c.tree) # 0 THEN (IF cycle = 0 THEN 1 ELSE cycle)
               ELSE IF cycle = 1 THEN 2 ELSE cycle
  BY DEF Watch
<1>6. /\ cycle' \in 0..2 /\ cycle' >= cycle
      /\ c.exit \in {1, 2} => cycle' \in {1, 2}
      /\ c.exit = 0 /\ cycle \in {1, 2} => cycle' = 2
  BY <1>3, <1>4, <1>5
<1>7. /\ fresh' = IF c.ran THEN FALSE ELSE fresh \/ c.tree # tree
      /\ moved' = (moved \/ c.tree # tree)
      /\ useful' = (useful \/ c.tree # tree \/ (c.ran /\ fresh))
      /\ repeats' = repeats
  BY DEF Watch
<1>8. fresh \in BOOLEAN /\ moved \in BOOLEAN /\ useful \in BOOLEAN  BY DEF EType, Flags
<1> QED BY <1>1, <1>6, <1>7, <1>8

\* What a commit holds.
LEMMA CommitIs ==
    ASSUME base \in Tree, NEW t \in Tree, Commit(t)
    PROVE  /\ head' \in Tree /\ ignored' \subseteq {"test", "code", "docs", "frozen"}
           /\ t.docs => head'.docs \/ "docs" \in ignored'
           /\ heads' = [heads EXCEPT ![attempt] = "candidate"]
<1>1. PICK L \in SUBSET Ignorable(t) : head' = CommitOf(t, L) /\ ignored' = L
  BY DEF Commit
<1>2. L \subseteq {"test", "code", "docs", "frozen"}
  BY DEF Ignorable
<1>3. DOMAIN t = {"test", "code", "docs", "frozen"}
  BY DEF Tree
<1>4. head' = [f \in {"test", "code", "docs", "frozen"} |->
                 IF f \in L THEN base[f] ELSE t[f]]
  BY <1>1, <1>3 DEF CommitOf
<1>5. head' = [test   |-> IF "test" \in L THEN base.test ELSE t.test,
               code   |-> IF "code" \in L THEN base.code ELSE t.code,
               docs   |-> IF "docs" \in L THEN base.docs ELSE t.docs,
               frozen |-> IF "frozen" \in L THEN base.frozen ELSE t.frozen]
  BY <1>4
<1>6. head' \in Tree  BY <1>5 DEF Tree
<1> QED BY <1>1, <1>2, <1>5, <1>6 DEF Commit

\* What a session starts with.
LoopIsFresh ==
    /\ red = None /\ green = None /\ idle = 0 /\ silent = 0 /\ turn = 0 /\ left = 0
    /\ cycle = 0 /\ repeats = 0
    /\ Flags /\ ~dirty /\ ~changed /\ ~ran /\ ~moved /\ ~useful

LEMMA FreshLoopIs == ASSUME FreshLoop, fresh' \in BOOLEAN PROVE LoopIsFresh'
<1>1. Flags' /\ ~dirty' /\ ~changed' /\ ~ran' /\ ~moved' /\ ~useful'
  BY DEF FreshLoop, Flags
<1> QED BY <1>1 DEF FreshLoop, LoopIsFresh

(***************************************************************************)
(* Each action keeps the invariant.                                        *)
(***************************************************************************)

LEMMA PlanStep == EInv /\ Plan => EInv'
<1> SUFFICES ASSUME EInv, Plan PROVE EInv'
  OBVIOUS
<1> USE ExecutorAssumption, NoneIs DEF Plan, NoClient, EndRun, setting, candidate, loop, reply, trees, observed
<1>1. EType'  
  <2>1. Flags'  BY DEF EInv, EType, Flags
  <2> QED  BY <2>1 DEF EInv, EType, Stages
<1>2. LimitInv'  BY DEF EInv, EType, LimitInv
<1>3. AttemptInv'  BY DEF EInv, AttemptInv
<1>4. CycleInv'  BY DEF EInv, EType, CycleInv
<1>5. IdleInv'  BY DEF EInv, EType, Flags, LimitInv, IdleInv
<1>6. HeadInv'  BY DEF EInv, EType, HeadInv
<1> QED BY <1>1, <1>2, <1>3, <1>4, <1>5, <1>6 DEF EInv

LEMMA RuntimeFailsStep == EInv /\ RuntimeFails => EInv'
<1> SUFFICES ASSUME EInv, RuntimeFails PROVE EInv'
  OBVIOUS
<1> USE ExecutorAssumption, NoneIs DEF RuntimeFails, Turns, Stop, setting, candidate, loop, reply, trees, observed
<1>1. EType'  
  <2>1. Flags'  BY DEF EInv, EType, Flags
  <2> QED  BY <2>1 DEF EInv, EType, Stages
<1>2. LimitInv'  BY DEF EInv, EType, LimitInv
<1>3. AttemptInv'  BY DEF EInv, AttemptInv
<1>4. CycleInv'  BY DEF EInv, EType, CycleInv
<1>5. IdleInv'  BY DEF EInv, EType, Flags, LimitInv, IdleInv
<1>6. HeadInv'  BY DEF EInv, EType, HeadInv
<1> QED BY <1>1, <1>2, <1>3, <1>4, <1>5, <1>6 DEF EInv

LEMMA TruncatedStep == EInv /\ Truncated => EInv'
<1> SUFFICES ASSUME EInv, Truncated PROVE EInv'
  OBVIOUS
<1> USE ExecutorAssumption, NoneIs DEF Truncated, Turns, Stop, setting, candidate, loop, reply, trees, observed
<1>1. EType'  
  <2>1. Flags'  BY DEF EInv, EType, Flags
  <2> QED  BY <2>1 DEF EInv, EType, Stages
<1>2. LimitInv'  BY DEF EInv, EType, LimitInv
<1>3. AttemptInv'  BY DEF EInv, AttemptInv
<1>4. CycleInv'  BY DEF EInv, EType, CycleInv
<1>5. IdleInv'  BY DEF EInv, EType, Flags, LimitInv, IdleInv
<1>6. HeadInv'  BY DEF EInv, EType, HeadInv
<1> QED BY <1>1, <1>2, <1>3, <1>4, <1>5, <1>6 DEF EInv

LEMMA ProseStep == EInv /\ Prose => EInv'
<1> SUFFICES ASSUME EInv, Prose PROVE EInv'
  OBVIOUS
<1> USE ExecutorAssumption, NoneIs DEF Prose, Turns, Stop, setting, candidate, loop, reply, trees, observed
<1>1. EType'  
  <2>1. Flags'  BY DEF EInv, EType, Flags
  <2>2. stage' \in Stages /\ silent' \in Nat /\ turn' \in Nat
    BY DEF EInv, EType, Stages
  <2>3. UNCHANGED <<executor, base, session, tree, head, ignored, red, green, idle, left,
                    cycle, repeats>>
    OBVIOUS
  <2> QED  BY <2>1, <2>2, <2>3 DEF EInv, EType
<1>2. LimitInv'  BY DEF EInv, EType, LimitInv
<1>3. AttemptInv'  BY DEF EInv, AttemptInv
<1>4. CycleInv'  BY DEF EInv, EType, CycleInv
<1>5. IdleInv'  BY DEF EInv, EType, Flags, LimitInv, IdleInv
<1>6. HeadInv'  BY DEF EInv, EType, HeadInv
<1> QED BY <1>1, <1>2, <1>3, <1>4, <1>5, <1>6 DEF EInv

LEMMA BeginCallsStep == EInv /\ BeginCalls => EInv'
<1> SUFFICES ASSUME EInv, BeginCalls PROVE EInv'
  OBVIOUS
<1> USE ExecutorAssumption, NoneIs DEF BeginCalls, Turns, setting, candidate, loop, reply, trees, observed
<1>1. EType'  
  <2>1. Flags'  BY DEF EInv, EType, Flags
  <2> QED  BY <2>1 DEF EInv, EType, Stages
<1>2. LimitInv'  BY DEF EInv, EType, LimitInv
<1>3. AttemptInv'  BY DEF EInv, AttemptInv
<1>4. CycleInv'  BY DEF EInv, EType, CycleInv
<1>5. IdleInv'  BY DEF EInv, EType, Flags, LimitInv, IdleInv
<1>6. HeadInv'  BY DEF EInv, EType, HeadInv
<1> QED BY <1>1, <1>2, <1>3, <1>4, <1>5, <1>6 DEF EInv

LEMMA ToolBreaksStep == EInv /\ ToolBreaks => EInv'
<1> SUFFICES ASSUME EInv, ToolBreaks PROVE EInv'
  OBVIOUS
<1> USE ExecutorAssumption, NoneIs DEF ToolBreaks, Stop, setting, candidate, loop, reply, trees, observed
<1>1. EType'  
  <2>1. Flags'  BY DEF EInv, EType, Flags
  <2> QED  BY <2>1 DEF EInv, EType, Stages
<1>2. LimitInv'  BY DEF EInv, EType, LimitInv
<1>3. AttemptInv'  BY DEF EInv, AttemptInv
<1>4. CycleInv'  BY DEF EInv, EType, CycleInv
<1>5. IdleInv'  BY DEF EInv, EType, Flags, LimitInv, IdleInv
<1>6. HeadInv'  BY DEF EInv, EType, HeadInv
<1> QED BY <1>1, <1>2, <1>3, <1>4, <1>5, <1>6 DEF EInv

LEMMA EndTurnStep == EInv /\ EndTurn => EInv'
<1> SUFFICES ASSUME EInv, EndTurn PROVE EInv'
  OBVIOUS
<1> USE ExecutorAssumption, NoneIs DEF EndTurn, IdleRuns, setting, candidate, loop, reply, trees, observed
<1>1. EType'  
  <2>1. Flags'  BY DEF EInv, EType, Flags
  <2> QED  BY <2>1 DEF EInv, EType, Stages
<1>2. LimitInv'  BY DEF EInv, EType, LimitInv
<1>3. AttemptInv'  BY DEF EInv, AttemptInv
<1>4. CycleInv'  BY DEF EInv, EType, CycleInv
<1>5. IdleInv'  BY DEF EInv, EType, Flags, LimitInv, IdleInv
<1>6. HeadInv'  BY DEF EInv, EType, HeadInv
<1> QED BY <1>1, <1>2, <1>3, <1>4, <1>5, <1>6 DEF EInv

LEMMA OutOfTurnsStep == EInv /\ OutOfTurns => EInv'
<1> SUFFICES ASSUME EInv, OutOfTurns PROVE EInv'
  OBVIOUS
<1> USE ExecutorAssumption, NoneIs DEF OutOfTurns, setting, candidate, loop, reply, trees, observed
<1>1. EType'  
  <2>1. Flags'  BY DEF EInv, EType, Flags
  <2> QED  BY <2>1 DEF EInv, EType, Stages
<1>2. LimitInv'  BY DEF EInv, EType, LimitInv
<1>3. AttemptInv'  BY DEF EInv, AttemptInv
<1>4. CycleInv'  BY DEF EInv, EType, CycleInv
<1>5. IdleInv'  BY DEF EInv, EType, Flags, LimitInv, IdleInv
<1>6. HeadInv'  BY DEF EInv, EType, HeadInv
<1> QED BY <1>1, <1>2, <1>3, <1>4, <1>5, <1>6 DEF EInv

LEMMA LeaveLoopStep == EInv /\ LeaveLoop => EInv'
<1> SUFFICES ASSUME EInv, LeaveLoop PROVE EInv'
  OBVIOUS
<1> USE ExecutorAssumption, NoneIs DEF LeaveLoop, setting, candidate, loop, reply, trees, observed
<1>1. EType'  
  <2>1. Flags'  BY DEF EInv, EType, Flags
  <2> QED  BY <2>1 DEF EInv, EType, Stages
<1>2. LimitInv'  BY DEF EInv, EType, LimitInv
<1>3. AttemptInv'  BY DEF EInv, AttemptInv
<1>4. CycleInv'  BY DEF EInv, EType, CycleInv
<1>5. IdleInv'  BY DEF EInv, EType, Flags, LimitInv, IdleInv
<1>6. HeadInv'  BY DEF EInv, EType, HeadInv
<1> QED BY <1>1, <1>2, <1>3, <1>4, <1>5, <1>6 DEF EInv

LEMMA ReportStep == EInv /\ Report => EInv'
<1> SUFFICES ASSUME EInv, Report PROVE EInv'
  OBVIOUS
<1> USE ExecutorAssumption, NoneIs DEF Report, Reporting, setting, candidate, loop, reply, trees, observed
<1>1. EType'  
  <2>1. Flags'  BY DEF EInv, EType, Flags
  <2> QED  BY <2>1 DEF EInv, EType, Stages
<1>2. LimitInv'  BY DEF EInv, EType, LimitInv
<1>3. AttemptInv'  BY DEF EInv, AttemptInv
<1>4. CycleInv'  BY DEF EInv, EType, CycleInv
<1>5. IdleInv'  BY DEF EInv, EType, Flags, LimitInv, IdleInv
<1>6. HeadInv'  BY DEF EInv, EType, HeadInv
<1> QED BY <1>1, <1>2, <1>3, <1>4, <1>5, <1>6 DEF EInv

LEMMA EndReportStep == EInv /\ EndReport => EInv'
<1> SUFFICES ASSUME EInv, EndReport PROVE EInv'
  OBVIOUS
<1> USE ExecutorAssumption, NoneIs DEF EndReport, setting, candidate, loop, reply, trees, observed
<1>1. EType'  
  <2>1. Flags'  BY DEF EInv, EType, Flags
  <2> QED  BY <2>1 DEF EInv, EType, Stages
<1>2. LimitInv'  BY DEF EInv, EType, LimitInv
<1>3. AttemptInv'  BY DEF EInv, AttemptInv
<1>4. CycleInv'  BY DEF EInv, EType, CycleInv
<1>5. IdleInv'  BY DEF EInv, EType, Flags, LimitInv, IdleInv
<1>6. HeadInv'  BY DEF EInv, EType, HeadInv
<1> QED BY <1>1, <1>2, <1>3, <1>4, <1>5, <1>6 DEF EInv

LEMMA FinishStep == EInv /\ Finish => EInv'
<1> SUFFICES ASSUME EInv, Finish PROVE EInv'
  OBVIOUS
<1>a. /\ stage = "finish"
      /\ UNCHANGED <<executor, base, session, tree, red, green, idle, dirty, silent, turn,
                     left, changed, ran, attempt, disk, known, branches, cycle, fresh,
                     moved, useful, repeats>>
  BY DEF Finish, setting, loop, reply, observed
<1>b. \/ /\ stage' = "refused" /\ why' \in {"no cycle", "commit"}
         /\ UNCHANGED <<head, ignored, heads>>
      \/ /\ stage' = "gates" /\ red # None /\ green = 0
         /\ Commit(tree)
  BY DEF Finish, candidate
<1>c. CASE /\ stage' = "refused" /\ why' \in {"no cycle", "commit"}
           /\ UNCHANGED <<head, ignored, heads>>
  <2> USE <1>a, <1>c
  <2>1. EType'  BY DEF EInv, EType, Flags, Stages
  <2>2. LimitInv'  BY DEF EInv, LimitInv
  <2>3. AttemptInv'  BY DEF EInv, AttemptInv
  <2>4. CycleInv'  BY DEF EInv, CycleInv
  <2>5. IdleInv'  BY DEF IdleInv
  <2>6. HeadInv'  BY DEF HeadInv
  <2> QED BY <2>1, <2>2, <2>3, <2>4, <2>5, <2>6 DEF EInv
<1>d. CASE stage' = "gates" /\ red # None /\ green = 0 /\ Commit(tree)
  <2>0. /\ head' \in Tree /\ ignored' \subseteq {"test", "code", "docs", "frozen"}
        /\ tree.docs => head'.docs \/ "docs" \in ignored'
        /\ heads' = [heads EXCEPT ![attempt] = "candidate"]
    BY <1>d, CommitIs DEF EInv, EType
  <2> USE <1>a, <1>d, <2>0
  <2>1. EType'  BY DEF EInv, EType, Flags, Stages
  <2>2. LimitInv'  BY DEF EInv, LimitInv
  <2>3. AttemptInv'  BY DEF EInv, AttemptInv
  <2>4. CycleInv'  BY DEF EInv, CycleInv
  <2>5. IdleInv'  BY DEF IdleInv
  <2>6. HeadInv'  BY DEF HeadInv
  <2> QED BY <2>1, <2>2, <2>3, <2>4, <2>5, <2>6 DEF EInv
<1> QED BY <1>b, <1>c, <1>d

LEMMA SyntheticStep == EInv /\ Synthetic => EInv'
<1> SUFFICES ASSUME EInv, Synthetic PROVE EInv'
  OBVIOUS
<1>a. /\ stage = "synthetic" /\ stage' = "gates" /\ cycle' \in {1, 2}
      /\ UNCHANGED <<executor, base, session, red, green, idle, dirty, silent, turn, left,
                     changed, ran, why, attempt, disk, known, branches, fresh, moved,
                     useful, repeats>>
  BY DEF Synthetic, setting, loop, reply
<1>b. PICK t \in Tree : /\ tree' = t
                        /\ Commit(t) \/ UNCHANGED <<head, ignored, heads>>
  <2>0. base.docs \in BOOLEAN  BY DEF EInv, EType, Tree
  <2>1. tree' \in Tree
    <3>1. PICK inject \in {None, "implementation", "protected_path"}, d \in {TRUE, base.docs} :
            tree' = [test   |-> "real",
                     code   |-> IF inject = "implementation" THEN "wrong" ELSE "right",
                     docs   |-> d,
                     frozen |-> inject # "protected_path"]
      BY DEF Synthetic
    <3> QED BY <2>0, <3>1 DEF Tree
  <2> QED BY <2>1 DEF Synthetic, candidate
<1>c. executor # "model" /\ red = None /\ head = None
  BY <1>a DEF EInv, CycleInv, HeadInv
<1>d. CASE UNCHANGED <<head, ignored, heads>>
  <2> USE <1>a, <1>b, <1>c, <1>d
  <2>1. EType'  BY DEF EInv, EType, Flags, Stages
  <2>2. LimitInv'  BY DEF EInv, LimitInv
  <2>3. AttemptInv'  BY DEF EInv, AttemptInv
  <2>4. CycleInv'  BY NoneIs DEF EInv, CycleInv
  <2>5. IdleInv'  BY DEF IdleInv
  <2>6. HeadInv'  BY DEF HeadInv
  <2> QED BY <2>1, <2>2, <2>3, <2>4, <2>5, <2>6 DEF EInv
<1>e. CASE Commit(t)
  <2>0. /\ head' \in Tree /\ ignored' \subseteq {"test", "code", "docs", "frozen"}
        /\ t.docs => head'.docs \/ "docs" \in ignored'
        /\ heads' = [heads EXCEPT ![attempt] = "candidate"]
    BY <1>e, CommitIs DEF EInv, EType
  <2> USE <1>a, <1>b, <1>c, <2>0
  <2>1. EType'  BY DEF EInv, EType, Flags, Stages
  <2>2. LimitInv'  BY DEF EInv, LimitInv
  <2>3. AttemptInv'  BY DEF EInv, AttemptInv
  <2>4. CycleInv'  BY NoneIs DEF EInv, CycleInv
  <2>5. IdleInv'  BY DEF IdleInv
  <2>6. HeadInv'  BY DEF HeadInv
  <2> QED BY <2>1, <2>2, <2>3, <2>4, <2>5, <2>6 DEF EInv
<1> QED BY <1>b, <1>d, <1>e

LEMMA AfterSessionStep == EInv /\ AfterSession => EInv'
<1> SUFFICES ASSUME EInv, AfterSession PROVE EInv'
  OBVIOUS
<1>a. LoopIsFresh'  BY FreshLoopIs DEF AfterSession, EInv, EType, Flags
<1>b. /\ stage \in {"refused", "broken"}
      /\ stage' = "end" \/ (stage' = "ask" /\ why' = None)
      /\ session' = session \/ session' = 2
  BY Zenon DEF AfterSession, EndRun
<1>c. UNCHANGED <<executor, base, tree, head, ignored, fresh, attempt, disk, known, branches, heads>>
  BY DEF AfterSession, setting, candidate, trees
<1> USE ExecutorAssumption, NoneIs, <1>a, <1>b, <1>c DEF LoopIsFresh
<1>1. EType'  BY DEF EInv, EType, Stages
<1>2. LimitInv'  BY DEF EInv, EType, LimitInv
<1>3. AttemptInv'  BY DEF EInv, AttemptInv
<1>4. CycleInv'  BY DEF EInv, EType, CycleInv
<1>5. IdleInv'  BY DEF EInv, IdleInv
<1>6. HeadInv'  BY DEF EInv, EType, HeadInv
<1> QED BY <1>1, <1>2, <1>3, <1>4, <1>5, <1>6 DEF EInv

LEMMA GatesStep == EInv /\ Gates => EInv'
<1> SUFFICES ASSUME EInv, Gates PROVE EInv'
  OBVIOUS
<1>a. LoopIsFresh'  BY FreshLoopIs DEF Gates, EInv, EType, Flags
<1>b. /\ stage = "gates"
      /\ \/ stage' = "specification" /\ GateRefusal = None
         \/ stage' = "end"
  BY DEF Gates, EndRun
<1>c. UNCHANGED <<executor, base, session, tree, head, ignored, attempt, disk, known, branches, heads>>
  BY DEF Gates, setting, candidate, trees
<1>d. GateRefusal = None => head # None /\ head.frozen /\ tree.docs
  <2>1. None # "empty" /\ None # "protected path" /\ None # "deliverables"
    BY TreeAssumption
  <2> QED BY <2>1, Zenon DEF GateRefusal
<1> USE ExecutorAssumption, NoneIs, <1>a, <1>b, <1>c DEF LoopIsFresh
<1>1. EType'  BY DEF EInv, EType, Stages
<1>2. LimitInv'  BY DEF EInv, EType, LimitInv
<1>3. AttemptInv'  BY DEF EInv, AttemptInv
<1>4. CycleInv'  BY DEF EInv, EType, CycleInv
<1>5. IdleInv'  BY DEF EInv, IdleInv
<1>6. HeadInv'  BY <1>d DEF EInv, EType, HeadInv
<1> QED BY <1>1, <1>2, <1>3, <1>4, <1>5, <1>6 DEF EInv

LEMMA JudgeStep == EInv /\ Judge => EInv'
<1> SUFFICES ASSUME EInv, Judge PROVE EInv'
  OBVIOUS
<1> USE ExecutorAssumption, NoneIs DEF Judge, NoClient, EndRun, setting, candidate, loop, reply, trees, observed
<1>1. EType'  
  <2>1. Flags'  BY DEF EInv, EType, Flags
  <2> QED  BY <2>1 DEF EInv, EType, Stages
<1>2. LimitInv'  BY DEF EInv, EType, LimitInv
<1>3. AttemptInv'  BY DEF EInv, AttemptInv
<1>4. CycleInv'  BY DEF EInv, EType, CycleInv
<1>5. IdleInv'  BY DEF EInv, EType, Flags, LimitInv, IdleInv
<1>6. HeadInv'  BY DEF EInv, EType, HeadInv
<1> QED BY <1>1, <1>2, <1>3, <1>4, <1>5, <1>6 DEF EInv

LEMMA VerifyStep == EInv /\ Verify => EInv'
<1> SUFFICES ASSUME EInv, Verify PROVE EInv'
  OBVIOUS
<1> USE ExecutorAssumption, NoneIs DEF Verify, NoClient, EndRun, setting, candidate, loop, reply, trees, observed
<1>1. EType'  
  <2>1. Flags'  BY DEF EInv, EType, Flags
  <2> QED  BY <2>1 DEF EInv, EType, Stages
<1>2. LimitInv'  BY DEF EInv, EType, LimitInv
<1>3. AttemptInv'  BY DEF EInv, AttemptInv
<1>4. CycleInv'  BY DEF EInv, EType, CycleInv
<1>5. IdleInv'  BY DEF EInv, EType, Flags, LimitInv, IdleInv
<1>6. HeadInv'  BY DEF EInv, EType, HeadInv
<1> QED BY <1>1, <1>2, <1>3, <1>4, <1>5, <1>6 DEF EInv

LEMMA RetireStep == EInv /\ Retire => EInv'
<1> SUFFICES ASSUME EInv, Retire PROVE EInv'
  OBVIOUS
<1> USE ExecutorAssumption, NoneIs DEF Retire, AtTheEnd, setting, candidate, loop, reply, trees, observed
<1>1. EType'  
  <2>1. Flags'  BY DEF EInv, EType, Flags
  <2> QED  BY <2>1 DEF EInv, EType, Stages
<1>2. LimitInv'  BY DEF EInv, EType, LimitInv
<1>3. AttemptInv'  BY DEF EInv, AttemptInv
<1>4. CycleInv'  BY DEF EInv, EType, CycleInv
<1>5. IdleInv'  BY DEF EInv, EType, Flags, LimitInv, IdleInv
<1>6. HeadInv'  BY DEF EInv, EType, HeadInv
<1> QED BY <1>1, <1>2, <1>3, <1>4, <1>5, <1>6 DEF EInv

LEMMA RemoveByHandStep == EInv /\ RemoveByHand => EInv'
<1> SUFFICES ASSUME EInv, RemoveByHand PROVE EInv'
  OBVIOUS
<1> USE ExecutorAssumption, NoneIs DEF RemoveByHand, AtTheEnd, setting, candidate, loop, reply, trees, observed
<1>1. EType'  
  <2>1. Flags'  BY DEF EInv, EType, Flags
  <2> QED  BY <2>1 DEF EInv, EType, Stages
<1>2. LimitInv'  BY DEF EInv, EType, LimitInv
<1>3. AttemptInv'  BY DEF EInv, AttemptInv
<1>4. CycleInv'  BY DEF EInv, EType, CycleInv
<1>5. IdleInv'  BY DEF EInv, EType, Flags, LimitInv, IdleInv
<1>6. HeadInv'  BY DEF EInv, EType, HeadInv
<1> QED BY <1>1, <1>2, <1>3, <1>4, <1>5, <1>6 DEF EInv

LEMMA CommissionAgainStep == EInv /\ CommissionAgain => EInv'
<1> SUFFICES ASSUME EInv, CommissionAgain PROVE EInv'
  OBVIOUS
<1> USE ExecutorAssumption, NoneIs DEF CommissionAgain, FreshLoop, setting, candidate, loop, reply, trees, observed
<1>1. EType'  
  <2>1. Flags'  BY DEF EInv, EType, Flags
  <2> QED  BY <2>1 DEF EInv, EType, Stages
<1>2. LimitInv'  BY DEF EInv, EType, LimitInv
<1>3. AttemptInv'  BY DEF EInv, AttemptInv
<1>4. CycleInv'  BY DEF EInv, EType, CycleInv
<1>5. IdleInv'  BY DEF EInv, EType, Flags, LimitInv, IdleInv
<1>6. HeadInv'  BY DEF EInv, EType, HeadInv
<1> QED BY <1>1, <1>2, <1>3, <1>4, <1>5, <1>6 DEF EInv

LEMMA UseToolStep == EInv /\ UseTool => EInv'
<1> SUFFICES ASSUME EInv, UseTool PROVE EInv'
  OBVIOUS
<1>a. PICK c \in ToolCall(tree) :
         /\ tree' = c.tree /\ left' = left - 1
         /\ changed' = (changed \/ c.counts)
         /\ ran' = (ran \/ c.ran)
         /\ red' = IF red = None /\ c.exit \in Red THEN c.exit ELSE red
         /\ green' = IF red # None /\ c.exit = 0 THEN 0 ELSE green
         /\ Watch(c)
  BY DEF UseTool
<1>b. /\ stage = "calls" /\ left > 0
      /\ UNCHANGED <<executor, base, stage, session, head, ignored, idle, dirty, silent, turn, why,
                     verdict, attempt, disk, known, branches, heads>>
  BY DEF UseTool, setting, candidate, trees
<1>c. /\ c.tree \in Tree /\ c.counts \in BOOLEAN /\ c.ran \in BOOLEAN
      /\ c.ran => ~c.counts
  BY ToolCallIs DEF EInv, EType
<1>d. /\ cycle' \in 0..2 /\ cycle' >= cycle
      /\ c.exit \in {1, 2} => cycle' \in {1, 2}
      /\ c.exit = 0 /\ cycle \in {1, 2} => cycle' = 2
      /\ fresh' \in BOOLEAN /\ moved' \in BOOLEAN /\ useful' \in BOOLEAN
      /\ repeats' = repeats
      /\ moved' => moved \/ c.counts
      /\ fresh' => ~c.ran /\ (fresh \/ c.counts)
      /\ useful' => useful \/ c.counts \/ fresh
  BY <1>a, WatchIs DEF EInv
<1>e. /\ red' = red \/ (red = None /\ red' = c.exit /\ c.exit \in {1, 2})
      /\ green' = green \/ (red # None /\ c.exit = 0 /\ green' = 0)
  BY <1>a DEF Red
<1>1. EType'
  <2>1. Flags'
    <3>1. Flags  BY DEF EInv, EType
    <3> QED BY <3>1, <1>a, <1>b, <1>c, <1>d DEF Flags
  <2>2. red' \in {1, 2, None} /\ green' \in {0, None}
    BY <1>e DEF EInv, EType
  <2>3. left' \in 0..MaxCalls
    BY <1>a, <1>b, ExecutorAssumption DEF EInv, EType
  <2> QED BY <1>a, <1>b, <1>c, <1>d, <2>1, <2>2, <2>3 DEF EInv, EType
<1>2. LimitInv'  BY <1>b DEF EInv, LimitInv
<1>3. AttemptInv'  BY <1>b DEF EInv, AttemptInv
<1>4. CycleInv'
  <2>1. cycle \in 0..2 /\ CycleInv  BY DEF EInv, EType
  <2>2. red' # None => cycle' \in {1, 2}
    BY <1>d, <1>e, <2>1 DEF CycleInv
  <2>3. green' = 0 => cycle' = 2
    BY <1>d, <1>e, <2>1 DEF CycleInv
  <2> QED BY <1>b, <2>2, <2>3 DEF CycleInv
<1>5. IdleInv'
  <2>1. IdleInv /\ Flags  BY DEF EInv, EType
  <2>2. (fresh' \/ useful') => changed' \/ dirty' \/ (~moved' /\ idle' = 0)
    BY <1>a, <1>b, <1>c, <1>d, <2>1 DEF IdleInv, Flags
  <2>3. ran' /\ ~changed' => ~fresh'
    BY <1>a, <1>b, <1>c, <1>d, <2>1 DEF IdleInv, Flags
  <2>4. /\ idle' <= repeats' + 1
        /\ moved' /\ ~changed' => idle' <= repeats'
    BY <1>a, <1>b, <1>d, <2>1 DEF IdleInv, Flags
  <2> QED BY <1>b, <2>2, <2>3, <2>4 DEF IdleInv
<1>6. HeadInv'  BY <1>b DEF EInv, HeadInv
<1> QED BY <1>1, <1>2, <1>3, <1>4, <1>5, <1>6 DEF EInv

LEMMA ReportToolStep == EInv /\ ReportTool => EInv'
<1> SUFFICES ASSUME EInv, ReportTool PROVE EInv'
  OBVIOUS
<1>a. PICK c \in ToolCall(tree) : tree' = c.tree /\ Watch(c)
  BY DEF ReportTool
<1>b. /\ stage = "reportcalls" /\ left > 0 /\ left' = left - 1
      /\ UNCHANGED <<executor, base, stage, session, head, ignored, red, green, idle, dirty, silent,
                     turn, changed, ran, why, verdict, attempt, disk, known, branches, heads>>
  BY DEF ReportTool, setting, candidate, loop, trees
<1>c. /\ tree' \in Tree /\ cycle' \in 0..2 /\ cycle' >= cycle
      /\ fresh' \in BOOLEAN /\ moved' \in BOOLEAN /\ useful' \in BOOLEAN
      /\ repeats' = repeats
  BY <1>a, WatchIs, ToolCallIs DEF EInv, EType
<1>1. EType'
  <2>1. Flags'  BY <1>b, <1>c DEF EInv, EType, Flags
  <2>2. left' \in 0..MaxCalls
    BY <1>b, ExecutorAssumption DEF EInv, EType
  <2> QED BY <1>b, <1>c, <2>1, <2>2 DEF EInv, EType
<1>2. LimitInv'  BY <1>b DEF EInv, LimitInv
<1>3. AttemptInv'  BY <1>b DEF EInv, AttemptInv
<1>4. CycleInv'  BY <1>b, <1>c DEF EInv, EType, CycleInv
<1>5. IdleInv'  BY <1>b, <1>c DEF EInv, IdleInv
<1>6. HeadInv'  BY <1>b DEF EInv, HeadInv
<1> QED BY <1>1, <1>2, <1>3, <1>4, <1>5, <1>6 DEF EInv

(***************************************************************************)
(* An attempt finds a number: fewer than MaxAttempts branches leave one of *)
(* 1..MaxAttempts free, so the least free number is one of them.           *)
(***************************************************************************)
LEMMA LeastOf ==
    ASSUME NEW S \in SUBSET Nat, S # {}
    PROVE  \E x \in S : \A y \in S : x <= y
<1> DEFINE R == {ss \in Nat \X Nat : ss[1] < ss[2]}
<1>1. IsWellFoundedOn(R, Nat)
  BY NatLessThanWellFounded DEF OpToRel
<1>2. \A x, y \in Nat : <<x, y>> \in R <=> x < y
  OBVIOUS
<1> HIDE DEF R
<1>3. PICK x \in S : \A y \in S : ~(<<y, x>> \in R)
  BY <1>1, WFMin
<1>4. \A y \in S : x <= y
  <2> SUFFICES ASSUME NEW y \in S PROVE x <= y
    OBVIOUS
  <2>1. x \in Nat /\ y \in Nat /\ ~(y < x)  BY <1>2, <1>3
  <2> QED BY <2>1
<1> QED BY <1>4

LEMMA AttemptFree ==
    ASSUME AttemptInv, Cardinality(branches) < MaxAttempts
    PROVE  Attempt \in 1..MaxAttempts
<1>1. CASE executor = "synthetic"
  BY <1>1, ExecutorAssumption DEF Attempt
<1>2. CASE executor # "synthetic"
  <2> DEFINE taken == disk \cup known
             First(a) == a \notin taken /\ \A b \in 1..(a - 1) : b \in taken
             S == {a \in 1..MaxAttempts : a \notin taken}
  <2>1. branches \subseteq 1..MaxAttempts /\ taken \subseteq branches
    BY DEF AttemptInv
  <2>2. branches # 1..MaxAttempts
    <3>1. Cardinality(1..MaxAttempts) = MaxAttempts
      BY FS_Interval, ExecutorAssumption
    <3>2. Cardinality(branches) # MaxAttempts
      <4>1. IsFiniteSet(1..MaxAttempts)  BY FS_Interval, ExecutorAssumption
      <4>2. IsFiniteSet(branches)  BY <2>1, <4>1, FS_Subset
      <4>3. Cardinality(branches) \in Nat  BY <4>2, FS_CardinalityType
      <4> QED BY <4>3, ExecutorAssumption
    <3> QED BY <3>1, <3>2
  <2>3. S # {} /\ S \in SUBSET Nat
    <3>1. PICK a \in 1..MaxAttempts : a \notin branches  BY <2>1, <2>2
    <3>2. a \in S  BY <2>1, <3>1
    <3>3. S \subseteq Nat  BY ExecutorAssumption
    <3> QED BY <3>2, <3>3
  <2>4. PICK w \in S : \A y \in S : w <= y  BY <2>3, LeastOf
  <2>5. w \in 1..(MaxAttempts + 1) /\ First(w)
    <3>1. w \in 1..MaxAttempts /\ w \notin taken  BY <2>4
    <3>2. ASSUME NEW b \in 1..(w - 1) PROVE b \in taken
      <4>1. b \in 1..MaxAttempts /\ ~(w <= b)  BY <3>1, ExecutorAssumption
      <4> QED BY <2>4, <4>1
    <3> QED BY <3>1, <3>2, ExecutorAssumption
  <2>6. Attempt = CHOOSE a \in 1..(MaxAttempts + 1) : First(a)
    BY <1>2 DEF Attempt
  <2> HIDE DEF First
  <2>7. Attempt \in 1..(MaxAttempts + 1) /\ First(Attempt)
    BY <2>5, <2>6
  <2>8. Attempt # MaxAttempts + 1
    <3>1. SUFFICES ASSUME Attempt = MaxAttempts + 1 PROVE FALSE
      OBVIOUS
    <3>2. w \in 1..MaxAttempts /\ w \notin taken  BY <2>4
    <3>3. Attempt - 1 = MaxAttempts  BY <3>1, ExecutorAssumption
    <3>4. \A b \in 1..MaxAttempts : b \in taken  BY <2>7, <3>3 DEF First
    <3> QED BY <3>2, <3>4
  <2> QED BY <2>7, <2>8, ExecutorAssumption
<1> QED BY <1>1, <1>2

LEMMA PrepareWorktreeStep == EInv /\ PrepareWorktree => EInv'
<1> SUFFICES ASSUME EInv, PrepareWorktree PROVE EInv'
  OBVIOUS
<1>1. CASE Creatable(Attempt)
  <2>a. LoopIsFresh'  BY <1>1, FreshLoopIs DEF PrepareWorktree
  <2>b. /\ stage = "worktree"
        /\ stage' = IF executor = "model" THEN "ask" ELSE "synthetic"
        /\ attempt' = Attempt
        /\ disk' = disk \cup {Attempt} /\ known' = known \cup {Attempt}
        /\ branches' = branches \cup {Attempt}
        /\ heads' = [heads EXCEPT ![Attempt] = "base"]
        /\ tree' = base /\ fresh' = TRUE /\ head' = None /\ ignored' = {} /\ session' = 1
        /\ UNCHANGED <<executor, base, why>>
    BY <1>1 DEF PrepareWorktree, setting
  <2>c. Attempt \in 1..MaxAttempts
    BY <2>b, AttemptFree DEF EInv, AttemptInv
  <2> USE ExecutorAssumption, NoneIs, <2>a, <2>b DEF LoopIsFresh
  <2>1. EType'  BY DEF EInv, EType, Stages
  <2>2. LimitInv'  BY DEF EInv, LimitInv
  <2>3. AttemptInv'
    <3>1. heads' \in [1..MaxAttempts + 1 -> {"none", "base", "candidate"}]
      BY DEF EInv, AttemptInv
    <3>2. \A a \in 1..MaxAttempts + 1 : heads'[a] # "none" => a \in branches'
      BY DEF EInv, AttemptInv
    <3> QED BY <2>c, <3>1, <3>2 DEF EInv, AttemptInv
  <2>4. CycleInv'  BY DEF CycleInv
  <2>5. IdleInv'  BY DEF IdleInv
  <2>6. HeadInv'  BY DEF HeadInv
  <2> QED BY <2>1, <2>2, <2>3, <2>4, <2>5, <2>6 DEF EInv
<1>2. CASE ~Creatable(Attempt)
  <2>a. /\ stage' = "end"
        /\ UNCHANGED <<executor, base, session, tree, head, ignored, red, green, idle, dirty, silent,
                       turn, left, changed, ran, attempt, disk, known, branches, heads,
                       cycle, fresh, moved, useful, repeats>>
    BY <1>2 DEF PrepareWorktree, EndRun, setting, candidate, loop, reply, trees, observed
  <2>1. EType'  BY <2>a DEF EInv, EType, Flags, Stages
  <2>2. LimitInv'  BY <2>a DEF EInv, LimitInv
  <2>3. AttemptInv'  BY <2>a DEF EInv, AttemptInv
  <2>4. CycleInv'  BY <2>a DEF EInv, CycleInv
  <2>5. IdleInv'  BY <2>a DEF EInv, IdleInv
  <2>6. HeadInv'  BY <2>a DEF EInv, HeadInv
  <2> QED BY <2>1, <2>2, <2>3, <2>4, <2>5, <2>6 DEF EInv
<1> QED BY <1>1, <1>2

(***************************************************************************)
(* The invariant.                                                          *)
(***************************************************************************)
LEMMA EInvInit == ExecutorInit => EInv
<1> SUFFICES ASSUME ExecutorInit PROVE EInv
  OBVIOUS
<1> USE ExecutorAssumption, NoneIs DEF ExecutorInit
<1>1. EType
  <2>1. Flags  BY DEF Flags
  <2> QED BY <2>1 DEF EType, Stages
<1>2. LimitInv  BY DEF LimitInv
<1>3. AttemptInv
  <2>1. Cardinality(branches) = 0  BY FS_EmptySet
  <2> QED BY <2>1 DEF AttemptInv
<1>4. CycleInv  BY DEF CycleInv
<1>5. IdleInv  BY DEF IdleInv
<1>6. HeadInv  BY DEF HeadInv
<1> QED BY <1>1, <1>2, <1>3, <1>4, <1>5, <1>6 DEF EInv

LEMMA EInvStutter == EInv /\ UNCHANGED evars => EInv'
<1> SUFFICES ASSUME EInv, UNCHANGED evars PROVE EInv'
  OBVIOUS
<1>1. EType'  BY DEF EInv, EType, Flags, evars
<1>2. LimitInv'  BY DEF EInv, LimitInv, evars
<1>3. AttemptInv'  BY DEF EInv, AttemptInv, evars
<1>4. CycleInv'  BY DEF EInv, CycleInv, evars
<1>5. IdleInv'  BY DEF EInv, IdleInv, evars
<1>6. HeadInv'  BY DEF EInv, HeadInv, evars
<1> QED BY <1>1, <1>2, <1>3, <1>4, <1>5, <1>6 DEF EInv

LEMMA EInvStep == EInv /\ [ExecutorNext]_evars => EInv'
BY EInvStutter,
       PlanStep, PrepareWorktreeStep, RuntimeFailsStep, TruncatedStep, ProseStep,
       BeginCallsStep, UseToolStep, ToolBreaksStep, EndTurnStep, OutOfTurnsStep,
       LeaveLoopStep, ReportStep, ReportToolStep, EndReportStep, FinishStep, SyntheticStep,
       AfterSessionStep, GatesStep, JudgeStep, VerifyStep, RetireStep, RemoveByHandStep,
       CommissionAgainStep
   DEF ExecutorNext

LEMMA ExecutorInvariant == ExecutorSpec => []EInv
BY EInvInit, EInvStep, PTL DEF ExecutorSpec

(***************************************************************************)
(* What a run guarantees.                                                  *)
(***************************************************************************)

\* Every variable keeps its type; turns, silent turns, idle runs and calls stay within
\* the limits of model_executor.py; and every directory has a branch.
THEOREM ExecutorTypeCorrect == ExecutorSpec => []ExecutorTypeOK
<1>1. EInv => ExecutorTypeOK
  <2> SUFFICES ASSUME EInv PROVE ExecutorTypeOK
    OBVIOUS
  <2>1. /\ idle \in 0..MaxIdleTestRuns /\ silent \in 0..(MaxSilentTurns - 1)
        /\ turn \in 0..(IF MaxToolTurns > DeliverableTurns THEN MaxToolTurns
                         ELSE DeliverableTurns)
    BY ExecutorAssumption DEF EInv, EType, LimitInv
  <2>2. {changed, ran, fresh, moved, useful} \subseteq BOOLEAN /\ dirty \in BOOLEAN
    BY DEF EInv, EType, Flags
  <2>3. /\ attempt \in 1..MaxAttempts \cup {None}
        /\ {disk, known} \subseteq SUBSET branches /\ branches \subseteq 1..MaxAttempts
        /\ heads \in [1..MaxAttempts + 1 -> {"none", "base", "candidate"}]
    BY DEF EInv, AttemptInv
  <2>4. ignored \subseteq DOMAIN tree
    BY DEF EInv, EType, Tree
  <2> QED BY <2>1, <2>2, <2>3, <2>4 DEF EInv, EType, Stages, ExecutorTypeOK
<1> QED BY <1>1, ExecutorInvariant, PTL

\* implement(): what reaches the gates was seen red and then green in one session.
THEOREM CandidatesWereRedThenGreen == ExecutorSpec => []CandidateWasRedThenGreen
<1>1. EInv => CandidateWasRedThenGreen
  BY DEF EInv, CycleInv, CandidateWasRedThenGreen
<1> QED BY <1>1, ExecutorInvariant, PTL

\* implement(): a session refused for idling asked, turn after turn, about files the suite
\* had been run on: MAX_IDLE_TEST_RUNS times if it had moved a file, at most once less if
\* it had not.
THEOREM IdlingWasIdleIndeed == ExecutorSpec => []IdlingWasIdle
<1>1. EInv => IdlingWasIdle
  BY ExecutorAssumption DEF EInv, EType, IdleInv, IdlingWasIdle
<1> QED BY <1>1, ExecutorInvariant, PTL

\* The gates: reviewers are asked about a commit of its own that touches no protected path;
\* every deliverable is in the worktree, and in the commit unless git ignores it.
THEOREM ReviewedIsAlwaysWork == ExecutorSpec => []ReviewedIsWork
<1>1. EInv => ReviewedIsWork
  BY DEF EInv, HeadInv, ReviewedIsWork, Reviewing
<1> QED BY <1>1, ExecutorInvariant, PTL

\* worktrees/manager.py: no step moves a branch that holds a candidate.
THEOREM CandidatesStay == ExecutorSpec => CandidatesOutliveTrees
<1> DEFINE Stay == \A a \in DOMAIN heads : heads[a] = "candidate" => heads'[a] = "candidate"
<1>1. EInv /\ [ExecutorNext]_evars => [Stay]_evars
  <2> SUFFICES ASSUME EInv, ExecutorNext PROVE Stay
    BY DEF evars
  <2>1. CASE PrepareWorktree
    <3>1. CASE Creatable(Attempt)
      <4>1. Attempt \notin branches /\ heads' = [heads EXCEPT ![Attempt] = "base"]
        BY <2>1, <3>1 DEF PrepareWorktree, Creatable
      <4> QED BY <4>1 DEF EInv, AttemptInv
    <3>2. CASE ~Creatable(Attempt)
      BY <2>1, <3>2 DEF PrepareWorktree, trees
    <3> QED BY <3>1, <3>2
  <2>2. CASE Finish \/ Synthetic
    <3>1. heads' = heads \/ heads' = [heads EXCEPT ![attempt] = "candidate"]
      BY <2>2 DEF Finish, Synthetic, Commit
    <3> QED BY <3>1 DEF EInv, AttemptInv
  <2>3. CASE
          Plan \/ RuntimeFails \/ Truncated \/ Prose \/ BeginCalls \/ UseTool \/ ToolBreaks
          \/ EndTurn \/ OutOfTurns \/ LeaveLoop \/ Report \/ ReportTool \/ EndReport \/
          AfterSession \/ Gates \/ Judge \/ Verify \/ Retire \/ RemoveByHand \/
          CommissionAgain
    <3>1. UNCHANGED heads
      BY <2>3
      DEF Plan, RuntimeFails, Truncated, Prose, BeginCalls, UseTool, ToolBreaks, EndTurn,
          OutOfTurns, LeaveLoop, Report, ReportTool, EndReport, AfterSession, Gates, Judge,
          Verify, Retire, RemoveByHand, CommissionAgain, Stop, AtTheEnd, trees
    <3> QED BY <3>1
  <2> QED BY <2>1, <2>2, <2>3 DEF ExecutorNext
<1> QED BY <1>1, ExecutorInvariant, PTL DEF ExecutorSpec, CandidatesOutliveTrees
=============================================================================
