------------------------------ MODULE Executor -----------------------------
(***************************************************************************)
(* How one package is worked on once its runtimes are bound: the plan, the  *)
(* worktree of the attempt (dume/worktrees/manager.py), the implementer's   *)
(* tool loop (dume/control/model_executor.py, agent_tools.py), the second   *)
(* session after a runtime switch, the mechanical gates and the reviews     *)
(* (dume/control/orchestrator.py).  The synthetic stand-in of executors.py  *)
(* takes the same route.  What a model answers is left open at every turn.  *)
(*                                                                         *)
(* A tree is abstracted to what the test suite and the gates see of it.    *)
(***************************************************************************)
EXTENDS Integers, FiniteSets

CONSTANTS
    Executors,         \* which run: "model", "synthetic"
    Bases,             \* the trees the target repository may start from
    MaxToolTurns,      \* MAX_TOOL_TURNS
    MaxSilentTurns,    \* MAX_SILENT_TURNS
    MaxIdleTestRuns,   \* MAX_IDLE_TEST_RUNS
    DeliverableTurns,  \* DELIVERABLE_TURNS
    MaxCalls,          \* bound: tool calls in one reply
    MaxAttempts,       \* bound: attempts at the package
    None

ASSUME ExecutorAssumption ==
    /\ MaxToolTurns \in Nat \ {0} /\ MaxSilentTurns \in Nat \ {0}
    /\ MaxIdleTestRuns \in Nat \ {0} /\ DeliverableTurns \in Nat
    /\ MaxCalls \in Nat \ {0} /\ MaxAttempts \in Nat \ {0}

VARIABLES
    executor, base,
    stage,     \* where the run stands
    session,   \* 1, or 2 after the switch
    tree,      \* the worktree's files
    head,      \* the candidate's files, or None while HEAD is the base commit
    ignored,   \* what git was told to leave out of that commit
    red, green, idle, dirty, silent, turn,       \* the locals of implement()
    left,      \* calls the reply being executed may still make
    changed, ran,      \* whether it has counted as a change, has run the tests
    why,       \* why the session, or the run, stopped
    verdict,   \* the failure class, "BLOCKED", "PASSED", or None
    attempt,   \* the worktree in use
    disk, known, branches,  \* attempts with a directory, registered in git, with a branch
    heads,     \* what each attempt's branch points at: "none", "base" or "candidate"
    cycle,     \* 0, 1 once this session saw a test not pass, 2 once it passed after
    fresh,     \* no run of the tests was asked for on the files as they are
    moved,     \* this session has moved a file
    useful,    \* this turn moved a file or asked about a fresh tree
    repeats    \* turns in a row that only asked again

loop     == <<red, green, idle, dirty, silent, turn>>
reply    == <<left, changed, ran>>
trees    == <<attempt, disk, known, branches, heads>>
observed == <<cycle, fresh, moved, useful, repeats>>
candidate == <<head, ignored>>
setting  == <<executor, base>>
evars    == <<executor, base, stage, session, tree, head, ignored, red, green, idle, dirty,
              silent, turn, left, changed, ran, why, verdict, attempt, disk, known,
              branches, heads, cycle, fresh, moved, useful, repeats>>

-----------------------------------------------------------------------------
(* Trees, and what pytest says of one *)

Tree == [test   : {"absent", "vacuous", "real"},
         code   : {"absent", "wrong", "right"},
         docs   : BOOLEAN,      \* every deliverable is there and not hollow
         frozen : BOOLEAN]      \* no protected path differs from the base

Exit(t) == IF t.test = "absent" THEN 5
           ELSE IF t.test = "vacuous" THEN 0
           ELSE IF t.code = "absent" THEN 2
           ELSE IF t.code = "wrong" THEN 1
           ELSE 0

\* Mutant: any exit code but success is red.
RedAnyFailure == {1, 2, 5}
Red == {1, 2}

ASSUME TreeAssumption ==
    /\ Bases \subseteq {t \in Tree : t.frozen}
    /\ None \notin Tree /\ None \notin Int
    /\ None \notin {"empty", "protected path", "deliverables"}

\* Every file a tool call can write; none of the tools removes one.
Edits(t) ==
    ({[t EXCEPT !.test = x] : x \in {"vacuous", "real"}}
     \cup {[t EXCEPT !.code = x] : x \in {"wrong", "right"}}
     \cup {[t EXCEPT !.docs = x] : x \in BOOLEAN}
     \cup {[t EXCEPT !.frozen = x] : x \in BOOLEAN}) \ {t}

\* What a tool call can come to: the files after it, whether the loop counts it
\* as a change, whether it ran the tests, and their exit code if they ran.
\* append_file, a refused write and unreadable arguments carry no "changed" and
\* count as one; a write of what is already there does not.
ToolCall(t) ==
    {[tree |-> u, counts |-> TRUE, ran |-> FALSE, exit |-> None] : u \in Edits(t)}
    \cup {[tree |-> t, counts |-> c, ran |-> FALSE, exit |-> None] : c \in BOOLEAN}
    \cup {[tree |-> t, counts |-> FALSE, ran |-> TRUE, exit |-> x] : x \in {Exit(t), None}}

-----------------------------------------------------------------------------
(* Sessions *)

FreshLoop ==
    /\ red' = None /\ green' = None /\ idle' = 0 /\ dirty' = FALSE
    /\ silent' = 0 /\ turn' = 0
    /\ left' = 0 /\ changed' = FALSE /\ ran' = FALSE
    /\ cycle' = 0 /\ moved' = FALSE /\ useful' = FALSE /\ repeats' = 0

\* The session raised: "refused" for ModelError and ImplementationRefused,
\* "broken" for anything else.
Stop(how, because) ==
    /\ stage' = how /\ why' = because
    /\ UNCHANGED <<setting, session, tree, candidate, loop, reply, verdict, trees, observed>>

EndRun(v, because) ==
    /\ stage' = "end" /\ verdict' = v /\ why' = because

\* _client outside any try: no runtime is bound for the role, and the run raises.
NoClient == executor = "model" /\ EndRun("RAISED", "no client")

-----------------------------------------------------------------------------
(* plan() and prepare_worktree() *)

\* json_reply: no content, prose and a tool call are asked about once more.
JsonReply(first, second) ==
    IF first = "object" \/ first = "down" THEN first
    ELSE IF second = "object" THEN "object" ELSE "down"

Answers == {"object", "not_json", "down"}

Plan ==
    /\ stage = "plan"
    /\ \/ NoClient
       \/ \E first, second \in Answers :
            IF executor = "model" /\ JsonReply(first, second) = "down"
            THEN EndRun("RUNTIME_FAILURE", "no plan")
            ELSE \/ stage' = "worktree" /\ UNCHANGED <<verdict, why>>
                 \/ executor = "model" /\ EndRun("BLOCKED", "not satisfiable")
    /\ UNCHANGED <<setting, session, tree, candidate, loop, reply, trees, observed>>

\* The first attempt whose path is neither on disk nor known to git.
Attempt ==
    IF executor = "synthetic" THEN 1
    ELSE CHOOSE a \in 1..(MaxAttempts + 1) :
           /\ a \notin disk \cup known
           /\ \A b \in 1..(a - 1) : b \in disk \cup known

\* create(): the path must be free, and git refuses a branch that exists.
\* Mutant: the branch is made over (-B).
CreatableByForce(a) == a \notin disk

Creatable(a) == a \notin disk /\ a \notin branches

PrepareWorktree ==
    /\ stage = "worktree"
    /\ IF Creatable(Attempt)
       THEN /\ attempt' = Attempt
            /\ disk' = disk \cup {Attempt} /\ known' = known \cup {Attempt}
            /\ branches' = branches \cup {Attempt}
            /\ heads' = [heads EXCEPT ![Attempt] = "base"]
            /\ tree' = base /\ fresh' = TRUE /\ session' = 1
            /\ head' = None /\ ignored' = {}
            /\ stage' = IF executor = "model" THEN "ask" ELSE "synthetic"
            /\ FreshLoop
            /\ UNCHANGED <<verdict, why>>
       ELSE /\ EndRun("HARNESS_FAILURE", "worktree")
            /\ UNCHANGED <<session, tree, candidate, loop, reply, trees, observed>>
    /\ UNCHANGED setting

-----------------------------------------------------------------------------
(* implement(): the tool loop *)

Turns == stage = "ask" /\ turn < MaxToolTurns

\* The runtime fails to answer, or none is bound when the session starts.
RuntimeFails ==
    /\ Turns
    /\ Stop("refused", "runtime")

\* A tool call cut off, and cut off again with twice the budget.
Truncated ==
    /\ Turns
    /\ Stop("refused", "truncated")

\* No tool call.  The DONE that ends the loop is never heard: it asks for a green run,
\* and the turn that had one was the last.
Prose ==
    /\ Turns
    /\ \/ /\ silent + 1 >= MaxSilentTurns
          /\ Stop("refused", "prose")
       \/ /\ silent + 1 < MaxSilentTurns
          /\ silent' = silent + 1 /\ turn' = turn + 1
          /\ UNCHANGED <<setting, stage, session, tree, candidate, red, green, idle, dirty,
                         reply, why, verdict, trees, observed>>

BeginCalls ==
    /\ Turns
    /\ stage' = "calls" /\ silent' = 0
    /\ left' = MaxCalls /\ changed' = FALSE /\ ran' = FALSE /\ useful' = FALSE
    /\ UNCHANGED <<setting, session, tree, candidate, red, green, idle, dirty, turn, why,
                   verdict, trees, cycle, fresh, moved, repeats>>

\* What the files and the suite show of the call, whatever the loop makes of it.
Watch(c) ==
    /\ cycle' = IF c.exit = None \/ c.tree.test = "absent" THEN cycle
                ELSE IF Exit(c.tree) # 0 THEN (IF cycle = 0 THEN 1 ELSE cycle)
                ELSE IF cycle = 1 THEN 2 ELSE cycle
    /\ fresh' = IF c.ran THEN FALSE ELSE fresh \/ c.tree # tree
    /\ moved' = (moved \/ c.tree # tree)
    /\ useful' = (useful \/ c.tree # tree \/ (c.ran /\ fresh))
    /\ UNCHANGED repeats

UseTool ==
    /\ stage = "calls" /\ left > 0
    /\ \E c \in ToolCall(tree) :
         /\ tree' = c.tree
         /\ left' = left - 1
         /\ changed' = (changed \/ c.counts)
         /\ ran' = (ran \/ c.ran)
         /\ red' = IF red = None /\ c.exit \in Red THEN c.exit ELSE red
         /\ green' = IF red # None /\ c.exit = 0 THEN 0 ELSE green
         /\ Watch(c)
    /\ UNCHANGED <<setting, stage, session, candidate, idle, dirty, silent, turn, why, verdict,
                   trees>>

\* An error of the file system (a path that is a directory, say) is not caught.
ToolBreaks ==
    /\ stage \in {"calls", "reportcalls"} /\ left > 0
    /\ Stop("broken", "broken")

\* Turns in a row without a change to run the tests on.
\* Mutant: what changed before the last run is forgotten.
IdleWhateverChanged == IF changed THEN 0 ELSE IF ran THEN idle + 1 ELSE 0

IdleRuns ==
    IF changed THEN 0
    ELSE IF ran THEN (IF dirty THEN 0 ELSE idle + 1)
    ELSE 0

EndTurn ==
    /\ stage = "calls" /\ left < MaxCalls
    /\ idle' = IdleRuns
    /\ dirty' = IF changed THEN TRUE ELSE IF ran THEN FALSE ELSE dirty
    /\ repeats' = IF ran /\ ~useful THEN repeats + 1 ELSE 0
    /\ turn' = turn + 1
    /\ left' = 0 /\ changed' = FALSE /\ ran' = FALSE /\ useful' = FALSE
    /\ IF IdleRuns >= MaxIdleTestRuns
       THEN stage' = "refused" /\ why' = "idle"
       ELSE /\ stage' = IF red # None /\ green = 0 THEN "written" ELSE "ask"
            /\ UNCHANGED why
    /\ UNCHANGED <<setting, session, tree, candidate, red, green, silent, verdict, trees,
                   cycle, fresh, moved>>

OutOfTurns ==
    /\ stage = "ask" /\ turn = MaxToolTurns
    /\ stage' = "written"
    /\ UNCHANGED <<setting, session, tree, candidate, loop, reply, why, verdict, trees,
                   observed>>

-----------------------------------------------------------------------------
(* implement(): the deliverables, and the commit *)

LeaveLoop ==
    /\ stage = "written"
    /\ stage' = "report" /\ turn' = 0
    /\ UNCHANGED <<setting, session, tree, candidate, red, green, idle, dirty, silent, reply, why,
                   verdict, trees, observed>>

Reporting == green = 0 /\ ~tree.docs /\ turn < DeliverableTurns

\* The turns in which only deliverables are asked for.  The tools are the same and
\* what they do to the tests is no longer looked at.
Report ==
    /\ stage = "report"
    /\ \/ /\ stage' = "finish"              \* nothing outstanding, or no call made
          /\ UNCHANGED <<left, why>>
       \/ /\ Reporting
          /\ stage' = "reportcalls" /\ left' = MaxCalls
          /\ UNCHANGED why
       \/ /\ Reporting
          /\ stage' = "refused" /\ why' = "runtime"
          /\ UNCHANGED left
    /\ UNCHANGED <<setting, session, tree, candidate, loop, changed, ran, verdict, trees,
                   observed>>

ReportTool ==
    /\ stage = "reportcalls" /\ left > 0
    /\ \E c \in ToolCall(tree) : tree' = c.tree /\ Watch(c)
    /\ left' = left - 1
    /\ UNCHANGED <<setting, stage, session, candidate, loop, changed, ran, why, verdict, trees>>

EndReport ==
    /\ stage = "reportcalls" /\ left < MaxCalls
    /\ stage' = "report" /\ turn' = turn + 1 /\ left' = 0 /\ useful' = FALSE
    /\ UNCHANGED <<setting, session, tree, candidate, red, green, idle, dirty, silent, changed,
                   ran, why, verdict, trees, cycle, fresh, moved, repeats>>

\* What of the files a .gitignore may name: what the base does not track.
Ignorable(t) ==
    {f \in {"test", "code"} : base[f] = "absent" /\ t[f] # "absent"}
    \cup {f \in {"docs"} : t[f] /\ ~base[f]}
    \cup {f \in {"frozen"} : ~t[f]}

\* git add -A leaves out what is ignored.
CommitOf(t, left_out) ==
    [f \in DOMAIN t |-> IF f \in left_out THEN base[f] ELSE t[f]]

\* git refuses a commit that changes nothing.
Commit(t) ==
    /\ \E left_out \in SUBSET Ignorable(t) :
         /\ CommitOf(t, left_out) # base
         /\ head' = CommitOf(t, left_out) /\ ignored' = left_out
    /\ heads' = [heads EXCEPT ![attempt] = "candidate"]

\* A commit can also fail for want of an identity.
Finish ==
    /\ stage = "finish"
    /\ \/ /\ (red = None \/ green # 0)
          /\ stage' = "refused" /\ why' = "no cycle"
          /\ UNCHANGED <<candidate, heads>>
       \/ /\ red # None /\ green = 0
          /\ stage' = "refused" /\ why' = "commit"
          /\ UNCHANGED <<candidate, heads>>
       \/ /\ red # None /\ green = 0
          /\ Commit(tree)
          /\ stage' = "gates"
          /\ UNCHANGED why
    /\ UNCHANGED <<setting, session, tree, loop, reply, verdict, attempt, disk, known,
                   branches, observed>>

\* SyntheticExecutor.implement: its red run must fail, its green run is recorded as it
\* comes, a deliverable already there is left as it is, and a commit that fails is not
\* noticed.
Synthetic ==
    /\ stage = "synthetic"
    /\ \E inject \in {None, "implementation", "protected_path"}, d \in {TRUE, base.docs} :
         tree' = [test   |-> "real",
                  code   |-> IF inject = "implementation" THEN "wrong" ELSE "right",
                  docs   |-> d,
                  frozen |-> inject # "protected_path"]
    /\ cycle' = IF tree'.code = "right" THEN 2 ELSE 1
    /\ Commit(tree') \/ UNCHANGED <<candidate, heads>>
    /\ stage' = "gates"
    /\ UNCHANGED <<setting, session, loop, reply, why, verdict, attempt, disk, known,
                   branches, fresh, moved, useful, repeats>>

-----------------------------------------------------------------------------
(* The orchestrator on what implement() did *)

Blame == IF stage = "refused" \/ session = 2 THEN "RUNTIME_FAILURE"
         ELSE "IMPLEMENTATION_FAILURE"

\* Mutant: the number of switches is not bounded.
SwitchWheneverRefused == stage = "refused"

SwitchOnce == stage = "refused" /\ session = 1

\* should_switch says no, switch refuses, or the role is rebound and the second
\* session starts in the same worktree.
AfterSession ==
    /\ stage \in {"refused", "broken"}
    /\ \/ EndRun(Blame, why) /\ UNCHANGED session
       \/ SwitchOnce /\ EndRun("BLOCKED", "no other runtime") /\ UNCHANGED session
       \/ /\ SwitchOnce
          /\ session' = 2 /\ stage' = "ask" /\ why' = None
          /\ UNCHANGED verdict
    /\ FreshLoop                              \* the locals of the session are gone
    /\ UNCHANGED <<setting, tree, candidate, trees, fresh>>

\* Mutant: a branch without a commit of its own is let through.
GateRefusalByDiffAlone ==
    IF head # None /\ ~head.frozen THEN "protected path"
    ELSE IF ~tree.docs THEN "deliverables" ELSE None

\* The base commit is not a candidate; then protected paths, by the diff, and
\* deliverables, by the files.
GateRefusal ==
    IF head = None THEN "empty"
    ELSE IF ~head.frozen THEN "protected path"
    ELSE IF ~tree.docs THEN "deliverables" ELSE None

Gates ==
    /\ stage = "gates"
    /\ \/ IF GateRefusal = None
          THEN stage' = "specification" /\ UNCHANGED <<verdict, why>>
          ELSE EndRun("IMPLEMENTATION_FAILURE", GateRefusal)
       \/ EndRun("RAISED", "git")             \* the diff fails
    /\ FreshLoop
    /\ UNCHANGED <<setting, session, tree, candidate, trees, fresh>>

\* Two reviewers' judgements, the model's or the stand-in's.
Judge ==
    /\ stage \in {"specification", "quality"}
    /\ \/ /\ stage' = IF stage = "specification" THEN "quality" ELSE "verification"
          /\ executor = "synthetic" /\ stage = "quality" => tree.code = "right"
          /\ UNCHANGED <<verdict, why>>
       \/ \E class \in {"IMPLEMENTATION_FAILURE", "SPEC_MISINTERPRETATION",
                        "RUNTIME_FAILURE", "HARNESS_FAILURE"} : EndRun(class, "review")
       \/ NoClient
    /\ UNCHANGED <<setting, session, tree, candidate, loop, reply, trees, observed>>

\* A fresh checkout of the candidate; the verifier's word is recorded beside it.
Verified(word) == Exit(head) = 0

Verify ==
    /\ stage = "verification"
    /\ \/ \E word \in {"PASS", "FAIL", None} :
            IF Verified(word) THEN EndRun("PASSED", None)
            ELSE EndRun("IMPLEMENTATION_FAILURE", "verification")
       \/ EndRun("RAISED", "no checkout")
       \/ NoClient
    /\ UNCHANGED <<setting, session, tree, candidate, loop, reply, trees, observed>>

-----------------------------------------------------------------------------
(* Between attempts *)

AtTheEnd == stage = "end" /\ UNCHANGED <<setting, session, tree, candidate, loop, reply,
                                         why, verdict, observed>>

\* retire(): the directory and its registration go, the branch stays.
Retire ==
    /\ AtTheEnd
    /\ \E a \in disk : disk' = disk \ {a} /\ known' = known \ {a}
    /\ UNCHANGED <<stage, attempt, branches, heads>>

\* Somebody removes a directory by hand: git goes on naming it.
RemoveByHand ==
    /\ AtTheEnd
    /\ \E a \in disk : disk' = disk \ {a}
    /\ UNCHANGED <<stage, attempt, known, branches, heads>>

CommissionAgain ==
    /\ stage = "end" /\ Cardinality(branches) < MaxAttempts
    /\ stage' = "plan" /\ session' = 1 /\ tree' = base /\ fresh' = TRUE
    /\ head' = None /\ ignored' = {}
    /\ why' = None /\ verdict' = None
    /\ FreshLoop
    /\ UNCHANGED <<setting, trees>>

-----------------------------------------------------------------------------
(* The specification *)

ExecutorInit ==
    /\ executor \in Executors /\ base \in Bases
    /\ stage = "plan" /\ session = 1 /\ tree = base
    /\ head = None /\ ignored = {}
    /\ red = None /\ green = None /\ idle = 0 /\ dirty = FALSE /\ silent = 0 /\ turn = 0
    /\ left = 0 /\ changed = FALSE /\ ran = FALSE
    /\ why = None /\ verdict = None
    /\ attempt = None /\ disk = {} /\ known = {} /\ branches = {}
    /\ heads = [a \in 1..MaxAttempts + 1 |-> "none"]
    /\ cycle = 0 /\ fresh = TRUE /\ moved = FALSE /\ useful = FALSE /\ repeats = 0

ExecutorNext ==
    \/ Plan \/ PrepareWorktree
    \/ RuntimeFails \/ Truncated \/ Prose \/ BeginCalls \/ UseTool \/ ToolBreaks
    \/ EndTurn \/ OutOfTurns
    \/ LeaveLoop \/ Report \/ ReportTool \/ EndReport \/ Finish \/ Synthetic
    \/ AfterSession \/ Gates \/ Judge \/ Verify
    \/ Retire \/ RemoveByHand \/ CommissionAgain

\* The run is one synchronous call, and what it waits for has a time limit (a model's
\* answer, the suite when the model asks for it) or is short.  The suite that Synthetic
\* and Verify run has none: a test that never returns keeps the run there for good.
Timed ==
    \/ Plan \/ PrepareWorktree
    \/ RuntimeFails \/ Truncated \/ Prose \/ BeginCalls \/ UseTool \/ ToolBreaks
    \/ EndTurn \/ OutOfTurns
    \/ LeaveLoop \/ Report \/ ReportTool \/ EndReport \/ Finish
    \/ AfterSession \/ Gates \/ Judge

ExecutorSpec == ExecutorInit /\ [][ExecutorNext]_evars /\ WF_evars(Timed)

-----------------------------------------------------------------------------
(* Properties *)

\* Every variable keeps its type, the locals of the loop stay within the limits
\* named at the top of model_executor.py, and a branch exists for every directory.
ExecutorTypeOK ==
    /\ executor \in Executors /\ base \in Bases
    /\ stage \in {"plan", "worktree", "ask", "calls", "written", "report", "reportcalls",
                  "finish", "synthetic", "refused", "broken", "gates", "specification",
                  "quality", "verification", "end"}
    /\ session \in 1..2
    /\ tree \in Tree /\ head \in Tree \cup {None} /\ ignored \subseteq DOMAIN tree
    /\ red \in {1, 2, None} /\ green \in {0, None}
    /\ idle \in 0..MaxIdleTestRuns /\ silent \in 0..(MaxSilentTurns - 1)
    /\ dirty \in BOOLEAN
    /\ turn \in 0..(IF MaxToolTurns > DeliverableTurns THEN MaxToolTurns ELSE DeliverableTurns)
    /\ left \in 0..MaxCalls
    /\ {changed, ran, fresh, moved, useful} \subseteq BOOLEAN
    /\ attempt \in 1..MaxAttempts \cup {None}
    /\ {disk, known} \subseteq SUBSET branches /\ branches \subseteq 1..MaxAttempts
    /\ heads \in [1..MaxAttempts + 1 -> {"none", "base", "candidate"}]
    /\ cycle \in 0..2 /\ repeats \in Nat

\* A candidate is handed over only where a test was seen not passing and later passing
\* within one session, on trees that had a test, whatever the session before it saw
\* and in whatever order files were written and tests run (red_exit, green_exit).
CandidateWasRedThenGreen == stage = "gates" /\ executor = "model" => cycle = 2

\* A session refused for idling had asked, turn after turn, about files the suite had
\* already been run on: write, run, write, run is never refused.  A session that moved a
\* file did so MAX_IDLE_TEST_RUNS times.  One that moved none may have done so once less:
\* its first run counts as idle whether or not the tree was ever run on.
IdlingWasIdle ==
    stage = "refused" /\ why = "idle" =>
        /\ repeats >= MaxIdleTestRuns - 1
        /\ moved => repeats >= MaxIdleTestRuns

Reviewing == stage \in {"specification", "quality", "verification"}

\* What reviewers are asked about is a commit of its own that touches no protected path,
\* every deliverable is in the worktree, and none is missing from the commit but for being
\* ignored by git, whichever executor made it and however the turns after the green run
\* changed it.
ReviewedIsWork ==
    Reviewing => /\ head # None /\ head.frozen
                 /\ tree.docs /\ (head.docs \/ "docs" \in ignored)

\* A branch that holds a candidate holds it for good: neither retiring its worktree
\* nor preparing another attempt moves it.
CandidatesOutliveTrees ==
    [][\A a \in DOMAIN heads : heads[a] = "candidate" => heads'[a] = "candidate"]_evars

\* Whatever the models answer, a run comes to its end, or to one of the two places where
\* it waits for a suite without a time limit: turns, silent turns, idle runs, deliverable
\* turns and the one switch are all bounded.
RunsEnd == stage # "end" ~> stage \in {"end", "synthetic", "verification"}

-----------------------------------------------------------------------------
(* What the repository says and the code does not do (README, section 5) *)

\* model_executor.py:354-357, of the attempt id: a package that could be
\* commissioned only once is what it is there to prevent.
AlwaysCommissionedAgain == executor = "model" => why # "worktree"

\* orchestrator.py:537, "the candidate does not contain": the gate looks for deliverables
\* in the worktree, where an ignored one is and the candidate has none.
ReviewedHoldsDeliverables == Reviewing => head.docs
=============================================================================
