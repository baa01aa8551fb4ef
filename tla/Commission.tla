---------------------------- MODULE Commission -----------------------------
(***************************************************************************)
(* Commissioning real work (dume/control/commission.py): processes that    *)
(* each commission one package, the pid file that says a run is alive, the *)
(* recovery of a run that was killed, and the operator who seeds, blocks,  *)
(* retries, unblocks and accepts packages and appends evidence meanwhile   *)
(* (dume/cli.py, dume/control/intent_handler.py).                          *)
(***************************************************************************)
EXTENDS Orchestrator

CONSTANTS
    OperatorTargets,   \* the states the operator moves packages to
    Attestations,      \* the answers the operator appends: a kind, an actor, a verdict
    MaxIncidents       \* bound: kills, unreadable answers of the relay, answers appended

VARIABLES
    lock,       \* the pid in state/commissioning.pid: None, a process, or Stale
    blocking,   \* packages the operator has blocked without the finding yet
    incidents,  \* how many of them there have been
    attested    \* history: the evidence rows of a package no run wrote

cvars == <<vars, ovars, lock, blocking, incidents, attested>>

Stale == "STALE"            \* the pid of a process that is gone

ASSUME ProcessAssumption ==
    /\ Proc \cap {None, Stale} = {}
    /\ OperatorTargets \subseteq States
    /\ Attestations \subseteq [kind : Kinds, actor : Actor, verdict : {"PASS", "FAIL"}]
    /\ MaxIncidents \in Nat

\* Mutant: the file alone says that a run is alive.
LockFileExists == lock # None

\* _lock_holder(): a pid file that outlives its process holds nothing.
LockHeld == lock \in Proc

outside == <<vars, made, blocking, incidents, attested>>

(***************************************************************************)
(* commission.run(), up to the run itself.                                 *)
(***************************************************************************)
Invoke(p, w) ==
    /\ run[p].at = "idle"
    /\ run' = [run EXCEPT ![p] = [Idle EXCEPT !.at = "admit", !.wp = w]]
    /\ UNCHANGED <<outside, lock>>

\* Where the state of the row sends the invocation; NotCommissionable otherwise.
\* The row is read again after each recovery, and each is tried once.
Admission(step, s) ==
    CASE s = "EXECUTING" /\ step = "admit" -> "holder"
      [] s = "FAILED" /\ step # "replanned" -> "again"
      [] s \in {"READY", "PLANNED"} -> "prepare"
      [] OTHER -> "idle"

Admit(p) ==
    /\ run[p].at \in {"admit", "given_up", "replanned"}
    /\ Goto(p, Admission(run[p].at, state[W(p)]))
    /\ UNCHANGED <<outside, lock>>

AskHolder(p) ==
    /\ run[p].at = "holder"
    /\ Goto(p, IF LockHeld THEN "idle" ELSE "giveup")
    /\ UNCHANGED <<outside, lock>>

\* A transition of commission.run itself: no lock is held yet, so a refusal
\* ends the process and leaves nothing behind.
Walking(p, to, next) ==
    /\ \/ Transition(W(p), to, "operator", None) /\ Goto(p, next)
       \/ ~Allowed(W(p), to, "operator", None) /\ Goto(p, "idle") /\ UNCHANGED vars
    /\ UNCHANGED <<made, lock, blocking, incidents, attested>>

GiveUpDeadRun(p) == run[p].at = "giveup" /\ Walking(p, "FAILED", "given_up")
RetryFailed(p)   == run[p].at = "again"  /\ Walking(p, "RETRY", "replan")
ReplanRetry(p)   == run[p].at = "replan" /\ Walking(p, "PLANNED", "replanned")

\* Packet, cohort, bindings and skills are built; BlockedRuntime escapes.
Prepare(p) ==
    /\ run[p].at = "prepare"
    /\ Goto(p, "lock") \/ Goto(p, "idle")
    /\ UNCHANGED <<outside, lock>>

\* Mutant: the pid is written outside the try whose finally removes it.
TakeLockUnguarded(p) ==
    /\ run[p].at = "lock"
    /\ lock' = p
    /\ Goto(p, "precondition") \/ Goto(p, "idle")
    /\ UNCHANGED outside

\* Mutant: the package is written into the file, not the process.
TakeLockByPackage(p) ==
    /\ run[p].at = "lock"
    /\ lock' = W(p)
    /\ Goto(p, "precondition")
    /\ UNCHANGED outside

TakeLock(p) ==
    /\ run[p].at = "lock"
    /\ lock' = p
    /\ Goto(p, "precondition")
    /\ UNCHANGED outside

\* finally: LOCK.unlink(missing_ok=True), whoever wrote it.
Release(p) ==
    /\ run[p].at \in {"returned", "raised"}
    /\ lock' = None
    /\ run' = [run EXCEPT ![p] = Idle]
    /\ UNCHANGED outside

\* The process is killed: no finally runs.
Kill(p) ==
    /\ run[p].at # "idle"
    /\ incidents < MaxIncidents
    /\ incidents' = incidents + 1
    /\ run' = [run EXCEPT ![p] = Idle]
    /\ lock' = IF lock = p THEN Stale ELSE lock
    /\ UNCHANGED <<vars, made, blocking, attested>>

\* Where run() tells the relay of its steps.
Telling ==
    {"precondition", "packet", "binding", "stopping", "worktree", "execute", "implement",
     "inspect", "stage", "refused", "tech_complete", "ready", "gate", "failing"}

\* A BuzzError stops no run; an answer of the relay that cannot be read, and a message
\* that publish() refuses to send, are none, and leave run() wherever they are met.
Garble(p) ==
    /\ run[p].at \in Telling
    /\ incidents < MaxIncidents
    /\ incidents' = incidents + 1
    /\ Raise(p)
    /\ UNCHANGED <<lock, blocking, attested>>

Running(p) == RunStep(p) /\ UNCHANGED <<lock, blocking, incidents, attested>>

Invocation(p) ==
    \/ Admit(p) \/ AskHolder(p) \/ GiveUpDeadRun(p) \/ RetryFailed(p)
    \/ ReplanRetry(p) \/ Prepare(p) \/ TakeLock(p) \/ Running(p) \/ Release(p)

(***************************************************************************)
(* The operator.                                                           *)
(***************************************************************************)
Seed(w) ==
    /\ \E ds \in Catalogue[w] : Register(w, ds)
    /\ UNCHANGED <<ovars, lock, blocking, incidents, attested>>

\* `dume transition <wp> <to> [--candidate c]`; `retry` is the moves to RETRY and
\* to PLANNED.
OperatorMove(w, to, c) ==
    /\ Transition(w, to, "operator", c)
    /\ UNCHANGED <<ovars, lock, blocking, incidents, attested>>

\* The `block` command: the transition, then a High finding.
Block(w) ==
    /\ w \notin blocking
    /\ Transition(w, "BLOCKED", "operator", None)
    /\ blocking' = blocking \cup {w}
    /\ UNCHANGED <<ovars, lock, incidents, attested>>

NoteBlock(w) ==
    /\ w \in blocking
    /\ \E s \in Blocking : AddFinding(w, s, None)
    /\ blocking' = blocking \ {w}
    /\ UNCHANGED <<ovars, lock, incidents, attested>>

\* `dume evidence --add`: an answer of any kind and verdict, under any name, on any
\* revision there is, at any time.
Attest(w, c, t) ==
    /\ incidents < MaxIncidents
    /\ incidents' = incidents + 1
    /\ AddEvidence(w, [kind |-> t.kind, candidate |-> c, actor |-> t.actor,
                       verdict |-> t.verdict])
    /\ attested' = [attested EXCEPT ![w] = @ \cup {Len(evidence[w]) + 1}]
    /\ UNCHANGED <<ovars, lock, blocking>>

Operator(w) ==
    \/ Seed(w) \/ Block(w) \/ NoteBlock(w)
    \/ \E c \in made, t \in Attestations : Attest(w, c, t)
    \/ \E to \in OperatorTargets, c \in made \cup {None} : OperatorMove(w, to, c)

-----------------------------------------------------------------------------
CommissionInit ==
    /\ Init /\ OrchestratorInit
    /\ lock = None
    /\ blocking = {}
    /\ incidents = 0
    /\ attested = [w \in WP |-> {}]

CommissionNext ==
    \/ \E p \in Proc :
          \/ \E w \in WP : Invoke(p, w)
          \/ Invocation(p)
          \/ Kill(p) \/ Garble(p)
    \/ \E w \in WP : Operator(w)

CommissionSpec == CommissionInit /\ [][CommissionNext]_cvars

\* The steps that run the candidate's test suite: a suite has no time limit.
Untimed == {"implement", "review"}

(***************************************************************************)
(* A process that is not killed goes on to its next step: models and the   *)
(* relay are asked with a time limit, git and the store work on local      *)
(* files.  Of the steps that run a test suite nothing is assumed: the code *)
(* under test may loop, and nobody stops it.  FairCommission also assumes  *)
(* an operator who asks for every package again and again.                 *)
(***************************************************************************)
FairSpec ==
    CommissionSpec /\ \A p \in Proc : WF_cvars(run[p].at \notin Untimed /\ Invocation(p))

FairCommission ==
    FairSpec /\ \A w \in WP : WF_cvars(\E p \in Proc : Invoke(p, w))

-----------------------------------------------------------------------------
(***************************************************************************)
(* Properties.                                                             *)
(***************************************************************************)

RunState ==
    [at : Steps, wp : WP \cup {None}, resuming : BOOLEAN,
     candidate : Candidate \cup {None}, kind : Kinds,
     failure : FailureClasses, verdict : Verdicts]

\* Each process is at a step with a package, and the pid file names a process
\* or one that is gone.
CommissionTypeOK ==
    /\ TypeOK
    /\ run \in [Proc -> RunState]
    /\ \A p \in Proc : run[p].at # "idle" => W(p) \in WP
    /\ made \subseteq Candidate
    /\ lock \in Proc \cup {None, Stale}
    /\ blocking \subseteq WP
    /\ incidents \in 0 .. MaxIncidents
    /\ attested \in [WP -> SUBSET Nat]

BeforeRun ==
    {"idle", "admit", "holder", "giveup", "given_up", "again", "replan", "replanned",
     "prepare", "lock"}

\* Process p is inside orchestrator.run on package w.
InRun(p, w) == run[p].at \notin BeforeRun /\ W(p) = w

\* A pid file that names a live process names one that is inside a run: no
\* refusal on the way in, and no end of a run, leaves a live pid behind.
LockNamesLiveRun == lock \in Proc => run[lock].at \notin BeforeRun

\* The answers a run recorded, as opposed to those the operator appended.
Reviews(w) == DOMAIN evidence[w] \ attested[w]

\* No two answers that runs recorded are to one question about one candidate: a
\* retry is judged on a candidate of its own, whatever was recorded before it,
\* by a run or by the operator's evidence command.
OneAnswerPerCandidate ==
    \A w \in WP : \A i, j \in Reviews(w) :
        /\ evidence[w][i].kind = evidence[w][j].kind
        /\ evidence[w][i].candidate = evidence[w][j].candidate
        => i = j

\* The state in which a run that has a candidate left its package.
LeftIn(r) ==
    CASE r.at \in {"supersede", "inspect"} -> {"EXECUTING"}
      [] r.at \in {"review", "refused"} -> {StageState[r.kind]}
      [] r.at = "tech_complete" -> {"VERIFYING"}
      [] r.at = "ready" -> {"TECH_COMPLETE"}
      [] r.at = "gate" -> {"ACCEPTANCE_READY"}
      [] OTHER -> {}

\* While one process works at a time, a run that finds its package in the state
\* it left it in finds its own candidate there, though the operator may block
\* it, move it round and name other candidates meanwhile.
RunOwnsCandidate ==
    \A p \in Proc, w \in WP :
        W(p) = w /\ state[w] \in LeftIn(run[p]) => candidate[w] = run[p].candidate

\* The gate reads answers that PASS and no others, and the operator may append
\* some; still no run returns MERGE_ELIGIBLE for a candidate that a review of
\* that run, or of any other, refused.
EligibleNeverRefused ==
    \A p \in Proc : run[p].verdict = "MERGE_ELIGIBLE" =>
        \A i \in Reviews(W(p)) :
            evidence[W(p)][i].candidate = run[p].candidate
                => evidence[W(p)][i].verdict = "PASS"

\* Once killed runs stop being killed, a package left EXECUTING by a dead run
\* is taken out of EXECUTING by the next request to commission it.
ExecutingRecovered ==
    \A w \in WP :
        (state[w] = "EXECUTING" /\ \A p \in Proc : ~InRun(p, w))
            ~> state[w] # "EXECUTING"

\* Every invocation ends, whatever its run met, unless a test suite it runs never
\* does.
InvocationsEnd ==
    \A p \in Proc : run[p].at # "idle" ~> run[p].at \in {"idle"} \cup Untimed

(***************************************************************************)
(* What the repository says, and the code does not do.                     *)
(***************************************************************************)

\* commission.py:119 "a stale one is recovered, a live one is refused": a run
\* is only declared dead when no process is inside it.
LiveRunNotDeclaredDead ==
    [][\A p, q \in Proc :
          run[p].at = "giveup" /\ run'[p].at = "given_up" => ~InRun(q, W(p))]_cvars

InFlight ==
    {"PACKAGED", "EXECUTING", "SPEC_REVIEW", "CODE_REVIEW", "VERIFYING"}

\* commission.py:116 "nothing ever puts it back": while the operator keeps
\* asking, a package whose run was killed leaves the states only a run passes
\* through.
KilledRunRecovered ==
    \A w \in WP :
        (lock = Stale /\ state[w] \in InFlight /\ \A p \in Proc : ~InRun(p, w))
            ~> state[w] \notin InFlight

\* orchestrator.py:318 "and dependencies are ACCEPTED": a run that got past its
\* precondition works on a package whose dependencies are ACCEPTED.
RunsOnAcceptedDependencies ==
    \A p \in Proc :
        run[p].at \notin BeforeRun \cup {"precondition", "returned", "raised"}
            => UnmetDependencies(W(p)) = {}
=============================================================================
