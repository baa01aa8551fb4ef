# A TLA+ development for DUM-E

DUM-E commissions work packages: it freezes a package into a packet, compiles a
cohort of roles from it, binds the roles to model runtimes, lets an implementer
produce a candidate commit, has three questions about the candidate answered by
other identities, and lets a machine gate read the record.  A person accepts.
What makes the program trustworthy is not the models it talks to but the record
it keeps about them, so the models of this directory start from that record and
work outwards.

Paths are relative to the root of the repository.

## 1. The system

| component | state it keeps | operations | source |
|---|---|---|---|
| state store | SQLite rows: `wp`, `dependency`, `evidence`, `finding`, `transition` | `register`, `set_candidate`, `add_evidence`, `record_review`, `add_finding`, `supersede_findings`, `transition` | `dume/state/store.py` |
| orchestrator | the locals of one `run()` | the stages of a run; `_fail` | `dume/control/orchestrator.py` |
| machine gate | none | `evaluate` | `dume/acceptance/gate.py` |
| failure classes | none | `classify`, `retry_decision` | `dume/runtimes/failures.py` |
| commission | the pid file `state/commissioning.pid` | `run`, `_lock_holder` | `dume/control/commission.py` |
| operator commands | the pause flag; the rows | seed, transition, retry, block, decide, evidence, pause, kill | `dume/control/intent_handler.py`, `dume/cli.py`, `dume/catalogue.py` |
| command gateway | pending nonces, rate windows, the audit file | `translate`, `confirm` | `dume/control/command_gateway.py` |
| Telegram bridge | poll offset, the authorised senders | `poll_once`, `handle`, `authorise` | `dume/control/telegram.py`, `address.py` |
| runtime registry, switcher | status, mode and roles of each runtime; `config/runtimes.json` | `load`, `save`, `eligible`, `bind`, `should_switch`, `switch` | `dume/runtimes/profiles.py`, `handoff.py` |
| probe, qualification | what they write to the registry | `probe`, `qualify`, `record_qualification` | `dume/runtimes/probe.py`, `qualification.py` |
| cohort compiler | none | `compile_cohort` | `dume/cohort/` |
| model executor | the turn loop; clients of one run | `plan`, `prepare_worktree`, `implement`, `review`, `verify`, `rebind` | `dume/control/model_executor.py`, `executors.py`, `agent_tools.py` |
| worktree manager | directories, git's list of worktrees, branches | `create`, `retire`, `diff` | `dume/worktrees/manager.py` |
| GitHub membership | the roster's file, the queue of requests | `begin`, `redeem`, `admit`, `record_request`, `decide` | `dume/collaboration/github.py`, `dume/cli.py` |
| Buzz relay, cohorts | the relay's channels, members, profiles, seats; the keys of a cohort | `deploy_cohort`, `admit`, `ensure_spaces` | `dume/collaboration/buzz.py` |
| packet builder | none | `build` | `dume/packets/` |
| workspace boundary | none | write checks | `dume/workspace.py` |
| everything else | files read, reports written | announcements, forum, reliability, secrets, skills, health, research, ... | see `PROJECT.json` |

How they interact.  `dume commission <wp>` (typed, or spawned by the intent
handler in a session of its own) is one operating-system process: it reads the
row of the package, walks a dead or failed package back to PLANNED, writes its
pid, and calls `Orchestrator.run`, which calls the registry, the executor and
the gate, and writes the store after each of their answers.  The gateway, the
bridge and the command line are other processes over the same SQLite file.
There is no thread and no shared memory: the components share the rows, the pid
file, the pause flag, `config/runtimes.json`, the two membership files, the
target's git repository and the relay; every call on the store commits by itself,
and every file is read whole, changed in memory and written whole, without a lock.

What is hard about it:

* *Interleaving of processes.*  Between any two commits of a run the operator may
  block, retry, seed or accept, and a second process may commission the package.
* *Crash and restart.*  A run may be killed anywhere; what it leaves has to be
  understood by the next one from a state and a pid alone.
* *Stale evidence.*  Candidates, producers and runtimes change over a package's
  life and the record only grows; each check has to read the right part of it.
* *Ordering and partial failure.*  Verdict, findings and the FAILED transition
  are separate commits; some exceptions are caught and some escape.
* *Files written from stale copies.*  A probe, a qualification and a running bridge
  each hold the registry they loaded; a knock holds the queue it read.
* *A partner that answers anything or nothing*: the model in the turn loop, the
  relay, Telegram, GitHub.
* *Retries, switches, time windows, nonces* at their limits.

What makes each component correct:

* store: completion means three answers on one candidate by others than its
  producer; acceptance means verification of that candidate; READY means the
  dependencies are accepted; evidence is append-only; vetoes stand.
* orchestrator and gate: a run judges the candidate it made, once; the gate
  passes nothing that a run's review refused; every run ends.
* commission: the pid file tells a live run from a dead one; dead runs are
  recovered.
* gateway: whoever is refused is refused for a reason he earned; a dangerous
  command is confirmed once, by its own requester, in time.
* bridge: no update is lost; one is seen again only after a death; a forwarded
  message changes nothing; the last word on the pause flag stands.
* registry and cohort: independent roles get independent families, each slot its
  own binding; nothing but a stale copy undoes what was decided.
* executor: no candidate without a red run before a green one; reviewers are asked
  about a commit of its own; candidates outlive their worktrees; every run ends.
* membership: who is approved is admitted, and who is denied stays denied.
* relay: no error is lost; what is reported as in order is, as far as its answers were read.

`PROJECT.json` lists the hazards line by line, with the properties that cover
them, or why none does.

## 2. The modules

| module | what it is |
|---|---|
| `Lifecycle` | the abstract promise: phases, votes, independence.  No code. |
| `Store` | the store, one action per operation, called by anybody in any order |
| `StoreRace` | the same calls made by several processes, with their reads apart from their writes |
| `StoreProofs`, `StoreRaceProofs`, `CommissionProofs`, `GatewayProofs`, `BridgeProofs`, `ExecutorProofs`, `CollaborationProofs`, `RuntimesProofs` | theorems about the module of that name (`CollaborationProofs`: `Membership` and `Relay`), for every value of its constants (section 4) |
| `Failures` | the closed set of failure classes and `retry_decision` |
| `Orchestrator` | one run of a package as a sequence of steps over `Store`, with the gate |
| `Commission` | several processes, the pid file, kills, recovery, the operator |
| `Gateway` | the gateway: refusals in their order, rate windows, nonces, the audit |
| `Bridge` | the Telegram bridge over the gateway, with Telegram's queue, deaths and restarts, and what its commands change |
| `Runtimes` | the registry and its copies, cohorts, binding, the switch of the implementer |
| `Executor` | one package worked on: plan, worktree, turn loop, commit, gates, reviews |
| `Membership` | the roster and the queue of requests, admissions and the console |
| `Relay` | cohorts deployed on the relay, the standing channels |
| `MCStore`, `MCStoreRace`, `MCCommission`, `MCGateway`, `MCBridge`, `MCRuntimes`, `MCExecutor`, `MCCollaboration` | small instances |

`StoreRace` EXTENDS `Store`: it opens the atomic calls, and `AloneIsAtomic` says when
that makes no difference.  `Commission` EXTENDS `Orchestrator`, which EXTENDS `Store` and `Failures`: the
composition is over the same rows, and the callers that `Store!Next` leaves
unconstrained are here the code that really calls.  `Bridge` EXTENDS `Gateway` the
same way: the bridge is the one caller of `Translate`, and `GatewayNext` is what
any surface could do.  `Runtimes` and `Executor` open two stages of the
orchestrator that `Orchestrator` leaves as choices (binding; planning and the work
up to the reviews); they share with it no variable, only the outcomes: a
binding or `BlockedRuntime`, a failure class or a new candidate.
`MCCollaboration` puts `Membership` and `Relay` into one run; they share nothing, nor do
the standing channels of the relay with those of packages, and the variable `part` says
which of the three a behaviour exercises.

A definition that says `Mutant:` in its comment is a plausible bug in the definition after
it; nothing refers to it, and putting it in its place breaks a property.

### Store

`state`, `candidate`, `producer` are the columns of `wp`; `deps`, `evidence`,
`findings` the rows of the other tables.  The `transition` log is read back in
one place only, to count the rows whose `to_state` is RETRY, so it is kept as
that count (`retries`).  `completed` and `accepted` are auxiliary: they remember
the candidate a package was completed and accepted on, which the code does not
store, so that properties can speak of it.

A call that raises `StateError` changes nothing, so in `Store` a refusal is an
action that is not enabled; where the caller's reaction to it matters
(`Orchestrator!Moving`, `Orchestrator!Review`, `Commission!Walking`) the refusal
is a disjunct of its own.  `Allowed` is the whole of the checks of
`transition()`, in the code's order: the map of transitions, unmet dependencies
for READY, the prerequisite of a review stage, completeness for TECH_COMPLETE,
acceptance for ACCEPTED.  The defaulting of a missing candidate
(`candidate_revision or row["candidate_revision"]`) is `Effective`; note that a
query for candidate None does not filter by candidate, which `Records` keeps.
Each call is atomic here; that another process may write between the checks and
the write is the subject of `StoreRace`.

Evidence is abstracted to its kind, candidate, actor and PASS or FAIL.  A NULL
verdict counts as FAIL everywhere the code looks, so FAIL stands for both.
Findings are a set: equal rows cannot be told apart by any check.

### StoreRace

`call[p]` is what process `p` has read and not written yet.  `BeginTransition` reads
the row (`Row`) and makes the checks that need nothing else; each `Ask` is one query
of another table, in the code's order (`Queries`: `evidence` is queried again for
every kind, and `seen` remembers who answered last); `WriteTransition` is the
transaction, whose `UPDATE` writes state, candidate and producer as they follow from
the row that was *read*.  Only the RETRY count is what it is at the write, since it is
counted from the log.  `record_review` reads the row and then inserts (`BeginReview`,
`WriteReview`), `add_finding` reads the candidate it defaults to (`BeginFinding`,
`WriteFinding`).  The calls whose write does not depend on what they read are one
step (`AtOnce`).  `Abandon` ends a call without a write: one of its queries refuses it,
or its process dies.  `completed` is carried along with the row, because it says which
candidate the state of that row rests on.  The dependencies of a package are read in one
step, where the code's one query does the same.  `open` is the set of the processes that have
the store open, any of them, for the whole of a behaviour; so one specification is that of a process
alone, whose calls are those of `Store` (`AloneIsAtomic`), and of several.

### Orchestrator

`run[p]` is the program counter and the locals of process `p`: the package,
`resuming`, the candidate, the question being asked, the failure class, the
verdict.  A step makes at most one commit, so that kills and other actors fit
between any two.  What the outside answers is a choice: the packet builder and
the git commands may raise, binding may be impossible, planning may fail or find
the packet unsatisfiable, the implementer may fail (also after a switch), write
nothing, or make a *new* commit - `made` remembers the commits so that none is
made twice - and a reviewer may pass, refuse with any of the classes executors
report, raise, or be refused by the store.  The gate's checks on the rows are
`GateEligible`; those on the worktree, the digests and the artefacts are the
choice `tidy`.  Every role of a package has an identity of its own,
`<package>/<role>`, as in `bind_cohort`, so the actors are the roles.
Severities HIGH and CRITICAL are told apart by nothing (`Blocking`).

### Commission

`Invoke` is a request for a package by an idle process.  `Admit` dispatches on
the row as `commission.run` does, and again after each recovery, each of which is
tried once: EXECUTING asks the pid file (`AskHolder`) and gives the dead run up
(`GiveUpDeadRun`); FAILED is walked to PLANNED in two commits (`RetryFailed`,
`ReplanRetry`).  `Prepare` is the cohort built before the lock is written,
`TakeLock` the unconditional write of the pid, `Release` the `finally`.  `Kill`
ends a process with no `finally`; the pid it leaves is `Stale`, which
`os.kill(pid, 0)` recognises.  `Garble` is the other way out of the middle of a run: `_say`
and `open_channel` catch a `BuzzError`, which an answer that is no JSON, or a message that
`publish` refuses to send, is not (`Telling` lists the steps that speak).

The operator seeds, moves packages (with or without `--candidate`) to the
`OperatorTargets` of the instance, and blocks in two commits, the transition and the High
finding.  `Attest` is `dume evidence --add` (`cli.py:781-797`): an answer of any kind and
verdict under any name (`Attestations`), on any commit there is, in the middle of whatever
a run is doing.  The store cannot tell such a row from one a run recorded; `attested`
remembers it, so that properties can speak of what *runs* answered.  `incidents` counts
kills, unreadable answers and appended evidence together.

### Gateway

`Refusal` is `translate()`: its refusals in the order in which the code asks, because
the order decides what costs a place in the window.  The first three (forwarded,
no principal, rate) do not; everything after them does, whether it is authorised
or not.  `Count` trims the window and appends, as the code does, only on the way
past the rate check; `Window` trims again at every reading, which comes to the
same.  Where the code keeps a list of times, `recent` keeps the numbers of the audit lines
that those times belong to (every message let through gets one line, at that time).  A text is what the checks see of it: its first word, whether the parameters
are there and well formed, whether it looks like an instruction or a shell line.
A nonce is the position of the audit line that issued it.  `Confirm` consumes the
nonce before it looks at anything else (`_pending.pop`).  `audit` is the audit file
and, at the same time, what the properties read: they compare lines with earlier lines
and know nothing of `recent` and `pending`.

### Bridge

`sent` is everything written to the bot, numbered by its `update_id`; the server
keeps what the offset of a `getUpdates` has not passed (`forgotten`).  `Poll`,
`Handle`, `Converse`, `Reply` are the steps of `poll_once` and `handle` between
which the process can die: the offset moves on first, the command takes effect, the
answer is sent.  A failed call to Telegram ends the process, because
`cmd_telegram` catches nothing but Ctrl-C; `Die` stands for every way of ending, and
takes the offset, the windows and the nonces with it.  `Handle` has the two routes
of the code: a message in which `interpret()` reads a command is run as that command
(with `forwarded=False`), everything else goes to the gateway with its marker, and a
refused sentence of an authorised sender is answered from the state (`Converse`).
`allowed` is the grants file, `principals` what the running bridge loaded from it.
`Perform` is the intent handler as far as it changes something: the pause flag, a run
started, a post; whether the row or the relay lets it through is a choice.

### Runtimes

`file` is `config/runtimes.json`, `copy[h]` the registry a process loaded: a probe
and a qualification load, work and save; the bridge loads once and saves on every
operator command; a run loads once and never saves.  `word`, `unseen` and `lost` are
auxiliary: what was last decided, which decisions a copy has not seen, which were
overwritten by such a copy.  `CompileCohort` goes from the signals of a packet to
the slots (`assurance_level`, `_implementer_tasks`); `Order`, `Key`, `Bind`,
`BindCohort` are the binding with its order, its numbering of keys and the
exclusion of families; only the *first* slot of a role is looked up among the bound,
as in the code.  `Sorted` is the stable sort of the slots by a list of roles; the
binding ends at the first slot that nothing can be bound to (`Unbound`), where the code
raises `BlockedRuntime`.  `Preference` is the order in which eligible runtimes are
considered.  `SwitchImplementer` is `switch()` from the exclusion of the failed
runtime to its end on both ways out, and `rebind()`.

### Executor

A tree is what the suite and the gates see of it: whether there is a test and whether
it tests anything, the code, the deliverables, the protected paths.  `Exit` is pytest's exit
code on such a tree, `ToolCall` every effect a tool call can have - on the files, on
the two things the loop looks at (counted as changed, exit code), and with a run of the
tests that times out.  The locals of `implement()` are variables; one reply is
`BeginCalls`, up to `MaxCalls` times `UseTool`, `EndTurn`; `RuntimeFails`, `Truncated`
and `Prose` are the other things it can be.  The model may answer any of them at any turn.
`Report` and what follows are the turns for missing deliverables, `Finish` the commit,
`AfterSession` the orchestrator's one switch, after which the second session runs in
the same worktree.  `Gates`, `Judge`, `Verify` are what the orchestrator asks about the
candidate; `head` is what was committed and `tree` what is in the directory.  `git add -A`
leaves out what git ignores: `Commit` may leave out anything that the base does not
track (`Ignorable`) and records it in `ignored`, and the gate, which looks at the directory,
sees it all the same.  `NoClient` is the `ModelError` that `plan`, `review` and `_verify`
raise outside their `try` when no runtime is bound for the role; in `implement` it ends the
session like any other failure of the runtime.
`disk`, `known` and `branches` are the three places where an attempt leaves its name;
`Retire` and `RemoveByHand` clear different ones.  `cycle`, `fresh`, `moved`, `useful` and
`repeats` are auxiliary: an observer of files and runs that does not look at the
loop's locals, so that properties do not compare the code with itself.  `fresh` says that
no run was asked for on the files as they are, and lasts from the new worktree on through
both sessions, while the code's `changed_since_tests` starts each session as False
(`model_executor.py:459`).

### Membership

The roster's file and the queue are read and written whole.  `Admit` reads the
queue, `Knock` writes it; `DecideReads`, `DecideWrites` and `WriteRoster` are the
console's decision with its two writes; between any two of these steps the other
side may act or the process may die.  A write may be cut (`Corrupt`): a queue that
cannot be read is an empty one, a roster that cannot be read stops everything.  One
console is modelled: one person decides.  What GitHub says of an organisation, of a token
or of nothing at all is a choice.  `torn` remembers whose approval died between the two
writes.

### Relay

`deploy_cohort` is a sequence of calls for each identity (asked whether it is a
member, invited, let in, named, seated).  `Ends` are the ways a call can end: whether the
relay did it, and what the answer says.  An *error* (done or not: a timeout comes after
the fact) is a `BuzzError`, a fault against the identity, and the next one is taken up.  An
event *declined* in a 200 answer with `accepted: false` is returned by `publish` without an
exception (`buzz.py:208-210`) and no caller reads it, so the code goes on as if it had been
accepted; `declined` remembers it.  An *unreadable* answer is no `BuzzError` and leaves the
loop and the run (`Close`, `Commission!Garble`).  Each deployment mints its own keys.
`AssertSpace` and `AddOperator` are `ensure_spaces`, which `dume health` calls.

## 3. The runs

Passing:

| run | instance | question |
|---|---|---|
| `store` | 1 package, 2 candidates, 3 identities of which 2 produce and one also attests outside runs, 3 evidence rows | `AcceptedOnVerified`, and that the store implements `Lifecycle` (`ImplementsLifecycle`) |
| `store_chain` | 2 packages in a chain, 1 candidate, blocking findings | `ReadyOnAccepted` |
| `race` | 1 package, 1 candidate, 2 identities that produce by turns, 3 evidence rows, every call in its separate steps; one process, with blocking findings or evidence appended outside reviews, or two processes whose reviews pass | `RaceTypeOK` (which has `TypeOK` in it), `CompletionIndependent`, `AloneIsAtomic` |
| `run_one` | 1 process, 1 package, 2 candidates, operator moving to READY and ACCEPTED, with or without a candidate, and blocking; one incident: a kill, an unreadable answer of the relay, or a PASS appended in the verifier's name | `CommissionTypeOK`, `RunOwnsCandidate`, `OneAnswerPerCandidate`, `EligibleNeverRefused`, `UnattributedVetoStands` |
| `run_two` | 2 processes, 1 package, 1 candidate | `LockNamesLiveRun` |
| `run_recovery` | 1 process, 1 candidate, operator moving to READY and PLANNED, two incidents (kills, unreadable answers), fairness | `ExecutingRecovered`, `InvocationsEnd` |
| `gateway` | 2 actors, a harmless, a dangerous and a marked text, two commands to a window of 2 seconds, nonces of 1 second | `GatewayTypeOK`, `RateBounded`, `RateRefusalEarned`, `ConfirmedOnceByItsRequester` |
| `bridge` | 2 updates of an owner and a guest, 2 deaths, 1 grant, fairness | `BridgeTypeOK`, `ForgottenWereHandled`, `HandledOncePerProcess`, `ForwardedMovesNothing`, `LastWordStands`, `UpdatesHandled` |
| `runtimes` | 2 local runtimes and a reserved premium one of three families, the smallest package and one with 3 implementers and 2 verifiers | `RuntimesTypeOK`, `EverySlotBound`, `ReviewersIndependent`, `ReserveSpent`, `SwitchLeavesNoTrace`, `DecisionsKept` |
| `executor` | the model and the stand-in, an empty target and one with a green suite, 2 attempts, any new file ignored by git | `ExecutorTypeOK`, `CandidateWasRedThenGreen`, `IdlingWasIdle`, `ReviewedIsWork`, `CandidatesOutliveTrees`, `RunsEnd` |
| `collaboration` | 2 accounts, 1 admission and the console; 2 deployments of a package whose one role has 2 slots, 1 standing channel | `CollaborationTypeOK`, `ApprovedIsAdmitted`, `DenialsStand`, `NoErrorIsSilent` |

Violated, a claim of the repository that the code does not keep (section 5):

| run | instance | claim |
|---|---|---|
| `x_live` | 2 processes, 1 package | `LiveRunNotDeclaredDead` |

Bounds, and why they are enough for what is asked:

* `MaxEvidence` (3, or 4 in the runs of `Commission`).  A package
  needs three rows to be completed; with three rows and two candidates the rows
  of one candidate can be mixed with those of the other in every order.  Four is
  room for a candidate that its first reviewer refuses and one that passes, or for the
  three answers to one candidate and the operator's; a run that finds no room goes no
  further.  Two candidates with all their answers and appended ones besides are left to
  the proofs, which have no bound.
* `Candidate`: two, so that there is an earlier and a later one.  In the runs of
  `Commission` a commit is never made twice, so this is also the number of
  attempts that get as far as a review.
* `MaxRetry`, `RetryLimit`: RETRY rows are counted up to the limit; 1 instead of
  the code's 3 makes both answers of `retry_decision` occur within few attempts
  (`run_two`, `run_recovery`).  In `run_one` it is 0, so every failure stops at
  FAILED, and it is the next request that retries.  In the instances of `Store`
  nothing reads the count, and it is 0.
* `race`: a lost update takes two calls and one row, so one package and two processes;
  one candidate, since what a stale write brings back is told apart by the producer (two
  take turns), by the state and by whether there is a candidate yet.  `Bounded` keeps a process
  alone from meeting findings and evidence of outsiders together, for which acceptance asks in two
  separate queries, and two processes to transitions, reviews that pass and are not repeated, seeds
  and changes of the candidate: a FAIL or a finding only makes a query refuse.  For any number
  of either, and without `Bounded`, the properties are proved.
* `MaxIncidents`: one, two where liveness is asked; none where they do not matter to the
  question (`run_two`, `x_live`).  That two kinds of them meet in one behaviour, and rows
  appended under other names than the verifier's (`Attestations` is one answer in
  `run_one` and empty elsewhere), is left to the proofs.
* `gateway`: the limit is 2, so that a third message is the first over it; four
  audit lines in four seconds let a window fill, refuse, age and fill again, and let
  a nonce expire and be tried by two actors in either order.
* `bridge`: two updates are an earlier and a later one, in one batch or in two; two
  deaths let an update be delivered three times, once on each side of another; the
  window never fills for more than the two commands each process may pass, so the
  clock can stand still.
* `runtimes`: two saves are one that decides and one that overwrites; three families
  are the fewest that let a cohort be bound with its constraints and leave one to
  switch to.
* `executor`: four turns of two calls hold write, run, write, run in one turn per call or
  in two turns, and an idle turn before.  `MaxSilentTurns` is the code's 2.
  `MaxIdleTestRuns` is 2 for the code's 3 (`model_executor.py:112`): within four turns a
  session then both moves a file and is refused for idling, which with 3 it could not.
  `MaxToolTurns` and the turns for deliverables are fewer than the code's.  Two attempts are
  the fewest in which a branch is in the way.
* `collaboration`: a race needs one visit and the console; a second account tells a
  write of the whole queue from a write of one entry; a second deployment is a rerun
  in an existing channel.
* Processes: two are enough for one to overwrite the other's pid; the packages
  are independent but for dependencies and the single pid file.

Symmetry is declared over candidates (`store`, `race`, `run_one`), over processes
(`race`, `run_two`) and over actors (`gateway`), where every definition and property
treats them alike, and never where liveness is checked.

Deadlock is not checked: the system may stop.  When the packages are ACCEPTED no
transition leaves, and an instance also stops when its bounds are used up; a bridge
with nothing to do only polls.

Fairness.  `FairSpec` assumes weak fairness of each process's own next step,
`Invocation(p)`, but for the steps in which it runs a test suite (`Untimed`: "implement" and
"review").  A run is sequential code that is scheduled until it is killed; models and
relay are asked with a time limit, git and SQLite work on local files.  A suite is code that
a model wrote: the tool `run_tests` stops it after a while, but verification and the
stand-in run it without a time limit (`model_executor.py:810`, `executors.py:182`), and it may
loop.  So nothing is assumed there, and what ends is every run that is not held by its
suite.  `FairCommission` adds an operator who requests every package again
and again; that is an assumption on the operator, not on the code, and only says
that the question "is it recovered by the next request" has a next request.
Nothing is assumed of kills, blocks or moves.  `BridgeFairness` says that the loop
goes on (it waits for nothing but the server) and that somebody starts a bridge that
ended; its deaths are bounded, since a bridge that always dies before it handles
anything handles nothing.  `ExecutorSpec` assumes weak fairness of `Timed`, the next step of the one
synchronous call a run is without `Synthetic` and `Verify`, which run the suite without a time
limit; commissioning again, and what people do to worktrees, is not part of it.

What the passing runs show, beyond the wording of each property:

* `CompletionIndependent` and `AcceptedOnVerified` hold although a package may be
  retried under another producer who had answered for an earlier candidate, the
  candidate may be swapped at any time, and evidence may be appended by anybody.
* `race`: `CompletionIndependent` holds as well when every check is as old as the caller
  likes, although the store takes no lock between check and write; section 4 says why, and proves
  the same of `AcceptedOnVerified`.
* `RunOwnsCandidate`: whatever the operator does in the middle of a run, a run
  that still finds its package where it left it finds its own candidate there;
  otherwise the lifecycle map makes its next transition fail.  This is not true of
  two processes.
* `OneAnswerPerCandidate` and `EligibleNeverRefused`: a retry never shops for a
  second opinion about the same commit.  This rests on commits being new, which
  is the check against the base revision in `run()`.  Both are about the answers that
  runs record.  With `dume evidence` the operator can answer a question again, or pass a
  candidate that a run refused; the gate reads PASS rows only (`gate.py:93-101`) and
  would count his, as it does where he passes a candidate that was never refused.  But
  the gate is asked at the end of a run about the run's own candidate, which a FAIL of a
  review would have kept from getting there.
* `InvocationsEnd`, `RunsEnd`: no refusal by the store, no answer of a model and no failure
  keeps a run going; only a test suite can (see Fairness).
* `ExecutingRecovered`: for a package left EXECUTING recovery works, however
  often the run is killed and whatever else is going on.
* `ForgottenWereHandled` and `UpdatesHandled`: advancing the offset before the command
  is handled loses nothing, because the server hears of it with the next poll only
  and a process that died has forgotten it.  The price is `HandledOncePerProcess`:
  a command may be executed once more for every death.
* `LastWordStands`: the repetition is in order, so the flag ends where the newest word put
  it - unless the rate limit cut the repetition short or the grants changed meanwhile.
* `ReviewersIndependent` holds for every slot although the code looks at the first
  implementer only: further implementers get the same runtime by the same
  preference.  It says nothing of the time after a switch (section 5).
* `DecisionsKept`: the statuses and roles that probes, qualifications and people write do not undo one
  another, but for a stale copy.
* `CandidateWasRedThenGreen`: whatever order of writes, runs, timeouts and empty suites the
  model chooses, in either session, the loop's two exit codes mean what they say.
  They speak of the time of the runs: what is written after the green run is only
  verified (section 5).
* `IdlingWasIdle`: no session is refused for the cycle write, run, write, run.  What the
  count gets wrong is its beginning: the first run of a session that has not moved a file
  counts as idle, even on a tree that was never run on, so that such a session may be
  refused after one repetition less.
* `ReviewedIsWork`: the gate speaks of the directory and the review of the commit; the two
  differ by what git ignores, and by nothing else that a reviewer is asked about.
* `NoErrorIsSilent`: a fault is noted wherever a call raised, whichever call it was and
  whether or not the relay had done it.  What the relay declines in its answer is lost
  (section 5).
* `ApprovedIsAdmitted`: the order of the two writes and the reading of the roster at
  the second keep it true under every stale write of the queue; only a death
  between them leaves a person approved and refused.

## 4. The proofs

Each theorem holds for every value of the constants that satisfies the named assumptions
of the modules.  The pattern is the same throughout: an invariant that is inductive
(`Init => Inv`, `Inv /\ [Next]_vars => Inv'`), the step proved action by action, and each
property derived from it.  The inductive invariants, or their parts, were checked by TLC on
the instances of section 3 before they were proved.

### What is assumed

* `Store`: None is no package, actor or candidate; the catalogue and the reviewers have
  their types (`NoneAssumption`, `CallerAssumption`).
* `Orchestrator`, `Commission`: the roles that act are actors, the retry limit is within
  the bound on counted rows (`RoleAssumption`); a process is neither nobody nor the pid of
  a dead one (`ProcessAssumption`), that is, the operating system does not give the pid of a
  killed run to a new process.  The code has no defence against that, and the model leaves it out.
* `Gateway`: limits are positive, None is none of the words a line may hold
  (`GatewayAssumption`, `GrantAssumption`).
* `Bridge`: an update has a sender, may be forwarded and reads as a command of the
  vocabulary or as nothing (`BridgeAssumption`; `address.py:44-55` is the table
  `interpret` reads from).
* `Executor`: the limits are positive; bases are trees whose protected paths are as they
  were frozen; None is no tree, number or reason (`ExecutorAssumption`, `TreeAssumption`).
* `Membership`: a file cut short is not a file that can be read (`FilesAssumption`).
* `Relay`: a package has at least one role (`RelayAssumption`).
* `Runtimes`: the preference lists every runtime, and what the first file says is a
  registry (`RuntimesAssumption`, `FileAssumption`); None is no runtime, registry or
  class of work that a reserve is kept for.

Some theorems have hypotheses of their own: `ReadyMeansAccepted` (`FixedCatalogue`: every
seed of a package registers the same dependencies; without it, seeding again adds a
dependency to a package that is READY already), `RunOwns`, and the last two of `StoreRace` (below).

### Store

`TypeCorrect`, `CompletionIsIndependent`, `AcceptanceIsVerified`, `EvidenceIsKept`,
`ReadyMeansAccepted`, `VetoesStand`, and `StoreImplementsLifecycle`: `Spec =>
Abstract!Spec`.

The invariants are not inductive by themselves.  `CompletionIndependent` compares
evidence with the *recorded producer*, so one has to know that a package between
EXECUTING and ACCEPTED has one: were the producer NULL, every check of the form
`row["producer_actor"] and ...` would be skipped.  `IInv` is therefore `TypeOK`
together with `ProducerKnown`, `CompletionIndependent` and `AcceptedOnVerified`.
Evidence only grows, so what was independently reviewed stays so
(`EvidenceIndependent`); a transition changes the producer on the way into EXECUTING
only, which is not a state in which anything is claimed (`TransitionIndependent`); and the
entry to TECH_COMPLETE is where the check of the code is turned into the claim
(`CompleteIsReviewed`).  `ReadyOnAccepted` has an invariant of its own (`DepInv`): rows
of `dependency` come from the catalogue, and ACCEPTED has no successor.  The refinement
maps the states to four phases and the passing rows to votes.

### StoreRace

For any number of processes, with every read and every write a step of its own:
`RaceTypeCorrect`, `RaceKeepsIndependence` (`CompletionIndependent`),
`RaceKeepsVerification` (`AcceptedOnVerified`) and `AloneIsAlwaysAtomic` (`AloneIsAtomic`).
Where one process `p` has the store open (`Alone(p)`: `open = {p}`):
`SoleProcessImplementsStore` (every behaviour is one of `Store!Spec`) and
`SoleAcceptanceIsFinal` (`AcceptedIsFinal`, which two processes violate: section 5).

Why the races cannot harm the first three: a row is a *claim* - this state, this
producer, this candidate - and what it claims is about evidence, which only grows
(`Grown`, `ClaimsStand`).  `Sound` says of a row, and not of the store, that its claim is
true; the `UPDATE` writes state, candidate and producer of one and the same row, so a
stale write brings back a claim that was sound when it was read and still is.
`Established` says what the queries of a pending transition have found so far; its
answers, too, are about evidence, so they are as good at the write as they were at the
query.  `RaceInv` is the conjunction of the types, `RowsSound`, `AcceptedSound` and
`CallsSound`.  Were the producer written apart from the state, none of this would hold,
which is what the mutant `WriteTransitionKeepingProducer` shows.  What is about other rows
than the package's own and its evidence - READY on accepted dependencies, a veto filed
between the query and the write - is not kept, and no theorem says so.

With one process alone nobody writes between its reads and its write: `SoleInv` says that
what has been read still holds (`Holds`), `AnsweredIsAllowed` that a call with all its
queries answered meets `Allowed` of `Store`, and `SoleStep` that every step is a call of
`Store` or changes no row.  Everything proved of `Store` then holds of one process;
`CommissionOnlyCalls` below is about calls that are atomic.

### Orchestrator and Commission

For any number of processes, packages and candidates, with kills, recovery and the
operator between any two steps:

* `CommissionTypeCorrect`, `LockIsHonest` (`LockNamesLiveRun`),
* `OneAnswerEach` (`OneAnswerPerCandidate`), `EligibleWasNeverRefused`
  (`EligibleNeverRefused`),
* `CommissionOnlyCalls`: every step of a run or of the operator is a call that `Store`
  allows or leaves the rows alone.  So whatever is proved of `Store` holds of
  commissioning: `CommissionedIsReviewed`, `CommissionKeepsVetoes`,
  `CommissionImplementsLifecycle`.
* `RunOwns`: `RunOwnsCandidate`, for one process (`OneProcess`) and an operator who
  moves no package into the states of a run (`OperatorStaysOut`).  With two processes
  on one package it is false, and so it is if the operator puts a package into a run's
  state with a candidate of his own; `run_one` satisfies both hypotheses.

They hold for any `Attestations`: whatever the operator appends, and however often.

`OneAnswerPerCandidate` needs to know that a run still has to ask what it is going to
record.  `AnswerInv` says so: candidates are made once and are all in `made`
(`CandidatesMade`), no two runs share one (`CandidatesDistinct`), and of the questions a
run has yet to ask (`Pending`) no run has answered any for its candidate (`NotYetAnswered`).
`EligibleNeverRefused` needs that no review refused the candidate of a run that has not
failed (`NotRefused`, with `EligibleInv`): such a review would be the run's own, since
candidates are distinct, and a run that is refused goes to its failure path.  All of them
speak of `Reviews`, the rows outside `attested`; what the operator appends is always
outside.  Instead of forty steps times every conjunct, each
step of a run is first shown to have an `Effect` - one process moves, makes a candidate
or keeps it, records at most the answer it is at - and the invariants are proved of effects.

### Gateway and Bridge

* `GatewayTypeCorrect`, `RateIsBounded`, `RateRefusalsAreEarned`, `ConfirmedOnce`.
* `BridgeTypeCorrect`, `NoUpdateIsLost` (`ForgottenWereHandled`), `OncePerProcess`
  (`HandledOncePerProcess`), `ForwardedIsPowerless` (`ForwardedMovesNothing`),
  `LastWordIsKept` (`LastWordStands`).

The properties of the gateway speak of the audit, and its code decides by `_recent` and
`_pending`.  The invariant is the link: `WindowInv` says that an actor's window holds
his counted lines of the last `WindowSeconds`, all of them and nothing else;
`PendingInv` that what waits is what was issued and never tried; `LinesInv` that
no line is newer than the clock.  The step is proved for whatever single line is added.
`BridgeProofs` extends `GatewayProofs`, since a bridge may also be started anew with no
windows and nonces: `BType` keeps only the types of the gateway.  `QueueInv` relates the
offset, the batch and what the server forgot; `HandledInv` says what was handled how
often, on both sides of the update at hand; `FlagInv` that whoever moved the pause flag
last is the newest of the words *this* process has passed: after a death the newer ones
are still to be repeated, and until then the flag need not be what the newest word says.

### Executor

`ExecutorTypeCorrect`, `CandidatesWereRedThenGreen`, `IdlingWasIdleIndeed`,
`ReviewedIsAlwaysWork`, `CandidatesStay`, for any limits and any trees the run starts from.
`LimitInv` says where each limit is used up, `AttemptInv` that whatever has a directory
or a registration has a branch, so that `Attempt` finds a free number (`AttemptFree`);
`CycleInv` ties the loop's two exit codes to what the observer saw (`cycle`); `IdleInv`
ties what the loop counts to what the observer saw, with one turn of slack as long as the
session has moved no file; `HeadInv` the commit to the tree it was made from, but for what
git left out of it.

### Membership and Relay

`MembershipTypeCorrect`, `ApprovedAreAdmitted`, `DenialsAreKept`; `RelayTypeCorrect`,
`ErrorsAreNeverSilent` (`NoErrorIsSilent`); and `CollaborationTypeCorrect`, since a behaviour
of the run that holds both is a behaviour of each (`PartsRun`).  `ApprovedIsAdmitted` is about the queue and has to be claimed of every
copy of the queue that is still to be written back (`CopiesJustified`).  `NoErrorIsSilent`
needs that the keys of a cohort are pairwise different however often a role is repeated:
keys are minted by a recursion over the list of roles, and that every key is new
(`KeysDiffer`) is an induction over the list.  The induction theorems of the library cannot be used, so
`SetInduction` states induction with a set in place of the predicate and is proved from the least
element of a set of numbers.

### Runtimes

`RuntimesTypeCorrect`, `SlotsAreBound` (`EverySlotBound`), `ReviewersAreIndependent`
(`ReviewersIndependent`), `ReserveIsSpent` (`ReserveSpent`), `SwitchIsTraceless`
(`SwitchLeavesNoTrace`) and `DecisionsAreKept` (`DecisionsKept`), for any runtimes,
families and preference, any packages and any number of saves and runs.

`DecisionsKept` is about the file, and every copy may become the file.  `CopyInv`
therefore claims it of the copies: one is at odds with a decision only where it has not
seen it, or where the decision was lost before the copy was loaded.  `RunInv` relates what
a run holds to the registry it loaded, which a switch changes in one status.

Bindings are computed by a recursion over the slots, and `BoundUpTo` is what is true of the
first n: there are n keys, those of a role are numbered without a gap (`Numbered`, so
that the number of keys plus one is always a new one: `KeyIs`), every slot of a role
without constraints has the same runtime (`BindAlike`: the choice depends on the
registry only), and whoever reviews or verifies is apart from the first implementer.
The last two together give `ReviewersIndependent`, and are the reason why looking up the first
implementer is enough.  It also takes that every implementer is bound before anyone who
judges him: `OrderIs`, about the sorted slots of any cohort that `CompileCohort` can build.

### What is only model-checked

Liveness - `ExecutingRecovered`, `InvocationsEnd`, `UpdatesHandled`, `RunsEnd` - which the
prover cannot treat, since it needs ENABLED.  Every invariant and every action property
that a passing run checks is the subject of a theorem.  `EvidenceKept` and
`AcceptedIsFinal` (for a process alone) are only proved: no run lists them.

## 5. Where the code and its words disagree

* `x_live` - `commission.py:179` writes the pid without looking and line 183
  unlinks the file whoever wrote it.  A second request for a package that is
  still READY or PLANNED overwrites the first run's pid, ends at once, and removes
  the file; the next request finds EXECUTING without a holder and fails the live
  run's package.  The comment at line 116 promises that a live run is refused.

Statements that the modules define, that the code does not keep, and that no run
repeats (to see the counterexample, add the definition to the cfg named):

* `AcceptedFullyReviewed` (`Store`; `store` with four evidence rows and no `Attestor`) -
  acceptance asks for a verification of the candidate in the row, not of the candidate
  TECH_COMPLETE was reached on.  If the row is changed in between, a candidate that only
  the verifier saw is accepted.  (`Lifecycle!Accept` states what is true instead: some
  candidate was reviewed, and the accepted one was verified by an outsider.)
* `AcceptedIsFinal` (`StoreRace`; `race`) - `transition()` reads outside the transaction
  that writes, and the `UPDATE` names the package and not the state that was checked
  (`store.py:363`, 410-413).  A process that read BLOCKED and is held up writes its
  transition whenever it goes on, even after another one brought the package to ACCEPTED:
  the package is DISCOVERED again, a move that "is not a reachable transition"
  (`store.py:28`).  A blocking finding or a dependency that changes between the query and
  the write is overlooked in the same way.
* `KilledRunRecovered` (`Commission`; `run_recovery` with one kill) - recovery looks at
  EXECUTING only.  A run killed in PACKAGED or in one of the three reviews leaves a
  package that every later request refuses.
* `RunsOnAcceptedDependencies` (`Commission`; two packages, `ChainCatalogue`) -
  dependencies are checked on entry to READY only, and BLOCKED may be left for
  PLANNED or PACKAGED, so a package that was never READY can be run; the run then
  reports "and dependencies are ACCEPTED" (`orchestrator.py:318`).
* `ThreeIdentities` (`Store`; `store` with `Implementer = {producerA}` and no
  `Attestor`) - `_check_pipeline_complete` compares the verifier with each reviewer and never
  the two reviewers with each other, while its docstring speaks of three separate
  identities.
* `ReviewersStayIndependent` (`Runtimes`; `runtimes`) - `switch()` passes on the family
  constraints of the implementer, who has none; the constraint lies with the
  reviewers, which are not bound again.  After a switch the implementer may be of a
  reviewer's family, of which `profiles.py:213-215` says that its PASS "is not
  independent evidence".
* `AlwaysCommissionedAgain` (`Executor`; `executor`) - the attempt id skips paths that
  are on disk or registered, and `create()` asks git for a *new branch* of that name
  (`manager.py:96`).  `retire()` removes path and registration and leaves the branch:
  the next attempt takes the freed id and fails at `worktree`.  Nothing calls
  `retire()` today; a directory removed by hand and a `git worktree prune` come to
  the same.
* `ReviewedHoldsDeliverables` (`Executor`; `executor`) - "the candidate does not contain"
  (`orchestrator.py:537`) is said of what is missing from the worktree.  A deliverable that
  git ignores is there, and `git add -A` (`model_executor.py:691`) leaves it out of the
  candidate: it passes the gate, and reviewers are asked about a commit without it.
* `VisibleRatherThanSilent` (`Relay`; `collaboration`) - failures to name or seat an agent
  "are visible rather than silent" (`buzz.py:478`), but `publish` reports what the relay
  declined in the dictionary it returns (`accepted`, `buzz.py:208-210`), which `deploy_cohort`
  and `ensure_spaces` do not look at.
* `NothingStartsWhilePaused` (`Bridge`; `bridge`) - "Stop starting new work"
  (`command_gateway.py:74`) sets a flag that `_commission` (`intent_handler.py:223-257`)
  and `commission.run` do not read.
* `ConfirmationHeard` (`Bridge`; `bridge`) - "To go ahead, send exactly: confirm
  <nonce>" (`telegram.py:381`), but the bridge hands that text to `translate`, which
  knows no such command; `confirm()` has no caller.

Read in the code and described here only:

* *Store and runs.*  `_fail` leaves a retryable package in RETRY, from which no run
  starts, although `orchestrator.py:301` says the failure path re-enters at PLANNED
  (the operator's `retry` moves it on); a finding filed before the first candidate has
  none and can never be superseded; a run that is between building its packet and
  PLANNED moves a package out of BLOCKED again.
* *Bindings.*  The second verifier of a HIGH package is said to be on an
  independently bound runtime (`compiler.py:216-224`) and may be on the first one's;
  `rebind()` to a runtime without an address keeps the old client; no caller passes a
  `work_class`, so that no reserve is ever spent; a reserved runtime that is eligible may
  be passed over when its family is in use already; a `disable` is undone by a
  probe that was loaded before it and saved after it.
* *Executor.*  `red.txt` and `green.txt` record the first and the last run, whatever
  they returned; what is written after the green run is run again only at
  verification; a `ModelError` inside a session leaves no transcript, and a second
  session overwrites the first one's; an `OSError` of a tool is blamed on the
  implementation and not followed by a switch; a run of the tests that timed out
  counts as a run, and a refused write as a change; the "DONE" of `model_executor.py:495`
  can never be heard, because the loop has ended by then.
* *Membership.*  A denial after an approval leaves the login in the roster; a knock
  may write back a queue that it read before the decision.
* *Relay.*  `cohort.faults`, where failures are noted, is read by nobody; the keys `role_identity` mints are never admitted
  (`ensure_roles` has no caller), so that a closed relay refuses what a role says, and the
  fallback of `orchestrator.py:160-163` covers only a key that cannot be made; `_say`
  catches `BuzzError` only, so that narration, "Never allowed to stop the run"
  (`orchestrator.py:170`), stops it where `publish` raises `SecretLeak` or the answer is no
  JSON (`Garble`); two runs that mint keys at once lose one of them.

## 6. Not modelled, and the plan

1. `Bridge` composed with `Commission`: the runs that its commands start, so that the
   number of attempts at a package can be spoken of.
2. The protected paths of a diff, over renames, and the list of frozen digests; today
   one field of a tree (`frozen`).
3. The keys of roles and what they say on a relay.

Left out for good: text extraction and rendering (packet builder, reports,
document generators), the words `interpret()` recognises, the prompts, the
resolution of paths at the workspace boundary, HTTP, docker and file formats of local model servers,
cryptographic signatures, secrets scanning, prompt bundles, statistics over
reports, and the test drivers (pilot, scenarios, reliability), which exercise the
modelled components and are used here as evidence of intent.
