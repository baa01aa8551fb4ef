------------------------------ MODULE Runtimes -----------------------------
(***************************************************************************)
(* Which model does which work: the registry of runtimes and the file it is *)
(* kept in (dume/runtimes/profiles.py), what probes and qualifications write *)
(* there (probe.py, qualification.py), the slots a package needs             *)
(* (dume/cohort/compiler.py, role_registry.py), their binding                *)
(* (orchestrator.bind_cohort, live.build_clients) and the switch of the      *)
(* implementer after a runtime failure (handoff.py, executor.rebind).        *)
(* Every process works on a copy of the whole file and saves it whole.       *)
(***************************************************************************)
EXTENDS Integers, Sequences, FiniteSets, SequencesExt

CONSTANTS
    Runtime,       \* runtime ids
    Preference,    \* all of them, by cost tier, then local first, then by id
    Family,        \* the model family of each
    Probing,       \* how each is probed: "endpoint", "cli" or "none"
    Endpoints,     \* those the executor has an address for: live.ENDPOINTS
    FirstFile,     \* what config/runtimes.json may hold at first
    TrialResults,  \* the sets of trials a qualification may pass
    Packages,      \* the packages that may be run, see Package
    WorkClasses,   \* the work classes a run may be given, None among them
    MaxSaves,      \* bound: saves of the file
    MaxRuns,       \* bound: runs that are started
    None

ASSUME RuntimesAssumption ==
    /\ Preference \in Seq(Runtime) /\ Len(Preference) = Cardinality(Runtime)
    /\ \A r \in Runtime : \E i \in 1..Len(Preference) : Preference[i] = r
    /\ Endpoints \subseteq Runtime

VARIABLES
    file,      \* config/runtimes.json: runtime to [status, mode, roles]
    copy,      \* the registry each process holds, or None
    phase,     \* the run: "idle", "ready", "bound", "switched" or "blocked"
    slots,     \* the roles its cohort needs, in the order they are bound
    class,     \* its work class
    bindings,  \* key to runtime, as bind_cohort returns it
    clients,   \* role to the runtime its client speaks to
    failed,    \* the runtime the implementer was switched away from, or None
    loaded,    \* the registry as the run loaded it
    word,      \* the last mode and the last qualification decided for each runtime
    unseen,    \* decisions saved after each process loaded its copy
    lost,      \* decisions that a copy older than them has overwritten
    saves, runs

run   == <<phase, slots, class, bindings, clients, failed, loaded, runs>>
store == <<file, word, lost, saves>>
rvars == <<file, copy, phase, slots, class, bindings, clients, failed, loaded, word,
           unseen, lost, saves, runs>>

Saver  == {"probe", "qualify", "bridge"}
Holder == Saver \cup {"run"}

-----------------------------------------------------------------------------
(* Registry entries *)

Statuses == {"AVAILABLE", "DEGRADED", "RATE_LIMITED", "QUOTA_EXHAUSTED", "AUTH_FAILED",
             "RUNTIME_MISSING", "PROVIDER_DOWN", "MODEL_UNAVAILABLE", "LOCAL_SATURATED",
             "UNKNOWN"}
Modes == {"NORMAL", "RESERVE", "DISABLED", "PINNED"}

\* Runtime.usable()
Usable(entry) == entry.status \in {"AVAILABLE", "DEGRADED"} /\ entry.mode # "DISABLED"

\* RESERVE_ADMITS and RESERVE_ROLES
ReserveAdmits == {"ARCHITECTURE_CRITICAL", "SPEC_CONFLICT", "HIGH_RISK_REVIEW"}
ReserveRoles(work) == IF work = "ARCHITECTURE_CRITICAL" THEN {"architect"}
                      ELSE IF work = "SPEC_CONFLICT" THEN {"spec_reviewer"}
                      ELSE IF work = "HIGH_RISK_REVIEW" THEN {"code_reviewer", "verifier"}
                      ELSE {}

-----------------------------------------------------------------------------
(* Roles and slots *)

BoundRoles == {"architect", "implementer", "spec_reviewer", "code_reviewer", "verifier",
               "specialist"}
Reviewing  == {"spec_reviewer", "code_reviewer", "verifier"}

Registries == [Runtime -> [status : Statuses, mode : Modes, roles : SUBSET BoundRoles]]

ASSUME FileAssumption ==
    /\ FirstFile \subseteq Registries
    /\ None \notin Registries \cup Runtime \cup ReserveAdmits

\* ROLES[role].family_independent_of
FamilyIndependentOf(role) == IF role \in Reviewing THEN {"implementer"} ELSE {}

\* What the compiler reads in a packet: six signals found in its text, the number of
\* acceptance scenarios, and its deliverables by kind.
Package(signals, scenarios, code, config, docs, other) ==
    [signals |-> signals, scenarios |-> scenarios, code |-> code, config |-> config,
     docs |-> docs, other |-> other]

Weight(signal) == IF signal = "touches_security_boundary" THEN 3 ELSE 1

\* assurance_level()
AssuranceLevel(p) ==
    LET weight == FoldSet(LAMBDA s, sum : sum + Weight(s), 0, p.signals)
                  + (IF p.scenarios > 2 THEN 2 ELSE p.scenarios)
    IN  IF weight >= 5 THEN "HIGH" ELSE IF weight >= 3 THEN "STANDARD" ELSE "BASELINE"

\* _implementer_tasks(): one implementer, or one to each kind of deliverable.
ImplementerTasks(p) ==
    LET kinds == Cardinality({k \in {"code", "config", "docs"} : p[k] > 0})
    IN  IF p.code + p.config + p.docs + p.other <= 3 \/ kinds < 2 THEN 1 ELSE kinds

\* compile_cohort(): the slots that need a runtime, as the cohort lists them.
CompileCohort(p) ==
    <<"architect">> \o [i \in 1..ImplementerTasks(p) |-> "implementer"]
    \o <<"spec_reviewer", "code_reviewer", "verifier">>
    \o (IF AssuranceLevel(p) = "HIGH" THEN <<"verifier">> ELSE <<>>)

-----------------------------------------------------------------------------
(* Binding *)

Position(r) == CHOOSE i \in 1..Len(Preference) : Preference[i] = r
Cheapest(S) == CHOOSE r \in S : \A q \in S : Position(r) <= Position(q)

\* eligible()
Eligible(registry, role, families, work) ==
    {r \in Runtime : /\ Usable(registry[r])
                     /\ Family[r] \notin families
                     /\ role \in registry[r].roles
                     /\ registry[r].mode = "RESERVE" => work \in ReserveAdmits}

\* Mutant: reserving only takes away.
HeldForNobody(registry, role, candidates, work) == {}

\* The reserved runtimes that this work is to be spent on, if the role is the one.
Held(registry, role, candidates, work) ==
    IF role \in ReserveRoles(work)
    THEN {r \in candidates : registry[r].mode = "RESERVE"} ELSE {}

Families(bound) == {Family[bound[k]] : k \in DOMAIN bound}

\* bind(): a runtime, or None where NoEligibleRuntime is raised. Only the first slot of
\* a role is looked up among the bound.
Bind(registry, role, bound, work) ==
    LET constrained == FamilyIndependentOf(role)
        excluded == {Family[bound[k]] : k \in {<<other, 1>> : other \in constrained}
                                              \cap DOMAIN bound}
        candidates == Eligible(registry, role, excluded, work)
        held == Held(registry, role, candidates, work)
        fresh == {r \in candidates : Family[r] \notin Families(bound)}
        First(S) == IF S \cap held # {} THEN Cheapest(S \cap held) ELSE Cheapest(S)
    IN  IF candidates = {} THEN None
        ELSE IF constrained # {} /\ fresh # {} THEN First(fresh)
        ELSE First(candidates)

\* Mutant: every further slot of a role gets the same number.
KeySecond(role, bound) == IF <<role, 1>> \in DOMAIN bound THEN <<role, 2>> ELSE <<role, 1>>

\* The key of a slot: the role, numbered from the second on.
Key(role, bound) == <<role, Cardinality({k \in DOMAIN bound : k[1] = role}) + 1>>

\* An assignment to one entry of a dict.
Put(dict, key, value) ==
    [k \in DOMAIN dict \cup {key} |-> IF k = key THEN value ELSE dict[k]]

\* A slot that nothing can be bound to ends the binding.
Unbound(bound) == \E k \in DOMAIN bound : bound[k] = None

BindSlot(registry, work, bound, role) ==
    IF Unbound(bound) THEN bound
    ELSE Put(bound, Key(role, bound), Bind(registry, role, bound, work))

\* sorted(): by the index in a list of roles; equal roles stay as they were.
Sorted(s, roles) ==
    LET Index(i) == CHOOSE k \in DOMAIN roles : roles[k] = s[i]
        UpTo(i) == {j \in DOMAIN s : Index(j) < Index(i) \/ (Index(j) = Index(i) /\ j <= i)}
    IN  [n \in DOMAIN s |-> s[CHOOSE i \in DOMAIN s : Cardinality(UpTo(i)) = n]]

\* Mutant: slots are bound in the order of their names.
OrderByName(s) ==
    Sorted(s, <<"architect", "code_reviewer", "implementer", "spec_reviewer", "verifier">>)

\* The order of bind_cohort; equal roles stay as the cohort lists them.
Order(s) ==
    Sorted(s, <<"architect", "implementer", "spec_reviewer", "code_reviewer", "verifier",
                "specialist">>)

\* bind_cohort(): the bindings of every slot, or up to the one for which BlockedRuntime
\* is raised.
BindCohort(registry, work, s) ==
    LET bound[n \in 0..Len(s)] ==
            IF n = 0 THEN <<>> ELSE BindSlot(registry, work, bound[n - 1], s[n])
    IN  bound[Len(s)]

\* build_clients(): a client to each role whose runtime has an address; a later slot of
\* the role replaces the client of an earlier one.
BuildClients(bound) ==
    LET roles == {k[1] : k \in {j \in DOMAIN bound : bound[j] \in Endpoints}}
        At(role) == CHOOSE k \in DOMAIN bound :
                        /\ k[1] = role /\ bound[k] \in Endpoints
                        /\ \A j \in DOMAIN bound :
                             j[1] = role /\ bound[j] \in Endpoints => j[2] <= k[2]
    IN  [role \in roles |-> bound[At(role)]]

-----------------------------------------------------------------------------
(* The file and its copies *)

RuntimesInit ==
    /\ file \in FirstFile
    /\ copy = [h \in Holder |-> IF h = "bridge" THEN file ELSE None]
    /\ phase = "idle" /\ slots = <<>> /\ class = None
    /\ bindings = <<>> /\ clients = <<>> /\ failed = None /\ loaded = None
    /\ word = [r \in Runtime |-> [mode |-> file[r].mode, roles |-> file[r].roles]]
    /\ unseen = [h \in Saver |-> {}]
    /\ lost = {} /\ saves = 0 /\ runs = 0

\* load(): the copy has seen every decision that is in the file.
Load(h) ==
    /\ copy' = [copy EXCEPT ![h] = file]
    /\ unseen' = [unseen EXCEPT ![h] = lost]

\* save() of a registry: what the copy had not seen is overwritten; a decision that is
\* made with this very save stands, and no other copy has seen it.
Save(h, registry, decision) ==
    /\ saves < MaxSaves
    /\ saves' = saves + 1
    /\ file' = registry
    /\ lost' = (lost \cup unseen[h]) \ decision
    /\ unseen' = [k \in Saver |-> IF copy'[k] = None THEN {}
                                  ELSE IF k = h THEN unseen[h] \ decision
                                  ELSE unseen[k] \cup decision]

\* dume runtime --probe and dume qualify --record start by loading the file.
StartTool(h) ==
    /\ h \in {"probe", "qualify"} /\ copy[h] = None /\ saves < MaxSaves
    /\ Load(h)
    /\ UNCHANGED <<store, run>>

\* Mutant: the answer itself is noted.
ProbedVerbatim(r, entry, answers) ==
    [entry EXCEPT !.status = IF answers THEN "ANSWERED" ELSE "RUNTIME_MISSING"]

\* Mutant: a probed entry is built anew.
ProbedAnew(r, entry, answers) ==
    [status |-> IF answers THEN "AVAILABLE" ELSE "RUNTIME_MISSING",
     mode |-> "NORMAL", roles |-> entry.roles]

\* What probe() makes of an entry. A command on the PATH says nothing of its quota, but
\* a qualification did.
Probed(r, entry, answers) ==
    [entry EXCEPT !.status =
        IF Probing[r] = "none" THEN "UNKNOWN"
        ELSE IF ~answers THEN "RUNTIME_MISSING"
        ELSE IF Probing[r] = "cli" /\ entry.roles = {} THEN "UNKNOWN"
        ELSE "AVAILABLE"]

FinishProbe ==
    /\ copy["probe"] # None
    /\ copy' = [copy EXCEPT !["probe"] = None]
    /\ \E answering \in SUBSET Runtime :
           Save("probe", [r \in Runtime |-> Probed(r, copy["probe"][r], r \in answering)], {})
    /\ UNCHANGED <<run, word>>

\* qualify(): the trials each role needs.
Required(role) ==
    CASE role = "implementer" -> {"tool_calling"}
      [] role \in {"architect", "specialist"} -> {"structured_output"}
      [] role \in {"spec_reviewer", "code_reviewer"} ->
            {"structured_output", "refuses_an_unsound_claim", "admits_uncertainty"}
      [] OTHER -> {"tool_calling", "refuses_an_unsound_claim", "admits_uncertainty"}

QualifiedRoles(passed) == {role \in BoundRoles : Required(role) \subseteq passed}

\* record_qualification(): the roles, and AVAILABLE where there are any.
Qualified(entry, roles) ==
    [entry EXCEPT !.roles = roles,
                  !.status = IF roles = {} THEN @ ELSE "AVAILABLE"]

RecordQualification(r, passed) ==
    /\ copy["qualify"] # None
    /\ copy' = [copy EXCEPT !["qualify"] = None]
    /\ LET roles == QualifiedRoles(passed)
       IN  /\ Save("qualify", [copy["qualify"] EXCEPT ![r] = Qualified(@, roles)],
                   {<<r, "roles">>})
           /\ word' = [word EXCEPT ![r].roles = roles]
    /\ UNCHANGED run

\* The bridge loads the registry once, when it starts.
RestartBridge == copy["bridge"] # file /\ Load("bridge") /\ UNCHANGED <<store, run>>

\* reserve, release, disable and enable: _runtime_mode() of a running bridge.
RuntimeMode(r, mode) ==
    /\ copy' = [copy EXCEPT !["bridge"][r].mode = mode]
    /\ Save("bridge", copy'["bridge"], {<<r, "mode">>})
    /\ word' = [word EXCEPT ![r].mode = mode]
    /\ UNCHANGED run

-----------------------------------------------------------------------------
(* A run *)

StartRun(p, work) ==
    /\ phase = "idle" /\ runs < MaxRuns
    /\ runs' = runs + 1
    /\ phase' = "ready"
    /\ slots' = Order(CompileCohort(p))
    /\ class' = work
    /\ loaded' = file
    /\ copy' = [copy EXCEPT !["run"] = file]
    /\ UNCHANGED <<store, unseen, bindings, clients, failed>>

BindRun ==
    /\ phase = "ready"
    /\ LET bound == BindCohort(copy["run"], class, slots)
       IN  IF Unbound(bound)
           THEN phase' = "blocked" /\ UNCHANGED <<bindings, clients>>
           ELSE /\ phase' = "bound"
                /\ bindings' = bound
                /\ clients' = BuildClients(bound)
    /\ UNCHANGED <<store, copy, unseen, slots, class, failed, loaded, runs>>

\* The registry while the replacement is bound: the failed runtime cannot be chosen.
Excluded(registry, r) ==
    [registry EXCEPT ![r].status = "DEGRADED", ![r].roles = @ \ {"implementer"}]

\* Mutant: the exclusion stays.
RestoredNever(registry, r, new) ==
    IF new = None THEN registry ELSE Excluded(registry, r)

\* The registry afterwards: the role is given back; the mark stays if a replacement was
\* found.
Restored(registry, r, new) ==
    IF new = None THEN registry ELSE [registry EXCEPT ![r].status = "DEGRADED"]

\* The implementer's runtime fails: should_switch() and switch(), which asks for no
\* family independence of an implementer and passes no work class, then rebind(), which
\* changes the client only where the new runtime has an address.
SwitchImplementer ==
    /\ phase = "bound"
    /\ LET old == bindings[<<"implementer", 1>>]
           new == Bind(Excluded(copy["run"], old), "implementer", bindings, None)
       IN  /\ copy' = [copy EXCEPT !["run"] = Restored(@, old, new)]
           /\ failed' = old
           /\ IF new = None
              THEN phase' = "blocked" /\ UNCHANGED <<bindings, clients>>
              ELSE /\ phase' = "switched"
                   /\ bindings' = [bindings EXCEPT ![<<"implementer", 1>>] = new]
                   /\ clients' = IF new \in Endpoints THEN Put(clients, "implementer", new)
                                 ELSE clients
    /\ UNCHANGED <<store, unseen, slots, class, loaded, runs>>

EndRun ==
    /\ phase \in {"bound", "switched", "blocked"}
    /\ phase' = "idle" /\ slots' = <<>> /\ class' = None
    /\ bindings' = <<>> /\ clients' = <<>> /\ failed' = None /\ loaded' = None
    /\ copy' = [copy EXCEPT !["run"] = None]
    /\ UNCHANGED <<store, unseen, runs>>

RuntimesNext ==
    \/ \E h \in {"probe", "qualify"} : StartTool(h)
    \/ FinishProbe
    \/ \E r \in Runtime, passed \in TrialResults : RecordQualification(r, passed)
    \/ RestartBridge
    \/ \E r \in Runtime, mode \in {"NORMAL", "RESERVE", "DISABLED"} : RuntimeMode(r, mode)
    \/ \E p \in Packages, work \in WorkClasses : StartRun(p, work)
    \/ BindRun
    \/ SwitchImplementer
    \/ EndRun

RuntimesSpec == RuntimesInit /\ [][RuntimesNext]_rvars

-----------------------------------------------------------------------------
(* Properties *)

\* Types; only processes that are at work hold a copy.
RuntimesTypeOK ==
    /\ file \in Registries
    /\ \A h \in Holder : copy[h] = None \/ copy[h] \in Registries
    /\ copy["bridge"] # None
    /\ (copy["run"] = None) = (phase = "idle")
    /\ \A k \in DOMAIN bindings : bindings[k] \in Runtime

\* Whatever the number of slots of a role (orchestrator.py:250), each has a binding of
\* its own: no key is used twice.
EverySlotBound ==
    phase \in {"bound", "switched"} => Cardinality(DOMAIN bindings) = Len(slots)

\* "A reviewer from the same family as the implementer fails the same way the
\* implementer failed" (profiles.py:213): no reviewer or verifier, bound or called, is of
\* the family of any implementer, whichever slot the constraint was checked against.
IndependentBindings ==
    /\ \A j, k \in DOMAIN bindings :
         j[1] \in Reviewing /\ k[1] = "implementer" => Family[bindings[j]] # Family[bindings[k]]
    /\ \A j, k \in DOMAIN clients :
         j \in Reviewing /\ k = "implementer" => Family[clients[j]] # Family[clients[k]]

ReviewersIndependent == phase = "bound" => IndependentBindings

\* The same after the implementer was rebound.
ReviewersStayIndependent == phase = "switched" => IndependentBindings

\* Reserving changes who does the work it is for (profiles.py:55), and only that: on
\* architecture-critical work the architect gets a reserved runtime if one can be had,
\* and without a work class no reserved runtime is bound at all.
ReserveSpent ==
    LET reserved == {r \in Runtime : loaded[r].mode = "RESERVE" /\ Usable(loaded[r])}
    IN  phase = "bound" =>
          /\ (class = "ARCHITECTURE_CRITICAL"
              /\ \E r \in reserved : "architect" \in loaded[r].roles)
             => bindings[<<"architect", 1>>] \in reserved
          /\ class = None => \A k \in DOMAIN bindings : bindings[k] \notin reserved

\* The exclusion of the failed runtime was for one decision only: after a switch, made
\* or given up, every runtime keeps its mode and its qualifications, and but for the
\* failed one its status.
SwitchLeavesNoTrace ==
    phase # "idle" =>
        \A r \in Runtime :
            /\ copy["run"][r].mode = loaded[r].mode
            /\ copy["run"][r].roles = loaded[r].roles
            /\ r # failed \/ phase = "blocked" => copy["run"][r].status = loaded[r].status

\* Probes, qualifications and the bridge each save the whole file. What a person set and
\* what a qualification measured stays in it, unless a process saved a copy it had
\* loaded before: nothing else undoes a decision.
DecisionsKept ==
    \A r \in Runtime :
        /\ <<r, "mode">> \notin lost => file[r].mode = word[r].mode
        /\ <<r, "roles">> \notin lost => file[r].roles = word[r].roles
=============================================================================
