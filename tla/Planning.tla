------------------------------ MODULE Planning ------------------------------
(***************************************************************************)
(* The validation plan of a candidate (control-plane, internal/planner):   *)
(* the ladder of tiers, the triggers that widen it to full suites, and the *)
(* kind of evidence each job produces.                                     *)
(***************************************************************************)
EXTENDS Policy

Job(name, kind) == [name |-> name, kind |-> kind]

\* tier0Jobs .. tier4Jobs.  A suite is selected, or full when widened.
Tier0Jobs == {Job(g, g) : g \in {"secret_scan", "format_lint", "typecheck_lite", "diff_sanity",
                                 "policy_admissibility"}}

Tier1Jobs(widened) ==
    {Job("hermetic_build", "hermetic_build"), Job("compile_affected_targets", "compile"),
     Job(IF widened THEN "full_unit_suite" ELSE "selected_unit_tests", "selected_unit"),
     Job("sast_diff_scan", "sast_diff")}

Tier2Base(widened) ==
    {Job(IF widened THEN "full_integration_suite" ELSE "impacted_integration_tests", "integration"),
     Job("api_compat", "api_compat"), Job("schema_migration_compat", "migration_compat"),
     Job("dependency_license_check", "license_check")}

Tier3Jobs == {Job("e2e_browser_mobile", "e2e"), Job("load_affected_surfaces", "load"),
              Job("fuzz_affected_surfaces", "fuzz"), Job("preview_env_validation", "preview_env")}

Tier4Jobs == {Job("merge_train_simulation", "integration_train"),
              Job("integrated_build_sign", "integrated_build"), Job("canary_gate", "canary_gate")}

PolicyJobs == {Job("payment_contract_check", "payment_contract"),
               Job("idempotency_race_probe", "idempotency_race")}

\* Mutant: widening the contract tier forgets the jobs the policy asked for.
ComposeTier2Widened(required, widened) ==
    IF widened THEN Tier2Base(TRUE)
    ELSE Tier2Base(FALSE) \cup {j \in PolicyJobs : j.kind \in required}

\* composeTier2Jobs, then widenTier2.
ComposeTier2(required, widened) ==
    Tier2Base(widened) \cup {j \in PolicyJobs : j.kind \in required}

\* buildJobKindIndex and EvidenceKindForJob: a name that no catalog holds
\* counts as a build.
AllJobs == Tier0Jobs \cup Tier1Jobs(TRUE) \cup Tier1Jobs(FALSE) \cup Tier2Base(TRUE)
             \cup Tier2Base(FALSE) \cup PolicyJobs \cup Tier3Jobs \cup Tier4Jobs

JobKindByName == [n \in {j.name : j \in AllJobs} |-> (CHOOSE j \in AllJobs : j.name = n).kind]
EvidenceKindForJob(name) ==
    IF name \in DOMAIN JobKindByName THEN JobKindByName[name] ELSE "hermetic_build"

----------------------------------------------------------------------------
(***************************************************************************)
(* Triggers.  in is a CandidateInput: [paths, risk] and the telemetry of   *)
(* the learned statistics, of which engineInput knows nothing yet.         *)
(***************************************************************************)

NoHistory == 101
EngineInput(c) ==
    [paths |-> c.paths, risk |-> c.risk, confidence |-> NoHistory, samples |-> 0, flakes |-> FALSE,
     composing |-> FALSE, conflicting |-> FALSE, ambiguous |-> FALSE, override |-> FALSE]

\* effectiveSelectionConfidence, in hundredths.
EffectiveConfidence(in) == IF in.confidence = NoHistory THEN 50 ELSE in.confidence

\* SurfaceClasses: the first segment of a path, "_root" for a file at the root.
SurfaceClasses(paths) == {IF Len(p) = 1 THEN <<"_root">> ELSE p[1] : p \in paths}

\* matchAnyPath over the planner's own copy of the matcher, which is Policy's
\* line for line.
MatchAnyPath(patterns, paths) == \E p \in paths : MatchAnyGlob(patterns, p)

\* evaluateFallbacks.  samples is the least count over the touched classes.
EvaluateFallbacks(in, pack) ==
    (IF EffectiveConfidence(in) < pack.minConfidence THEN {"uncertainty"} ELSE {})
      \cup (IF SurfaceClasses(in.paths) # {} /\ in.samples < 20 THEN {"sparse_history"} ELSE {})
      \cup (IF MatchAnyPath(pack.protected, in.paths) THEN {"protected_paths"} ELSE {})
      \cup (IF in.flakes THEN {"flake_signal"} ELSE {})
      \cup (IF in.composing \/ in.conflicting THEN {"conflicting_composition"} ELSE {})
      \cup (IF in.ambiguous THEN {"ambiguous_retry"} ELSE {})
      \cup (IF in.override THEN {"explicit_override"} ELSE {})

\* Tier 3 is entered by risk class or by explicit uncertainty, tier 4 only
\* when a set is composed or somebody asks.
NeedsTier3(in, pack, triggers) ==
    in.risk \in pack.tier3 \/ triggers \cap {"uncertainty", "explicit_override"} # {}

NeedsTier4(in) == in.composing \/ in.override

\* Plan: the jobs of every planned tier, and what the policy requires.
Plan(in, pack) ==
    LET triggers == EvaluateFallbacks(in, pack)
        widened  == triggers # {}
        required == pack.required[in.risk]
    IN  [policy   |-> <<pack.id, pack.version>>,
         triggers |-> triggers,
         required |-> required,
         jobs     |-> Tier0Jobs \cup Tier1Jobs(widened) \cup ComposeTier2(required, widened)
                        \cup (IF NeedsTier3(in, pack, triggers) THEN Tier3Jobs ELSE {})
                        \cup (IF NeedsTier4(in) THEN Tier4Jobs ELSE {})]

\* EnginePlanner.Plan: the registry decides with no actor in the subject, and
\* the plan is made without telemetry.
EnginePlan(c, recs) ==
    LET subject == [repo |-> c.repo, paths |-> c.paths, risk |-> c.risk, actor |-> EmptyText]
        best    == Resolve(subject, recs)
    IN  Plan(EngineInput(c), recs[best])
=============================================================================
