------------------------------ MODULE Evidence ------------------------------
(***************************************************************************)
(* What a finished run proves and how a failed one is routed               *)
(* (control-plane, internal/evidence and internal/failure): the evidence   *)
(* ruling over a runner's census of test outcomes, sufficiency, the        *)
(* classification of a failing log and the repair gate.                    *)
(***************************************************************************)
EXTENDS Policy, Integers, FiniteSetsExt

\* The first test of a list that holds decides; tests are <<condition, ruling>>.
FirstHit(tests, otherwise) ==
    LET hits == {i \in DOMAIN tests : tests[i][1]}
    IN  IF hits = {} THEN otherwise ELSE tests[Min(hits)][2]

----------------------------------------------------------------------------
(***************************************************************************)
(* Accepting evidence.  A census counts test outcomes as the runner        *)
(* reported them.                                                          *)
(***************************************************************************)

Executed(r) == r.passed + r.failed
NotRun(r) == r.skipped + r.quarantined

Valid(r) == (\A f \in DOMAIN r : r[f] >= 0) /\ Executed(r) + NotRun(r) = r.total

\* checkResults
CheckResults(p) ==
    FirstHit(<< <<~Valid(p.results), "malformed">>,
                <<Executed(p.results) = 0 /\ NotRun(p.results) > 0, "skip_never_positive">>,
                <<Executed(p.results) = 0, "no_executed_tests">>,
                <<p.verdict = "pass" /\ p.results.failed > 0, "verdict_unsupported">>,
                <<p.verdict = "fail" /\ p.results.failed = 0, "verdict_unsupported">> >>, "accept")

\* checkWellFormed.  digestsOK: every artifact digest is a sha256.
WellFormed(p) == p.attempt >= 1 /\ p.verdict \in {"pass", "fail"} /\ p.digestsOK

\* Evaluate, its checks in their fixed order.  No caller passes a manifest of
\* expected digests, so nothing is ever quarantined as tampered with.
Evaluate(p, ctx) ==
    FirstHit(<< <<~WellFormed(p), "malformed">>,
                <<p.lease # ctx.lease, "lease_provenance_mismatch">>,
                <<p.inputs # ctx.inputs, "inputs_hash_mismatch">>,
                <<\E a \in ctx.accepted : a.run = p.run /\ a.attempt = p.attempt,
                  "duplicate_run_attempt">>,
                <<\E a \in ctx.accepted : a.lease = p.lease, "lease_already_accepted">>,
                <<p.outcome = "skipped", "skip_never_positive">>,
                <<p.outcome = "passed" /\ p.verdict # "pass", "verdict_unsupported">>,
                <<p.outcome = "failed" /\ p.verdict # "fail", "verdict_unsupported">> >>,
             CheckResults(p))

\* evidenceEvaluate: a succeeded run always claims a pass; what its census
\* says decides the outcome, and a missing census counts as all zero.
EvidenceEvaluate(run, attempt, census, digestsOK, ctx) ==
    Evaluate([run |-> run, attempt |-> attempt, lease |-> <<run, attempt>>, inputs |-> "plan",
              verdict |-> "pass", digestsOK |-> digestsOK, results |-> census,
              outcome |-> IF census.failed > 0 THEN "failed"
                          ELSE IF census.passed > 0 THEN "passed" ELSE "skipped"], ctx)

\* evidenceContext binds the run's own lease and the plan's inputs; of prior
\* records it keeps the attempt alone, so neither uniqueness check can hit.
EvidenceContext(run, attempt, prior) ==
    [lease |-> <<run, attempt>>, inputs |-> "plan",
     accepted |-> {[run |-> "-", attempt |-> a, lease |-> <<>>] : a \in prior}]

\* Sufficiency = 1: every required kind has an accepted record.
Sufficient(required, accepted) == required \subseteq accepted

----------------------------------------------------------------------------
(***************************************************************************)
(* Classifying a failure.  A log is known by the rules whose pattern it     *)
(* matches, each as <<rule, masked>>: a masked match rests on the text of a *)
(* secret alone ("secret: hunter2 detected").  Confidences are in           *)
(* hundredths.                                                             *)
(***************************************************************************)

\* redact.String replaces a secret together with its keyword: the rules that
\* still match.
Redact(log) == {m[1] : m \in {m \in log : ~m[2]}}

Rules == << [id |-> "secret_or_policy_hit", class |-> "security_policy_violation", conf |-> 99],
            [id |-> "merge_marker",         class |-> "merge_conflict",            conf |-> 97],
            [id |-> "compile_error",        class |-> "compile_regression",        conf |-> 93],
            [id |-> "golden_mismatch",      class |-> "test_expectation_drift",    conf |-> 85],
            [id |-> "infra_failure",        class |-> "infra_transient",           conf |-> 90],
            [id |-> "budget_deadline",      class |-> "timeout",                   conf |-> 90],
            [id |-> "flaky_signal",         class |-> "flake",                     conf |-> 0],
            [id |-> "assertion_failure",    class |-> "functional_regression",     conf |-> 90] >>

\* flakeBranch.  ctx is what forensics know; the scheduler passes NoForensics.
NoForensics == [known |-> FALSE, reruns |-> 0, environments |-> 0]
FlakeBranch(ctx) ==
    IF ctx.known THEN [class |-> "known_flake", conf |-> 95]
    ELSE IF ctx.reruns >= 2 /\ ctx.environments >= 2 THEN [class |-> "probable_flake", conf |-> 85]
    ELSE [class |-> "probable_flake", conf |-> 55]

\* Mutant: the surest rule decides, and an exact infrastructure match is sure.
ClassifyInfraFirst(text, ctx) ==
    IF "infra_failure" \in text
    THEN [rule |-> "infra_failure", class |-> "infra_transient", conf |-> 90]
    ELSE LET hits == {i \in DOMAIN Rules : Rules[i].id \in text}
         IN  IF hits = {} THEN [rule |-> "unclassified_fallback",
                                class |-> "functional_regression", conf |-> 30]
             ELSE [rule |-> Rules[Min(hits)].id, class |-> Rules[Min(hits)].class,
                   conf |-> Rules[Min(hits)].conf]

\* Classify: the first rule that matches the text decides.
Classify(text, ctx) ==
    LET hits == {i \in DOMAIN Rules : Rules[i].id \in text}
        r    == Rules[Min(hits)]
        said == IF r.id = "flaky_signal" THEN FlakeBranch(ctx) ELSE r
    IN  IF hits = {}
        THEN [rule |-> "unclassified_fallback", class |-> "functional_regression", conf |-> 30]
        ELSE [rule |-> r.id, class |-> said.class, conf |-> said.conf]

\* routeFailure
RouteFailure(fc) ==
    IF fc.rule = "unclassified_fallback" THEN "escalate_human"
    ELSE CASE fc.class = "infra_transient" -> "retry"
           [] fc.class \in {"known_flake", "probable_flake"} -> "quarantine_flake"
           [] fc.class \in {"compile_regression", "functional_regression", "merge_conflict"} -> "repair"
           [] fc.class = "security_policy_violation" -> "reject"
           [] OTHER -> "escalate_human"

\* filterProhibited: a surface is itself a glob, and is matched as a name.
FilterProhibited(surfaces, prohibited) == {s \in surfaces : ~MatchAnyGlob(prohibited, s)}

\* The iterations of an envelope, whatever the policy grants.
MaxRepairIterations == 2
Iterations(pack) ==
    IF pack.repairAttempts = 0 \/ pack.repairAttempts > MaxRepairIterations
    THEN MaxRepairIterations ELSE pack.repairAttempts

\* AuthorizeRepair: a denial, or the envelope.
Deny(reason) == [granted |-> FALSE, reason |-> reason]
AuthorizeRepair(fc, pack, surfaces, risk) ==
    LET allowed == FilterProhibited(surfaces, pack.protected)
    IN  FirstHit(<< <<fc.class = "security_policy_violation", Deny("security")>>,
                    <<pack.level < 3, Deny("autonomy")>>,
                    <<fc.class \notin pack.repairClasses, Deny("class")>>,
                    <<risk \notin DOMAIN pack.required, Deny("unknown_risk_class")>>,
                    <<allowed = {}, Deny("no_allowed_surface")>> >>,
                 [granted |-> TRUE, allowed |-> allowed, iterations |-> Iterations(pack)])
=============================================================================
