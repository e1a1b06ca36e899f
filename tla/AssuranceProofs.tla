-------------------------- MODULE AssuranceProofs --------------------------
(***************************************************************************)
(* Theorems about Assurance: what its rules guarantee for every cast of    *)
(* submissions, every table of works and every registry.                   *)
(***************************************************************************)
EXTENDS Assurance, TLAPS, FiniteSetTheorems, SequenceTheorems, WellFoundedInduction

----------------------------------------------------------------------------
(***************************************************************************)
(* Numbers: induction by sets, and the least element of a set.             *)
(***************************************************************************)

\* A set of naturals with 0 and closed under successor is Nat: the initial
\* segments of its missing members are finite sets without a smallest one.
LEMMA CountingUp ==
    ASSUME NEW S \in SUBSET Nat, 0 \in S, \A n \in S : n + 1 \in S
    PROVE  S = Nat
<1> DEFINE Missing == {0..n : n \in Nat \ S}
           Below == StrictSubsetOrdering(Nat)
<1>1. Missing \subseteq FiniteSubsetsOf(Nat)
  <2> SUFFICES ASSUME NEW n \in Nat PROVE 0..n \in FiniteSubsetsOf(Nat)
    OBVIOUS
  <2>1. IsFiniteSet(0..n)
    BY FS_Interval
  <2> QED
    BY <2>1 DEF FiniteSubsetsOf
<1>2. IsWellFoundedOn(Below, FiniteSubsetsOf(Nat))
  BY FS_StrictSubsetOrderingWellFounded
<1>3. ASSUME NEW n \in Nat \ S
      PROVE  n - 1 \in Nat \ S /\ <<0..(n - 1), 0..n>> \in Below
  <2>1. n - 1 \in Nat /\ (n - 1) + 1 = n
    OBVIOUS
  <2>2. n - 1 \notin S
    BY <2>1
  <2>3. /\ 0..(n - 1) \in SUBSET Nat /\ 0..n \in SUBSET Nat /\ 0..(n - 1) \subseteq 0..n
        /\ n \in 0..n /\ n \notin 0..(n - 1)
    BY <2>1
  <2> QED
    BY <2>1, <2>2, <2>3 DEF StrictSubsetOrdering
<1>4. \A x \in Missing : \E y \in Missing : <<y, x>> \in Below
  BY <1>3
<1> HIDE DEF Below, Missing
<1>5. Missing = {}
  BY <1>1, <1>2, <1>4, WFMin
<1> QED
  BY <1>5 DEF Missing

\* A set of naturals that is not empty has a least element.
LEMMA LeastElement ==
    ASSUME NEW S \in SUBSET Nat, S # {}
    PROVE  Min(S) \in S /\ \A y \in S : Min(S) <= y
<1> DEFINE Under == {n \in Nat : \A y \in S : n <= y}
<1>1. Under # Nat
  <2>1. PICK y \in S : TRUE
    OBVIOUS
  <2>2. y + 1 \notin Under /\ y + 1 \in Nat
    BY <2>1
  <2> QED
    BY <2>2
<1>2. PICK n \in Under : n + 1 \notin Under
  <2>1. 0 \in Under /\ Under \in SUBSET Nat
    OBVIOUS
  <2> HIDE DEF Under
  <2> QED
    BY <1>1, <2>1, CountingUp
<1>3. PICK y \in S : ~(n + 1 <= y)
  BY <1>2
<1>4. y = n
  BY <1>2, <1>3
<1>5. \E x \in S : \A z \in S : x <= z
  BY <1>3, <1>4, <1>2
<1> QED
  BY <1>5 DEF Min

\* The first hit of a list of tests is a test that holds; if none does, the
\* list decides nothing.
LEMMA FirstHitDecides ==
    ASSUME NEW n \in Nat, NEW tests, DOMAIN tests = 1..n, NEW otherwise
    PROVE  \/ /\ \A i \in 1..n : ~tests[i][1]
              /\ FirstHit(tests, otherwise) = otherwise
           \/ \E i \in 1..n : tests[i][1] /\ FirstHit(tests, otherwise) = tests[i][2]
<1> DEFINE hits == {i \in DOMAIN tests : tests[i][1]}
<1>1. FirstHit(tests, otherwise) = IF hits = {} THEN otherwise ELSE tests[Min(hits)][2]
  BY DEF FirstHit
<1>2. hits \in SUBSET Nat
  OBVIOUS
<1>3. hits # {} => Min(hits) \in hits
  BY <1>2, LeastElement
<1> QED
  BY <1>1, <1>3

----------------------------------------------------------------------------
(***************************************************************************)
(* Evidence                                                                *)
(***************************************************************************)

\* Evidence is accepted only if some test passed and none failed.
LEMMA AcceptedCounts ==
    ASSUME NEW j, NEW att, NEW census, NEW digestsOK, NEW ctx,
           EvidenceEvaluate(j, att, census, digestsOK, ctx) = "accept"
    PROVE  census.passed > 0 /\ ~(census.failed > 0)
<1> DEFINE p == [run |-> j, attempt |-> att, lease |-> <<j, att>>, inputs |-> "plan",
                 verdict |-> "pass", digestsOK |-> digestsOK, results |-> census,
                 outcome |-> IF census.failed > 0 THEN "failed"
                             ELSE IF census.passed > 0 THEN "passed" ELSE "skipped"]
           tests == << <<~WellFormed(p), "malformed">>,
                       <<p.lease # ctx.lease, "lease_provenance_mismatch">>,
                       <<p.inputs # ctx.inputs, "inputs_hash_mismatch">>,
                       <<\E a \in ctx.accepted : a.run = p.run /\ a.attempt = p.attempt,
                         "duplicate_run_attempt">>,
                       <<\E a \in ctx.accepted : a.lease = p.lease, "lease_already_accepted">>,
                       <<p.outcome = "skipped", "skip_never_positive">>,
                       <<p.outcome = "passed" /\ p.verdict # "pass", "verdict_unsupported">>,
                       <<p.outcome = "failed" /\ p.verdict # "fail", "verdict_unsupported">> >>
<1>1. FirstHit(tests, CheckResults(p)) = "accept"
  BY DEF EvidenceEvaluate, Evaluate
<1>2. DOMAIN tests = 1..8
  OBVIOUS
<1>3. \A i \in 1..8 : tests[i][2] # "accept"
  OBVIOUS
<1>4. ~tests[6][1] /\ ~tests[8][1]
  <2> HIDE DEF tests, p
  <2>0. 8 \in Nat
    OBVIOUS
  <2>1. \/ /\ \A i \in 1..8 : ~tests[i][1]
           /\ FirstHit(tests, CheckResults(p)) = CheckResults(p)
        \/ \E i \in 1..8 : tests[i][1] /\ FirstHit(tests, CheckResults(p)) = tests[i][2]
    BY <1>2, <2>0, FirstHitDecides
  <2>2. \A i \in 1..8 : ~tests[i][1]
    BY <1>1, <1>3, <2>1
  <2> QED
    BY <2>2
<1>5. p.outcome # "skipped" /\ p.outcome # "failed"
  BY <1>4
<1> QED
  BY <1>5

\* A census of a run that passed: its counts add up, some test passed, none
\* failed.
CleanCensus(r) ==
    /\ IsCensus(r) /\ \A f \in DOMAIN r : r[f] >= 0
    /\ r.total = r.passed + r.failed + r.skipped + r.quarantined
    /\ r.passed > 0 /\ r.failed = 0

\* The evidence of a run with a clean census is accepted; what else the run
\* has on record does not stand in its way.
LEMMA CleanAccepted ==
    ASSUME NEW j, j # "-", NEW att \in Nat \ {0}, NEW census, CleanCensus(census), NEW prior
    PROVE  EvidenceEvaluate(j, att, census, TRUE, EvidenceContext(j, att, prior)) = "accept"
<1> DEFINE ctx == EvidenceContext(j, att, prior)
           p == [run |-> j, attempt |-> att, lease |-> <<j, att>>, inputs |-> "plan",
                 verdict |-> "pass", digestsOK |-> TRUE, results |-> census,
                 outcome |-> IF census.failed > 0 THEN "failed"
                             ELSE IF census.passed > 0 THEN "passed" ELSE "skipped"]
           tests == << <<~WellFormed(p), "malformed">>,
                       <<p.lease # ctx.lease, "lease_provenance_mismatch">>,
                       <<p.inputs # ctx.inputs, "inputs_hash_mismatch">>,
                       <<\E a \in ctx.accepted : a.run = p.run /\ a.attempt = p.attempt,
                         "duplicate_run_attempt">>,
                       <<\E a \in ctx.accepted : a.lease = p.lease, "lease_already_accepted">>,
                       <<p.outcome = "skipped", "skip_never_positive">>,
                       <<p.outcome = "passed" /\ p.verdict # "pass", "verdict_unsupported">>,
                       <<p.outcome = "failed" /\ p.verdict # "fail", "verdict_unsupported">> >>
           checks == << <<~Valid(p.results), "malformed">>,
                        <<Executed(p.results) = 0 /\ NotRun(p.results) > 0, "skip_never_positive">>,
                        <<Executed(p.results) = 0, "no_executed_tests">>,
                        <<p.verdict = "pass" /\ p.results.failed > 0, "verdict_unsupported">>,
                        <<p.verdict = "fail" /\ p.results.failed = 0, "verdict_unsupported">> >>
<1>1. EvidenceEvaluate(j, att, census, TRUE, ctx) = FirstHit(tests, CheckResults(p))
  BY DEF EvidenceEvaluate, Evaluate
<1>2. CheckResults(p) = FirstHit(checks, "accept")
  BY DEF CheckResults
<1>3. /\ census.passed \in Int /\ census.failed = 0 /\ census.skipped \in Int
      /\ census.quarantined \in Int /\ census.passed > 0
  BY DEF CleanCensus, IsCensus
<1>4. Valid(census) /\ Executed(census) > 0
  <2>1. Executed(census) = census.passed /\ NotRun(census) = census.skipped + census.quarantined
    BY <1>3 DEF Executed, NotRun
  <2>2. census.total = Executed(census) + NotRun(census)
    BY <1>3, <2>1 DEF CleanCensus
  <2> QED
    BY <1>3, <2>1, <2>2 DEF CleanCensus, Valid
<1>5. p.results = census /\ p.verdict = "pass" /\ p.outcome = "passed"
  BY <1>3
<1>6. CheckResults(p) = "accept"
  <2>1. DOMAIN checks = 1..5 /\ 5 \in Nat
    OBVIOUS
  <2>2. Executed(census) # 0 /\ ~(census.failed > 0)
    BY <1>3, <1>4 DEF Executed
  <2>3. \A i \in 1..5 : ~checks[i][1]
    <3>1. ~checks[1][1]
      BY <1>4, <1>5
    <3>2. ~checks[2][1] /\ ~checks[3][1]
      BY <1>5, <2>2
    <3>3. ~checks[4][1] /\ ~checks[5][1]
      BY <1>5, <2>2
    <3> HIDE DEF checks
    <3> QED
      BY <3>1, <3>2, <3>3
  <2> HIDE DEF checks, p
  <2> QED
    BY <1>2, <2>1, <2>3, FirstHitDecides
<1>7. \A i \in 1..8 : ~tests[i][1]
  <2>1. WellFormed(p)
    BY DEF WellFormed
  <2>2. p.lease = ctx.lease /\ p.inputs = ctx.inputs
    BY DEF EvidenceContext
  <2>3. ~\E a \in ctx.accepted : a.run = p.run /\ a.attempt = p.attempt
    BY DEF EvidenceContext
  <2>4. ~\E a \in ctx.accepted : a.lease = p.lease
    BY DEF EvidenceContext
  <2> HIDE DEF ctx, p
  <2>5. ~tests[1][1]
    BY <2>1
  <2>6. ~tests[2][1] /\ ~tests[3][1]
    BY <2>2
  <2>7. ~tests[4][1]
    BY <2>3
  <2>8. ~tests[5][1]
    BY <2>4
  <2>9. ~tests[6][1] /\ ~tests[7][1] /\ ~tests[8][1]
    BY <1>5
  <2> HIDE DEF tests
  <2> QED
    BY <2>5, <2>6, <2>7, <2>8, <2>9
<1>8. DOMAIN tests = 1..8 /\ 8 \in Nat
  OBVIOUS
<1> HIDE DEF tests, p, ctx
<1>9. FirstHit(tests, CheckResults(p)) = CheckResults(p)
  BY <1>7, <1>8, FirstHitDecides
<1> QED
  BY <1>1, <1>6, <1>9 DEF ctx

----------------------------------------------------------------------------
(***************************************************************************)
(* A job on a worker                                                       *)
(***************************************************************************)

\* What the markers of one container say, and what its exit adds.
LEMMA OnePreset ==
    ASSUME NEW w, NEW i, NEW p, w.box[p].lines \in Seq(STRING), ImageFor(w, p)
    PROVE  /\ "failed" \notin Range(ChecksOf(w, i, p)) <=>
                 ExitCode(w, i, p) = 0 /\ Range(w.box[p].lines) \subseteq {"pass", "skip", Noise}
           /\ ExitCode(w, i, p) = 0 =>
                 ("passed" \in Range(ChecksOf(w, i, p)) <=> "pass" \in Range(w.box[p].lines))
<1> DEFINE lines == w.box[p].lines
           checks == ParseCheckMarkers(lines)
<1>1. /\ DOMAIN checks = {k \in DOMAIN lines : lines[k] # Noise}
      /\ \A k \in DOMAIN checks : checks[k] = NormalizedVerdict(lines[k])
  BY DEF ParseCheckMarkers
<1>2. /\ Noise # "pass" /\ Noise # "skip"
      /\ \A raw : /\ NormalizedVerdict(raw) = "failed" <=> raw # "pass" /\ raw # "skip"
                  /\ NormalizedVerdict(raw) = "passed" <=> raw = "pass"
  BY DEF NormalizedVerdict, Noise
<1>3. ChecksOf(w, i, p) = IF ExitCode(w, i, p) # 0 THEN FallbackChecks(checks) ELSE checks
  BY DEF ChecksOf
<1>4. "failed" \in Range(FallbackChecks(checks))
  BY DEF FallbackChecks, Range
<1> HIDE DEF lines, checks
<1>5. "failed" \notin Range(checks) <=> Range(lines) \subseteq {"pass", "skip", Noise}
  BY <1>1, <1>2 DEF Range
<1>6. "passed" \in Range(checks) <=> "pass" \in Range(lines)
  BY <1>1, <1>2 DEF Range
<1> QED
  BY <1>3, <1>4, <1>5, <1>6 DEF lines

\* The checks of all presets are those of each.
LEMMA EveryPlace ==
    ASSUME NEW w, NEW presets, NEW last \in Nat, NEW v
    PROVE  v \in Range(AllChecks(w, presets, last)) <=>
              \E i \in 1..last : v \in Range(ChecksOf(w, i, presets[i]))
<1> DEFINE C(i) == ChecksOf(w, i, presets[i])
           all == AllChecks(w, presets, last)
<1>1. /\ DOMAIN all = UNION {{i} \X DOMAIN C(i) : i \in 1..last}
      /\ \A at \in DOMAIN all : all[at] = C(at[1])[at[2]]
  BY DEF AllChecks
<1> HIDE DEF C, all
<1>2. ASSUME NEW i \in 1..last, NEW k \in DOMAIN C(i)
      PROVE  <<i, k>> \in DOMAIN all /\ all[<<i, k>>] = C(i)[k]
  BY <1>1
<1>3. ASSUME NEW at \in DOMAIN all
      PROVE  at[1] \in 1..last /\ at[2] \in DOMAIN C(at[1]) /\ all[at] = C(at[1])[at[2]]
  BY <1>1
<1>4. v \in Range(all) <=> \E i \in 1..last : v \in Range(C(i))
  <2>1. ASSUME v \in Range(all) PROVE \E i \in 1..last : v \in Range(C(i))
    <3>1. PICK at \in DOMAIN all : v = all[at]
      BY <2>1 DEF Range
    <3> QED
      BY <3>1, <1>3 DEF Range
  <2>2. ASSUME NEW i \in 1..last, v \in Range(C(i)) PROVE v \in Range(all)
    <3>1. PICK k \in DOMAIN C(i) : v = C(i)[k]
      BY <2>2 DEF Range
    <3> QED
      BY <3>1, <1>2 DEF Range
  <2> QED
    BY <2>1, <2>2
<1> QED
  BY <1>4 DEF C, all

\* The stacks that were detected, in order.
LEMMA PresetsDetected ==
    ASSUME NEW files
    PROVE  DetectPresets(files) \in Seq(Presets)
<1>1. ASSUME NEW a \in Seq(Presets), NEW b \in Seq(Presets) PROVE a \o b \in Seq(Presets)
  BY ConcatProperties
<1>2. <<>> \in Seq(Presets) /\ <<"node">> \in Seq(Presets) /\ <<"python">> \in Seq(Presets)
        /\ <<"go">> \in Seq(Presets)
  BY DEF Presets
<1>3. PICK a \in Seq(Presets), b \in Seq(Presets), c \in Seq(Presets) :
         DetectPresets(files) = a \o b \o c
  BY <1>2 DEF DetectPresets
<1> QED
  BY <1>1, <1>3

\* What a census says of passes and failures.
LEMMA CensusFields ==
    ASSUME NEW p, NEW f, NEW s
    PROVE  Census(p, f, s).passed = p /\ Census(p, f, s).failed = f
BY DEF Census

\* The container runs that end well and in time are those that really passed,
\* provided that some check ran: all of execute, preset by preset.
LEMMA RealExecPasses ==
    ASSUME NEW w, IsWork(w), w.via = "realexec", RealExec(w).status = "succeeded",
           RealExec(w).census.passed > 0, w.timer = "waits"
    PROVE  ReallyPassed(w)
<1> DEFINE presets == DetectPresets(w.files)
           last == Len(presets)
           ran == {i \in 1..last : ImageFor(w, presets[i])}
           all == AllChecks(w, presets, last)
<1>1. InfraFailure(w).status = "failed"
  BY DEF InfraFailure, Outcome
<1>2. ~w.panics /\ RealExec(w) = Execute(w)
  BY <1>1 DEF RealExec
<1>3. w.disk
  BY <1>1, <1>2 DEF Execute
<1>4. Finish(w.late = 0, <<"skipped">>, {}).census.passed = 0
  <2>1. Finish(w.late = 0, <<"skipped">>, {}).census = CensusFor(<<"skipped">>)
    BY DEF Finish, Outcome
  <2>2. CensusFor(<<"skipped">>).passed = Count(<<"skipped">>, "passed")
    BY CensusFields DEF CensusFor
  <2>3. {i \in DOMAIN <<"skipped">> : <<"skipped">>[i] = "passed"} = {}
    OBVIOUS
  <2>4. Count(<<"skipped">>, "passed") = 0
    BY <2>3, FS_EmptySet DEF Count
  <2> QED
    BY <2>1, <2>2, <2>4
<1>5. ResolveBundle(w) /\ ExtractTarball(w) /\ Execute(w) = RunAllPresets(w, presets)
  BY <1>2, <1>3, <1>4 DEF Execute
<1>6. presets \in Seq(Presets) /\ last \in Nat /\ w.late \in Nat
      /\ w.box \in [Presets -> [up : BOOLEAN, lines : Seq(STRING), exit : Int, log : SUBSET (STRING \X BOOLEAN)]]
  BY PresetsDetected DEF IsWork
<1> HIDE DEF presets
<1>7. /\ ~(w.late <= last) /\ \A i \in ran : w.box[presets[i]].up
      /\ \E log : RunAllPresets(w, presets) = Finish(FALSE, all, log)
  <2> DEFINE late == w.late <= last
             upto == IF late THEN w.late ELSE last
             tried == {i \in 1..upto : ImageFor(w, presets[i])}
  <2>1. /\ ~\E i \in tried : ~w.box[presets[i]].up
        /\ RunAllPresets(w, presets) =
              Finish(late, AllChecks(w, presets, upto), UNION {w.box[presets[i]].log : i \in tried})
    BY <1>1, <1>2, <1>5 DEF RunAllPresets
  <2>2. ClassifyRun(late, AllChecks(w, presets, upto)) = "succeeded"
    BY <1>2, <1>5, <2>1 DEF Finish, Outcome
  <2>3. ~late
    BY <2>2 DEF ClassifyRun
  <2>4. late = FALSE
    BY <2>3
  <2>5. upto = last
    BY <2>3
  <2>6. tried = ran
    BY <2>5
  <2>7. RunAllPresets(w, presets) = Finish(FALSE, all, UNION {w.box[presets[i]].log : i \in tried})
    BY <2>1, <2>4, <2>5
  <2> QED
    BY <2>1, <2>3, <2>6, <2>7
<1>8. "failed" \notin Range(all)
  <2>0. PICK log : RunAllPresets(w, presets) = Finish(FALSE, all, log)
    BY <1>7
  <2> HIDE DEF all
  <2> QED
    BY <1>2, <1>5, <2>0 DEF Finish, Outcome, ClassifyRun
<1>9. "passed" \in Range(all)
  <2>1. CensusFor(all).passed > 0
    BY <1>2, <1>5, <1>7 DEF Finish, Outcome
  <2>2. Count(all, "passed") > 0
    BY <2>1, CensusFields DEF CensusFor
  <2>3. {k \in DOMAIN all : all[k] = "passed"} # {}
    <3> SUFFICES ASSUME {k \in DOMAIN all : all[k] = "passed"} = {} PROVE FALSE
      OBVIOUS
    <3>1. Count(all, "passed") = 0
      BY FS_EmptySet DEF Count
    <3> QED
      BY <2>2, <3>1
  <2> HIDE DEF all
  <2> QED
    BY <2>3 DEF Range
<1> HIDE DEF all
<1>10. ASSUME NEW i \in ran
       PROVE  /\ presets[i] \in Presets /\ w.box[presets[i]].exit = 0
              /\ Range(w.box[presets[i]].lines) \subseteq {"pass", "skip", Noise}
              /\ "passed" \in Range(ChecksOf(w, i, presets[i])) => "pass" \in Range(w.box[presets[i]].lines)
  <2>1. presets[i] \in Presets /\ i \in 1..last /\ ImageFor(w, presets[i])
    BY <1>6
  <2>2. w.box[presets[i]].lines \in Seq(STRING)
    BY <1>6, <2>1
  <2>3. "failed" \notin Range(ChecksOf(w, i, presets[i]))
    BY <1>6, <1>8, <2>1, EveryPlace DEF all
  <2>4. /\ ExitCode(w, i, presets[i]) = 0
        /\ Range(w.box[presets[i]].lines) \subseteq {"pass", "skip", Noise}
        /\ "passed" \in Range(ChecksOf(w, i, presets[i])) => "pass" \in Range(w.box[presets[i]].lines)
    BY <2>1, <2>2, <2>3, OnePreset
  <2>5. i # w.late
    BY <1>6, <1>7, <2>1
  <2> QED
    BY <2>1, <2>4, <2>5 DEF ExitCode
<1>11. PICK i \in 1..last : "passed" \in Range(ChecksOf(w, i, presets[i]))
  BY <1>6, <1>9, EveryPlace DEF all
<1>12. ImageFor(w, presets[i])
  <2> SUFFICES ASSUME ~ImageFor(w, presets[i]) PROVE FALSE
    OBVIOUS
  <2>1. ChecksOf(w, i, presets[i]) = <<"skipped">>
    BY DEF ChecksOf
  <2>2. "passed" \notin Range(<<"skipped">>)
    BY DEF Range
  <2> QED
    BY <1>11, <2>1, <2>2
<1> DEFINE on == {p \in Range(presets) : p = "go" => w.goImage}
<1>13. ASSUME NEW p \in on PROVE \E k \in ran : p = presets[k]
  BY <1>6 DEF Range, ImageFor
<1>14. \A p \in on : /\ w.box[p].up /\ w.box[p].exit = 0
                     /\ Range(w.box[p].lines) \subseteq {"pass", "skip", Noise}
  BY <1>7, <1>10, <1>13
<1>15. \E p \in on : "pass" \in Range(w.box[p].lines)
  <2>1. i \in ran /\ presets[i] \in on
    BY <1>6, <1>12 DEF Range, ImageFor
  <2> QED
    BY <1>10, <1>11, <2>1
<1>16. w.late > last
  BY <1>6, <1>7
<1>17. w.ref # "none" /\ (w.ref = "gone" => w.hashed) /\ w.archive = "good"
  BY <1>5 DEF ResolveBundle, ExtractTarball
<1> QED
  BY <1>2, <1>3, <1>14, <1>15, <1>16, <1>17 DEF ReallyPassed, presets

Statuses == {"succeeded", "failed", "timed_out"}

\* Whatever a provider meets, it hands over an outcome.
LEMMA ProvidedOutcome ==
    ASSUME NEW w, IsWork(w), w.via # "worker"
    PROVE  \E st \in Statuses : \E census, log : Provide(w) = Outcome(st, census, log)
<1>1. CASE w.via = "sim"
  <2>1. Provide(w) = Simulate(w)
    BY <1>1 DEF Provide
  <2> QED
    BY <2>1 DEF Simulate, Statuses
<1>2. CASE w.via = "docker"
  <2>1. Provide(w) = DockerRun(w)
    BY <1>2 DEF Provide
  <2> QED
    BY <2>1 DEF DockerRun, Statuses
<1>3. CASE w.via = "realexec"
  <2>1. Provide(w) = RealExec(w)
    BY <1>3 DEF Provide
  <2>2. \A presets : \E st \in Statuses : \E census, log : RunAllPresets(w, presets) = Outcome(st, census, log)
    BY DEF RunAllPresets, InfraFailure, Finish, ClassifyRun, Statuses
  <2>3. \E st \in Statuses : \E census, log : Execute(w) = Outcome(st, census, log)
    BY <2>2 DEF Execute, InfraFailure, Finish, ClassifyRun, Statuses
  <2> QED
    BY <2>1, <2>3 DEF RealExec, InfraFailure, Statuses
<1> QED
  BY <1>1, <1>2, <1>3 DEF IsWork

\* A report of success that counts as a pass is the report of a run that
\* really passed, whoever sends it.
LEMMA CountedIsReal ==
    ASSUME NEW w, IsWork(w), Completes(w), Reported(w).status = "succeeded",
           Reported(w).census.passed > 0, ~(Reported(w).census.failed > 0)
    PROVE  ReallyPassed(w)
<1>1. CASE w.via = "worker"
  <2>1. Reported(w).status = w.sent.status /\ Reported(w).census = w.sent.census
    BY <1>1 DEF Reported, IsWork
  <2>2. CompletionOK(w.sent) /\ IsCensus(w.sent.census)
    BY <1>1 DEF Completes, IsWork
  <2>3. w.sent.census.failed = 0
    BY <2>1, <2>2 DEF CompletionOK, IsCensus
  <2> QED
    BY <1>1, <2>1, <2>3 DEF ReallyPassed
<1>2. CASE w.via # "worker"
  <2>1. Reported(w) = RunJob(w) /\ w.timer \in {"waits", "ended", "running"}
    BY <1>2 DEF Reported, IsWork
  <2>2. w.timer = "waits" /\ RunJob(w) = Provide(w)
    <3>1. PICK st, census, log : Provide(w) = Outcome(st, census, log)
      BY <1>2, ProvidedOutcome
    <3>2. [Provide(w) EXCEPT !.status = "timed_out"].status = "timed_out"
      BY <3>1 DEF Outcome
    <3>3. Outcome("timed_out", NoCensus, {}).status = "timed_out"
      BY DEF Outcome
    <3> QED
      BY <2>1, <3>2, <3>3 DEF RunJob
  <2>3. CASE w.via = "sim"
    <3>1. Simulate(w).status = "succeeded"
      BY <2>1, <2>2, <2>3 DEF Provide
    <3> QED
      BY <2>2, <2>3, <3>1 DEF Simulate, Outcome, ReallyPassed
  <2>4. CASE w.via = "docker"
    <3>1. DockerRun(w).status = "succeeded"
      BY <2>1, <2>2, <2>4 DEF Provide
    <3> QED
      BY <2>2, <2>4, <3>1 DEF DockerRun, Outcome, ReallyPassed
  <2>5. CASE w.via = "realexec"
    <3>1. RealExec(w) = Reported(w)
      BY <2>1, <2>2, <2>5 DEF Provide
    <3> QED
      BY <2>2, <2>5, <3>1, RealExecPasses
  <2> QED
    BY <1>2, <2>3, <2>4, <2>5 DEF IsWork
<1> QED
  BY <1>1, <1>2

\* What the feed shows has ended in one of three ways.
LEMMA ReportedStatus ==
    ASSUME NEW w, IsWork(w), Completes(w)
    PROVE  Reported(w).status \in Statuses
<1>1. CASE w.via = "worker"
  <2>1. Reported(w).status = w.sent.status
    BY <1>1 DEF Reported, IsWork
  <2> QED
    BY <1>1, <2>1 DEF Completes, CompletionOK, Statuses
<1>2. CASE w.via # "worker"
  <2>1. Reported(w) = RunJob(w) /\ w.timer \in {"waits", "ended", "running"}
    BY <1>2 DEF Reported, IsWork
  <2>2. PICK st, census, log : st \in Statuses /\ Provide(w) = Outcome(st, census, log)
    BY <1>2, ProvidedOutcome
  <2>3. Provide(w).status \in Statuses /\ [Provide(w) EXCEPT !.status = "timed_out"].status \in Statuses
    BY <2>2 DEF Outcome, Statuses
  <2>4. Outcome("timed_out", NoCensus, {}).status \in Statuses
    BY DEF Outcome, Statuses
  <2> QED
    BY <2>1, <2>3, <2>4 DEF RunJob
<1> QED
  BY <1>1, <1>2

\* The census of checks none of which failed and one of which passed.
LEMMA CleanCount ==
    ASSUME NEW checks, IsFiniteSet(DOMAIN checks), "failed" \notin Range(checks),
           "passed" \in Range(checks)
    PROVE  CleanCensus(CensusFor(checks))
<1>1. \A v : Count(checks, v) \in Nat
  <2> SUFFICES ASSUME NEW v PROVE Count(checks, v) \in Nat
    OBVIOUS
  <2>1. IsFiniteSet({i \in DOMAIN checks : checks[i] = v})
    BY FS_Subset
  <2> QED
    BY <2>1, FS_CardinalityType DEF Count
<1>2. Count(checks, "failed") = 0
  <2>1. {i \in DOMAIN checks : checks[i] = "failed"} = {}
    BY DEF Range
  <2> QED
    BY <2>1, FS_EmptySet DEF Count
<1>3. Count(checks, "passed") # 0
  <2>1. {i \in DOMAIN checks : checks[i] = "passed"} # {}
    BY DEF Range
  <2>2. IsFiniteSet({i \in DOMAIN checks : checks[i] = "passed"})
    BY FS_Subset
  <2> QED
    BY <2>1, <2>2, FS_EmptySet DEF Count
<1>4. PICK p \in Nat, s \in Nat : CensusFor(checks) = Census(p, 0, s) /\ p > 0
  BY <1>1, <1>2, <1>3 DEF CensusFor
<1> QED
  BY <1>4 DEF Census, CleanCensus, IsCensus

\* The range of a finite function is finite, and so is the union of finite
\* sets that such a function lists.
LEMMA FiniteRange ==
    ASSUME NEW S, IsFiniteSet(S), NEW T, NEW f \in [S -> T]
    PROVE  IsFiniteSet(Range(f)) /\ Cardinality(Range(f)) <= Cardinality(S)
<1>1. f \in Surjection(S, Range(f))
  BY DEF Surjection, Range
<1> QED
  BY <1>1, FS_Surjection

\* A finite family of finite sets has a finite union.
LEMMA FiniteUnion ==
    ASSUME NEW S, IsFiniteSet(S), NEW T, NEW f \in [S -> T], \A x \in S : IsFiniteSet(f[x])
    PROVE  IsFiniteSet(UNION Range(f))
<1>1. \A y \in Range(f) : IsFiniteSet(y)
  BY DEF Range
<1> QED
  BY <1>1, FiniteRange, FS_UNION

\* A worker reports finitely many checks.
LEMMA FinitePlaces ==
    ASSUME NEW w, NEW presets, NEW last \in Nat,
           \A i \in 1..last : w.box[presets[i]].lines \in Seq(STRING)
    PROVE  IsFiniteSet(DOMAIN AllChecks(w, presets, last))
<1> DEFINE D(i) == {i} \X DOMAIN ChecksOf(w, i, presets[i])
           f == [i \in 1..last |-> D(i)]
<1>1. ASSUME NEW i \in 1..last PROVE IsFiniteSet(DOMAIN ChecksOf(w, i, presets[i]))
  <2> DEFINE lines == w.box[presets[i]].lines
             checks == ParseCheckMarkers(lines)
  <2>1. DOMAIN checks \subseteq DOMAIN lines
    BY DEF ParseCheckMarkers
  <2>2. lines \in Seq(STRING)
    OBVIOUS
  <2>3. IsFiniteSet(DOMAIN lines)
    <3>1. Len(lines) \in Nat /\ DOMAIN lines = 1..Len(lines)
      BY <2>2
    <3> QED
      BY <3>1, FS_Interval
  <2>4. IsFiniteSet(DOMAIN checks)
    BY <2>1, <2>3, FS_Subset
  <2>5. DOMAIN FallbackChecks(checks) \in {DOMAIN checks, DOMAIN checks \cup {0}}
    BY DEF FallbackChecks
  <2>6. IsFiniteSet(DOMAIN checks \cup {0})
    BY <2>4, FS_AddElement
  <2>7. IsFiniteSet(DOMAIN <<"skipped">>)
    <3>1. DOMAIN <<"skipped">> = {1}
      OBVIOUS
    <3> QED
      BY <3>1, FS_Singleton
  <2> HIDE DEF checks
  <2>8. ChecksOf(w, i, presets[i]) \in {<<"skipped">>, FallbackChecks(checks), checks}
    BY DEF ChecksOf, checks
  <2> QED
    BY <2>4, <2>5, <2>6, <2>7, <2>8
<1>2. ASSUME NEW i \in 1..last PROVE IsFiniteSet(D(i))
  BY <1>1, FS_Singleton, FS_Product
<1>3. IsFiniteSet(1..last)
  BY FS_Interval
<1>4. f \in [1..last -> Range(f)] /\ \A i \in 1..last : f[i] = D(i)
  BY DEF Range
<1>5. DOMAIN AllChecks(w, presets, last) = UNION {D(i) : i \in 1..last}
  BY DEF AllChecks
<1> HIDE DEF f, D
<1>6. IsFiniteSet(UNION Range(f))
  <2>1. \A i \in 1..last : IsFiniteSet(f[i])
    BY <1>2, <1>4
  <2> QED
    BY <1>3, <1>4, <2>1, FiniteUnion
<1>7. Range(f) = {D(i) : i \in 1..last}
  BY <1>4 DEF Range
<1> QED
  BY <1>5, <1>6, <1>7

\* Containers whose run really passed make the run a success, with a clean
\* census.
LEMMA PassedIsReported ==
    ASSUME NEW w, IsWork(w), w.via = "realexec", ReallyPassed(w)
    PROVE  \E census, log : CleanCensus(census) /\ RealExec(w) = Outcome("succeeded", census, log)
<1> DEFINE presets == DetectPresets(w.files)
           last == Len(presets)
           on == {p \in Range(presets) : p = "go" => w.goImage}
           all == AllChecks(w, presets, last)
<1>1. /\ w.disk /\ w.ref # "none" /\ (w.ref = "gone" => w.hashed) /\ w.archive = "good"
      /\ ~w.panics /\ w.late > last
      /\ \A p \in on : w.box[p].up /\ w.box[p].exit = 0
                         /\ Range(w.box[p].lines) \subseteq {"pass", "skip", Noise}
      /\ \E p \in on : "pass" \in Range(w.box[p].lines)
  BY DEF ReallyPassed
<1>2. /\ presets \in Seq(Presets) /\ last \in Nat /\ w.late \in Nat /\ w.ref \in {"none", "staged", "gone"}
      /\ w.box \in [Presets -> [up : BOOLEAN, lines : Seq(STRING), exit : Int, log : SUBSET (STRING \X BOOLEAN)]]
  BY PresetsDetected DEF IsWork
<1> HIDE DEF presets
<1>3. ASSUME NEW i \in 1..last
      PROVE  /\ presets[i] \in Presets /\ presets[i] \in Range(presets)
             /\ w.box[presets[i]].lines \in Seq(STRING)
             /\ ImageFor(w, presets[i]) <=> presets[i] \in on
  BY <1>2 DEF Range, ImageFor
<1>4. ASSUME NEW i \in 1..last, presets[i] \in on
      PROVE  /\ "failed" \notin Range(ChecksOf(w, i, presets[i]))
             /\ "pass" \in Range(w.box[presets[i]].lines) => "passed" \in Range(ChecksOf(w, i, presets[i]))
  <2>1. ExitCode(w, i, presets[i]) = 0
    BY <1>1, <1>2, <1>4 DEF ExitCode
  <2> QED
    BY <1>1, <1>3, <1>4, <2>1, OnePreset
<1>5. ASSUME NEW i \in 1..last PROVE "failed" \notin Range(ChecksOf(w, i, presets[i]))
  <2>1. CASE presets[i] \notin on
    <3>1. ChecksOf(w, i, presets[i]) = <<"skipped">>
      BY <1>3, <2>1 DEF ChecksOf
    <3>2. "failed" \notin Range(<<"skipped">>)
      BY DEF Range
    <3> QED
      BY <3>1, <3>2
  <2> QED
    BY <1>4, <2>1
<1>6. PICK i \in 1..last : presets[i] \in on /\ "pass" \in Range(w.box[presets[i]].lines)
  <2>1. PICK p \in on : "pass" \in Range(w.box[p].lines)
    BY <1>1
  <2>2. PICK k \in DOMAIN presets : presets[k] = p
    BY DEF Range
  <2>3. k \in 1..last
    BY <1>2, <2>2
  <2> QED
    BY <2>1, <2>2, <2>3
<1>7. "failed" \notin Range(all) /\ "passed" \in Range(all)
  <2>1. "failed" \notin Range(all)
    BY <1>2, <1>5, EveryPlace
  <2>2. "passed" \in Range(ChecksOf(w, i, presets[i]))
    BY <1>4, <1>6
  <2>3. "passed" \in Range(all)
    BY <1>2, <2>2, EveryPlace
  <2> QED
    BY <2>1, <2>3
<1>8. CleanCensus(CensusFor(all))
  <2>1. IsFiniteSet(DOMAIN all)
    BY <1>2, <1>3, FinitePlaces
  <2> HIDE DEF all
  <2> QED
    BY <1>7, <2>1, CleanCount
<1>9. \E log : RunAllPresets(w, presets) = Outcome("succeeded", CensusFor(all), log)
  <2> DEFINE late == w.late <= last
             upto == IF late THEN w.late ELSE last
             tried == {k \in 1..upto : ImageFor(w, presets[k])}
  <2>1. ~late /\ upto = last
    BY <1>1, <1>2
  <2>2. ~\E k \in tried : ~w.box[presets[k]].up
    BY <1>1, <1>3, <2>1
  <2>3. RunAllPresets(w, presets) =
           Finish(late, AllChecks(w, presets, upto), UNION {w.box[presets[k]].log : k \in tried})
    BY <2>2 DEF RunAllPresets
  <2>4. PICK log : RunAllPresets(w, presets) = Finish(late, all, log)
    BY <2>1, <2>3
  <2>5. ClassifyRun(late, all) = "succeeded"
    BY <1>7, <2>1 DEF ClassifyRun
  <2> HIDE DEF all, late
  <2> QED
    BY <2>4, <2>5 DEF Finish
<1>10. presets # <<>>
  BY <1>2, <1>6
<1>11. Execute(w) = RunAllPresets(w, presets)
  <2>1. ResolveBundle(w) /\ ExtractTarball(w)
    BY <1>1, <1>2 DEF ResolveBundle, ExtractTarball
  <2> QED
    BY <1>1, <1>10, <2>1 DEF Execute, presets
<1> QED
  BY <1>1, <1>8, <1>9, <1>11 DEF RealExec

\* A job that really passed is reported as a success with a clean census: no
\* provider loses a pass.
LEMMA RealIsReported ==
    ASSUME NEW w, IsWork(w), Completes(w), ReallyPassed(w)
    PROVE  /\ Reported(w).status = "succeeded" /\ CleanCensus(Reported(w).census)
           /\ Reported(w).digestsOK = TRUE
<1>1. CASE w.via = "worker"
  <2>1. /\ Reported(w).status = w.sent.status /\ Reported(w).census = w.sent.census
        /\ Reported(w).digestsOK = w.sent.digestsOK /\ w.sent.digestsOK \in BOOLEAN
    BY <1>1 DEF Reported, IsWork
  <2>2. CompletionOK(w.sent) /\ IsCensus(w.sent.census)
    BY <1>1 DEF Completes, IsWork
  <2>3. w.sent.status = "succeeded" /\ w.sent.census.passed > 0 /\ w.sent.census.failed = 0
    BY <1>1 DEF ReallyPassed
  <2>4. CleanCensus(w.sent.census)
    BY <2>2, <2>3 DEF CleanCensus, CompletionOK
  <2>5. w.sent.digestsOK = TRUE
    BY <2>1, <2>2 DEF CompletionOK
  <2> QED
    BY <2>1, <2>3, <2>4, <2>5
<1>2. CASE w.via # "worker"
  <2>1. w.timer = "waits" /\ Reported(w) = Provide(w)
    BY <1>2 DEF Reported, RunJob, ReallyPassed, IsWork
  <2> SUFFICES \E census, log : CleanCensus(census) /\ Provide(w) = Outcome("succeeded", census, log)
    BY <2>1 DEF Outcome
  <2>2. \A n \in Nat \ {0} : CleanCensus(Census(n, 0, 0))
    BY DEF CleanCensus, Census, IsCensus
  <2>3. CASE w.via = "sim"
    <3>1. Provide(w) = Simulate(w) /\ w.dice.total \in Nat \ {0}
      BY <2>3 DEF Provide, IsWork
    <3>2. Simulate(w) = Outcome("succeeded", Census(w.dice.total, 0, 0), {})
      BY <2>3 DEF Simulate, ReallyPassed
    <3> QED
      BY <2>2, <3>1, <3>2
  <2>4. CASE w.via = "docker"
    <3>1. Provide(w) = DockerRun(w)
      BY <2>4 DEF Provide
    <3>2. DockerRun(w) = Outcome("succeeded", Census(1, 0, 0), w.log)
      BY <2>4 DEF DockerRun, ReallyPassed
    <3>3. CleanCensus(Census(1, 0, 0))
      BY <2>2
    <3> QED
      BY <3>1, <3>2, <3>3
  <2>5. CASE w.via = "realexec"
    <3>1. Provide(w) = RealExec(w)
      BY <2>5 DEF Provide
    <3> QED
      BY <2>5, <3>1, PassedIsReported
  <2> QED
    BY <1>2, <2>3, <2>4, <2>5 DEF IsWork
<1> QED
  BY <1>1, <1>2

----------------------------------------------------------------------------
(***************************************************************************)
(* Clusters                                                                *)
(***************************************************************************)

\* Scores are fractions with a positive denominator.
LEMMA ScoreType ==
    ASSUME NEW A, IsFiniteSet(A), NEW B, IsFiniteSet(B)
    PROVE  /\ Score(A, B).n \in Nat /\ Score(A, B).d \in Nat \ {0}
           /\ Score(A, B).n # 0 => A \cap B # {}
<1>1. IsFiniteSet(A \cap B) /\ IsFiniteSet(A \cup B)
  BY FS_Intersection, FS_Union
<1>2. Cardinality(A \cap B) \in Nat /\ Cardinality(A \cup B) \in Nat
  BY <1>1, FS_CardinalityType
<1>3. A \cup B # {} => Cardinality(A \cup B) # 0
  BY <1>1, FS_EmptySet
<1>4. A \cap B = {} => Cardinality(A \cap B) = 0
  BY FS_EmptySet
<1> QED
  BY <1>2, <1>3, <1>4 DEF Score

Fraction == [n : Nat, d : Nat \ {0}]

\* Fractions are ordered by Less, up to equal value.
LEMMA LessTransitive ==
    ASSUME NEW x \in Fraction, NEW y \in Fraction, NEW z \in Fraction
    PROVE  /\ Less(x, y) /\ ~Less(z, y) => Less(x, z)
           /\ ~Less(y, x) /\ Less(y, z) => Less(x, z)
           /\ ~Less(y, x) /\ ~Less(z, y) => ~Less(z, x)
           /\ ~Less(x, x)
           /\ ~(Less(x, y) /\ Less(y, x))
<1>1. PICK a \in Nat, b \in Nat \ {0}, c \in Nat, d \in Nat \ {0}, e \in Nat, f \in Nat \ {0} :
         x.n = a /\ x.d = b /\ y.n = c /\ y.d = d /\ z.n = e /\ z.d = f
  BY DEF Fraction
<1>2. ASSUME NEW p \in Nat, NEW q \in Nat, NEW k \in Nat \ {0}
      PROVE  /\ p <= q <=> p * k <= q * k
             /\ p < q <=> p * k < q * k
  OBVIOUS
<1>3. /\ a * d \in Nat /\ c * b \in Nat /\ c * f \in Nat /\ e * d \in Nat /\ a * f \in Nat /\ e * b \in Nat
      /\ (a * d) * f = (a * f) * d /\ (c * b) * f = (c * f) * b /\ (e * d) * b = (e * b) * d
  OBVIOUS
<1>4. PICK ad \in Nat, cb \in Nat, cf \in Nat, ed \in Nat, af \in Nat, eb \in Nat :
         /\ ad = a * d /\ cb = c * b /\ cf = c * f /\ ed = e * d /\ af = a * f /\ eb = e * b
         /\ ad * f = af * d /\ cb * f = cf * b /\ ed * b = eb * d
  BY <1>3
<1>5. /\ ad <= cb <=> af * d <= cf * b
      /\ ad < cb <=> af * d < cf * b
      /\ cf <= ed <=> cf * b <= eb * d
      /\ cf < ed <=> cf * b < eb * d
      /\ af <= eb <=> af * d <= eb * d
      /\ af < eb <=> af * d < eb * d
  <2>1. /\ ad <= cb <=> ad * f <= cb * f
        /\ ad < cb <=> ad * f < cb * f
    BY <1>2
  <2>2. /\ cf <= ed <=> cf * b <= ed * b
        /\ cf < ed <=> cf * b < ed * b
    BY <1>2
  <2>3. /\ af <= eb <=> af * d <= eb * d
        /\ af < eb <=> af * d < eb * d
    BY <1>2
  <2> QED
    BY <1>4, <2>1, <2>2, <2>3
<1>6. PICK u \in Nat, v \in Nat, t \in Nat : u = af * d /\ v = cf * b /\ t = eb * d
  OBVIOUS
<1>7. /\ ad < cb /\ cf <= ed => af < eb
      /\ ad <= cb /\ cf < ed => af < eb
      /\ ad <= cb /\ cf <= ed => af <= eb
  BY <1>5, <1>6
<1>8. /\ Less(x, y) <=> ad < cb
      /\ Less(y, x) <=> cb < ad
      /\ Less(y, z) <=> cf < ed
      /\ Less(z, y) <=> ed < cf
      /\ Less(x, z) <=> af < eb
      /\ Less(z, x) <=> eb < af
  BY <1>1, <1>4 DEF Less
<1>9. ~Less(x, x)
  BY <1>1 DEF Less
<1> QED
  BY <1>7, <1>8, <1>9

\* The order in which Assign prefers clusters, from the two scores of each.
Precedes(po, tri, r, q) ==
    \/ Less(po[q], po[r])
    \/ ~Less(po[r], po[q]) /\ Less(tri[q], tri[r])
    \/ ~Less(po[r], po[q]) /\ ~Less(tri[r], tri[q]) /\ r <= q

\* It is a total order, and so a finite set of clusters has a best one: the
\* one that the fewest others beat is beaten by none.
LEMMA PrecedesTotal ==
    ASSUME NEW S \in SUBSET Nat, NEW po \in [S -> Fraction], NEW tri \in [S -> Fraction],
           NEW r \in S, NEW q \in S, NEW x \in S
    PROVE  /\ Precedes(po, tri, r, r)
           /\ Precedes(po, tri, r, q) \/ Precedes(po, tri, q, r)
           /\ Precedes(po, tri, r, x) /\ Precedes(po, tri, x, q) => Precedes(po, tri, r, q)
<1>1. PICK a \in Fraction, b \in Fraction, c \in Fraction, d \in Fraction, e \in Fraction, f \in Fraction :
         a = po[r] /\ b = po[q] /\ c = po[x] /\ d = tri[r] /\ e = tri[q] /\ f = tri[x]
  OBVIOUS
<1>2. /\ ~Less(a, a) /\ ~Less(d, d) /\ ~(Less(a, b) /\ Less(b, a)) /\ ~(Less(d, e) /\ Less(e, d))
      /\ ~(Less(a, c) /\ Less(c, a)) /\ ~(Less(c, b) /\ Less(b, c))
      /\ ~(Less(d, f) /\ Less(f, d)) /\ ~(Less(f, e) /\ Less(e, f))
  BY LessTransitive
<1>3. /\ Less(b, c) /\ ~Less(a, c) => Less(b, a)
      /\ ~Less(c, b) /\ Less(c, a) => Less(b, a)
      /\ ~Less(c, b) /\ ~Less(a, c) => ~Less(a, b)
  BY LessTransitive
<1>4. /\ Less(e, f) /\ ~Less(d, f) => Less(e, d)
      /\ ~Less(f, e) /\ Less(f, d) => Less(e, d)
      /\ ~Less(f, e) /\ ~Less(d, f) => ~Less(d, e)
  BY LessTransitive
<1>5. r \in Nat /\ q \in Nat /\ x \in Nat
  OBVIOUS
<1>6. Precedes(po, tri, r, r) /\ (Precedes(po, tri, r, q) \/ Precedes(po, tri, q, r))
  BY <1>1, <1>2, <1>5 DEF Precedes
<1>7. ASSUME Precedes(po, tri, r, x), Precedes(po, tri, x, q) PROVE Precedes(po, tri, r, q)
  <2>1. \/ Less(c, a)
        \/ ~Less(a, c) /\ Less(f, d)
        \/ ~Less(a, c) /\ ~Less(d, f) /\ r <= x
    BY <1>1, <1>7 DEF Precedes
  <2>2. \/ Less(b, c)
        \/ ~Less(c, b) /\ Less(e, f)
        \/ ~Less(c, b) /\ ~Less(f, e) /\ x <= q
    BY <1>1, <1>7 DEF Precedes
  <2>3. r <= x /\ x <= q => r <= q
    BY <1>5
  <2>4. \/ Less(b, a)
        \/ ~Less(a, b) /\ Less(e, d)
        \/ ~Less(a, b) /\ ~Less(d, e) /\ r <= q
    BY <1>2, <1>3, <1>4, <2>1, <2>2, <2>3
  <2> QED
    BY <1>1, <2>4 DEF Precedes
<1> QED
  BY <1>6, <1>7

\* Among finitely many clusters one precedes all others.
LEMMA BestExists ==
    ASSUME NEW S \in SUBSET Nat, IsFiniteSet(S), S # {},
           NEW po \in [S -> Fraction], NEW tri \in [S -> Fraction]
    PROVE  \E r \in S : \A q \in S : Precedes(po, tri, r, q)
<1> DEFINE Beaters(r) == {q \in S : ~Precedes(po, tri, r, q)}
           Counts == {Cardinality(Beaters(r)) : r \in S}
<1>1. ASSUME NEW r \in S PROVE IsFiniteSet(Beaters(r)) /\ Cardinality(Beaters(r)) \in Nat
  BY FS_Subset, FS_CardinalityType
<1>2. Counts \in SUBSET Nat /\ Counts # {}
  BY <1>1
<1> HIDE DEF Beaters
<1>3. PICK r \in S : \A q \in S : Cardinality(Beaters(r)) <= Cardinality(Beaters(q))
  <2>1. Min(Counts) \in Counts /\ \A y \in Counts : Min(Counts) <= y
    <3> HIDE DEF Counts
    <3> QED
      BY <1>2, LeastElement
  <2> QED
    BY <2>1
<1>4. ASSUME NEW q \in Beaters(r) PROVE FALSE
  <2>1. q \in S /\ ~Precedes(po, tri, r, q)
    BY <1>4 DEF Beaters
  <2>2. Beaters(q) \subseteq Beaters(r)
    <3> SUFFICES ASSUME NEW x \in S, ~Precedes(po, tri, q, x) PROVE ~Precedes(po, tri, r, x)
      BY DEF Beaters
    <3> QED
      BY <2>1, PrecedesTotal
  <2>3. q \notin Beaters(q)
    BY <2>1, PrecedesTotal DEF Beaters
  <2>4. IsFiniteSet(Beaters(r)) /\ Cardinality(Beaters(r)) \in Nat /\ Cardinality(Beaters(q)) \in Nat
    BY <1>1, <2>1
  <2>5. Cardinality(Beaters(q)) < Cardinality(Beaters(r))
    <3>1. Beaters(q) # Beaters(r)
      BY <1>4, <2>3
    <3> QED
      BY <2>2, <2>4, <3>1, FS_Subset
  <2> QED
    BY <1>3, <2>1, <2>4, <2>5
<1> QED
  BY <1>4 DEF Beaters

\* What a submission lists is finite, and so are its trigrams.
LEMMA FiniteTrigrams ==
    ASSUME NEW ps \in Seq(DOMAIN Grams)
    PROVE  IsFiniteSet(Pathset(ps)) /\ IsFiniteSet(Trigrams(ps))
<1>1. IsFiniteSet(Pathset(ps)) /\ Pathset(ps) \subseteq DOMAIN Grams
  <2>1. ps \in [1..Len(ps) -> DOMAIN Grams] /\ Len(ps) \in Nat
    OBVIOUS
  <2>2. IsFiniteSet(1..Len(ps))
    BY <2>1, FS_Interval
  <2>3. Pathset(ps) \subseteq DOMAIN Grams
    BY <2>1 DEF Pathset, Range
  <2>4. IsFiniteSet(Range(ps))
    BY <2>1, <2>2, FiniteRange
  <2> QED
    BY <2>3, <2>4 DEF Pathset
<1>2. IsFiniteSet(UNION {Grams[p] : p \in Pathset(ps)})
  <2> DEFINE f == [p \in Pathset(ps) |-> Grams[p]]
  <2>1. f \in [Pathset(ps) -> Range(f)] /\ \A p \in Pathset(ps) : IsFiniteSet(f[p])
    BY <1>1, GramsFinite DEF Range
  <2>2. Range(f) = {Grams[p] : p \in Pathset(ps)}
    BY DEF Range
  <2> HIDE DEF f
  <2>3. IsFiniteSet(UNION Range(f))
    BY <1>1, <2>1, FiniteUnion
  <2> QED
    BY <2>2, <2>3
<1>3. IsFiniteSet(Neighbours(ps))
  <2>1. IsFiniteSet(Pathset(ps) \X Pathset(ps))
    BY <1>1, FS_Product
  <2> QED
    BY <2>1, FS_Subset DEF Neighbours
<1> DEFINE G(pq) == {<<"end", pq[1]>>, <<"start", pq[2]>>, <<"seam", pq[1], pq[2]>>}
<1>4. IsFiniteSet(UNION {G(pq) : pq \in Neighbours(ps)})
  <2> DEFINE f == [pq \in Neighbours(ps) |-> G(pq)]
  <2>1. \A a, b, c : IsFiniteSet({a, b, c})
    <3> SUFFICES ASSUME NEW a, NEW b, NEW c PROVE IsFiniteSet({a, b, c})
      OBVIOUS
    <3>1. IsFiniteSet({a})
      BY FS_Singleton
    <3>2. IsFiniteSet({a} \cup {b})
      BY <3>1, FS_AddElement
    <3>3. IsFiniteSet(({a} \cup {b}) \cup {c})
      BY <3>2, FS_AddElement
    <3>4. {a, b, c} = ({a} \cup {b}) \cup {c}
      OBVIOUS
    <3> QED
      BY <3>3, <3>4
  <2>2. f \in [Neighbours(ps) -> Range(f)] /\ \A pq \in Neighbours(ps) : f[pq] = G(pq)
    BY DEF Range
  <2>3. \A pq \in Neighbours(ps) : IsFiniteSet(f[pq])
    BY <2>1, <2>2
  <2>4. Range(f) = {G(pq) : pq \in Neighbours(ps)}
    BY DEF Range
  <2> HIDE DEF f, G
  <2>5. IsFiniteSet(UNION Range(f))
    BY <1>3, <2>2, <2>3, FiniteUnion
  <2> QED
    BY <2>4, <2>5
<1>5. Trigrams(ps) = (UNION {Grams[p] : p \in Pathset(ps)}) \cup (UNION {G(pq) : pq \in Neighbours(ps)})
  BY DEF Trigrams
<1> DEFINE A == UNION {Grams[p] : p \in Pathset(ps)}
           B == UNION {G(pq) : pq \in Neighbours(ps)}
<1>6. Trigrams(ps) = A \cup B
  BY <1>5
<1>7. IsFiniteSet(A)
  BY <1>2
<1>8. IsFiniteSet(B)
  BY <1>4
<1> HIDE DEF A, B
<1>9. IsFiniteSet(A \cup B)
  BY <1>7, <1>8, FS_Union
<1> QED
  BY <1>1, <1>6, <1>9

\* A candidate joins a cluster of its repo whose representative's paths
\* overlap its own, with the relation that the paths say, or none.
LEMMA AssignMeans ==
    ASSUME NEW ps \in Seq(DOMAIN Grams), NEW reps \in SUBSET Nat, IsFiniteSet(reps), NEW pathsOf,
           \A r \in reps : pathsOf[r] \in Seq(DOMAIN Grams)
    PROVE  \/ Assign(ps, reps, pathsOf) = Unjoined
           \/ \E r \in reps :
                 /\ Assign(ps, reps, pathsOf) = [rep |-> r, relation |-> RelationTo(ps, pathsOf[r])]
                 /\ Pathset(ps) \cap Pathset(pathsOf[r]) # {}
<1> DEFINE Po(r)  == Score(Pathset(ps), Pathset(pathsOf[r]))
           Tri(r) == Score(Trigrams(ps), Trigrams(pathsOf[r]))
           near   == {r \in reps : ~Less(Po(r), SixTenths) /\ ~Less(Tri(r), SixTenths)}
           Before(r, q) == \/ Less(Po(q), Po(r))
                           \/ ~Less(Po(r), Po(q)) /\ Less(Tri(q), Tri(r))
                           \/ ~Less(Po(r), Po(q)) /\ ~Less(Tri(r), Tri(q)) /\ r <= q
           best   == CHOOSE r \in near : \A q \in near : Before(r, q)
           po     == [r \in near |-> Po(r)]
           tri    == [r \in near |-> Tri(r)]
<1>1. Assign(ps, reps, pathsOf) =
         IF near = {} THEN Unjoined ELSE [rep |-> best, relation |-> RelationTo(ps, pathsOf[best])]
  BY DEF Assign
<1>2. SUFFICES ASSUME near # {}
               PROVE  best \in reps /\ Pathset(ps) \cap Pathset(pathsOf[best]) # {}
  BY <1>1
<1>3. near \subseteq reps /\ near \in SUBSET Nat /\ IsFiniteSet(near)
  BY FS_Subset
<1>4. \A r \in near : /\ IsFiniteSet(Pathset(ps)) /\ IsFiniteSet(Trigrams(ps))
                      /\ IsFiniteSet(Pathset(pathsOf[r])) /\ IsFiniteSet(Trigrams(pathsOf[r]))
  BY <1>3, FiniteTrigrams
<1>5. \A r \in near : Po(r) \in Fraction /\ Tri(r) \in Fraction
  <2> SUFFICES ASSUME NEW r \in near PROVE Po(r) \in Fraction /\ Tri(r) \in Fraction
    OBVIOUS
  <2>1. Po(r).n \in Nat /\ Po(r).d \in Nat \ {0}
    BY <1>4, ScoreType
  <2>2. Tri(r).n \in Nat /\ Tri(r).d \in Nat \ {0}
    BY <1>4, ScoreType
  <2> QED
    BY <2>1, <2>2 DEF Score, Fraction
<1>6. po \in [near -> Fraction] /\ tri \in [near -> Fraction]
  BY <1>5
<1>7. \A r, q \in near : Precedes(po, tri, r, q) <=> Before(r, q)
  BY DEF Precedes
<1>8. \E r \in near : \A q \in near : Precedes(po, tri, r, q)
  <2> HIDE DEF near, po, tri
  <2> QED
    BY <1>2, <1>3, <1>6, BestExists
<1>9. best \in near
  <2>1. \E r \in near : \A q \in near : Before(r, q)
    BY <1>7, <1>8
  <2> HIDE DEF near, Before
  <2> QED
    BY <2>1
<1>10. ~Less(Po(best), SixTenths) /\ best \in reps
  BY <1>9
<1> HIDE DEF best
<1>11. Po(best).n \in Nat /\ Po(best).d \in Nat \ {0}
       /\ (Po(best).n # 0 => Pathset(ps) \cap Pathset(pathsOf[best]) # {})
  BY <1>4, <1>9, ScoreType
<1>12. Po(best).n # 0
  <2>1. PICK n \in Nat, d \in Nat \ {0} : n = Po(best).n /\ d = Po(best).d
    BY <1>11
  <2>2. ~(n * 5 < 3 * d)
    BY <1>10, <2>1 DEF Less, SixTenths
  <2> QED
    BY <2>1, <2>2
<1> QED
  BY <1>10, <1>11, <1>12

\* A list without repetitions has as many paths as places.
LEMMA OncePerPlace ==
    ASSUME NEW ps \in Seq(DOMAIN Grams), IsInjective(ps)
    PROVE  Cardinality(Pathset(ps)) = Len(ps)
<1>1. ps \in [1..Len(ps) -> DOMAIN Grams] /\ Len(ps) \in Nat /\ DOMAIN ps = 1..Len(ps)
  OBVIOUS
<1>2. ps \in Bijection(1..Len(ps), Pathset(ps))
  BY <1>1 DEF Bijection, Injection, Surjection, IsInjective, Pathset, Range
<1>3. IsFiniteSet(1..Len(ps)) /\ Cardinality(1..Len(ps)) = Len(ps)
  <2>1. Cardinality(1..Len(ps)) = IF 1 > Len(ps) THEN 0 ELSE Len(ps) - 1 + 1
    BY <1>1, FS_Interval
  <2> QED
    BY <1>1, <2>1, FS_Interval
<1>4. ps \in Surjection(1..Len(ps), Pathset(ps)) /\ ps \in Injection(1..Len(ps), Pathset(ps))
  BY <1>2 DEF Bijection
<1> QED
  BY <1>3, <1>4, FS_Surjection

\* A member that stands down for its cluster is a duplicate: it lists only
\* files of the representative, and all of them if neither lists one twice.
LEMMA DuplicateMeans ==
    ASSUME NEW a \in Seq(DOMAIN Grams), NEW b \in Seq(DOMAIN Grams),
           Pathset(a) \cap Pathset(b) # {}, StandsDown(RelationTo(a, b))
    PROVE  /\ RelationTo(a, b) = "duplicate_of" /\ Pathset(a) \subseteq Pathset(b)
           /\ IsInjective(a) /\ IsInjective(b) => Pathset(a) = Pathset(b)
<1>1. RelationTo(a, b) = "duplicate_of" /\ Pathset(a) \subseteq Pathset(b) /\ Len(a) = Len(b)
  BY DEF StandsDown, RelationTo, SamePathSet
<1>2. ASSUME IsInjective(a), IsInjective(b)
      PROVE  Pathset(a) = Pathset(b)
  <2>1. Cardinality(Pathset(a)) = Len(a) /\ Cardinality(Pathset(b)) = Len(b)
    BY <1>2, OncePerPlace
  <2>2. IsFiniteSet(Pathset(b))
    BY FiniteTrigrams
  <2> QED
    BY <1>1, <2>1, <2>2, FS_Subset
<1> QED
  BY <1>1, <1>2

----------------------------------------------------------------------------
(***************************************************************************)
(* Failure routing and the planner's catalog.                              *)
(***************************************************************************)

\* The first rule wins, and the first rule is the leaked secret: nothing else
\* in the log turns it into a retry, a repair or a deferral.
LEMMA LeakIsRejected ==
    ASSUME NEW log, "secret_or_policy_hit" \in log
    PROVE  /\ Classify(log, NoForensics).class = "security_policy_violation"
           /\ RouteFailure(Classify(log, NoForensics)) = "reject"
<1> DEFINE hits == {i \in DOMAIN Rules : Rules[i].id \in log}
<1>1. hits \in SUBSET Nat /\ 1 \in hits /\ \A i \in hits : i >= 1
  BY DEF Rules
<1>2. Min(hits) = 1
  <2> HIDE DEF hits
  <2>1. Min(hits) \in hits /\ Min(hits) <= 1
    BY <1>1, LeastElement
  <2>2. PICK m \in Nat : m = Min(hits)
    BY <1>1, <2>1
  <2> QED
    BY <1>1, <2>1, <2>2
<1>3. Rules[Min(hits)] = [id |-> "secret_or_policy_hit", class |-> "security_policy_violation", conf |-> 99]
  BY <1>2 DEF Rules
<1>4. Classify(log, NoForensics) =
         [rule |-> "secret_or_policy_hit", class |-> "security_policy_violation", conf |-> 99]
  <2>1. hits # {}
    BY <1>1
  <2>2. PICK r : r = Rules[Min(hits)]
    OBVIOUS
  <2>3. r.id = "secret_or_policy_hit" /\ r.class = "security_policy_violation" /\ r.conf = 99
    BY <1>3, <2>2
  <2>4. Classify(log, NoForensics) =
          LET said == IF r.id = "flaky_signal" THEN FlakeBranch(NoForensics) ELSE r
          IN  [rule |-> r.id, class |-> said.class, conf |-> said.conf]
    BY <2>1, <2>2, Zenon DEF Classify
  <2>5. (IF r.id = "flaky_signal" THEN FlakeBranch(NoForensics) ELSE r) = r
    BY <2>3
  <2> QED
    BY <2>3, <2>4, <2>5
<1> QED
  BY <1>4 DEF RouteFailure

\* Every job of the catalogs counts for the kind it is listed with.
LEMMA KindOfJob ==
    ASSUME NEW j \in AllJobs
    PROVE  EvidenceKindForJob(j.name) = j.kind
<1>1. \A a, b \in AllJobs : a.name = b.name => a.kind = b.kind
  BY DEF AllJobs, Tier0Jobs, Tier1Jobs, Tier2Base, Tier3Jobs, Tier4Jobs, PolicyJobs, Job
<1>2. \E a \in AllJobs : a.name = j.name
  OBVIOUS
<1>3. (CHOOSE a \in AllJobs : a.name = j.name).kind = j.kind
  BY <1>1, <1>2
<1> QED
  BY <1>3 DEF EvidenceKindForJob, JobKindByName

----------------------------------------------------------------------------
(***************************************************************************)
(* The inductive invariant.  A completion's transaction is a pipeline of   *)
(* operators over d, so what it keeps is stated of d; cast, cluster and    *)
(* plan do not change in it.                                               *)
(***************************************************************************)

JobNames == {j.name : j \in AllJobs}
RunStates == {"queued", "succeeded", "failed", "timed_out", "cancelled"}
Row == [state : RunStates, attempt : Nat \ {0}, report : {NoReport} \cup DOMAIN Work]
Tables == UNION {[S -> Row] : S \in SUBSET JobNames}
\* The shape of d.
IsDb(d) ==
    /\ d \in [cand : [Cands -> CandStates], run : [Cands -> Tables], evidence : {d.evidence},
              decisions : {d.decisions}, envelope : {d.envelope}]
    /\ DOMAIN d.evidence = Cands /\ DOMAIN d.decisions = Cands

\* What a row says of its run: the state comes from the last report, and a run
\* that is back in the queue, or was cancelled there, had not succeeded.
RowOK(r) ==
    /\ r.report # NoReport => Completes(Work[r.report])
    /\ r.state = "succeeded" => r.report # NoReport /\ Reported(Work[r.report]).status = "succeeded"
    /\ r.state \in {"queued", "cancelled"} /\ r.report # NoReport =>
          Reported(Work[r.report]).status # "succeeded"
Outcomes(d, c) == \A j \in DOMAIN d.run[c] : RowOK(d.run[c][j])

\* Accepted evidence stands for a run that really passed ...
Backed(d, c) ==
    \A e \in d.evidence[c] :
        /\ e.run \in DOMAIN d.run[c] /\ e.kind = EvidenceKindForJob(e.run)
        /\ d.run[c][e.run].state = "succeeded" /\ ReallyPassed(Work[d.run[c][e.run].report])

\* ... and every run of a required kind that really passed is counted.
CountsFor(d, c, j) ==
    /\ d.run[c][j].state = "succeeded" /\ EvidenceKindForJob(j) \in plan[c].required
    /\ ReallyPassed(Work[d.run[c][j].report])
    => EvidenceKindForJob(j) \in Kinds(d, c)
Counted(d, c) == \A j \in DOMAIN d.run[c] : CountsFor(d, c, j)

\* A leak ends its candidate.
Leaks(r) == /\ r.report # NoReport /\ Reported(Work[r.report]).status # "succeeded"
            /\ "secret_or_policy_hit" \in Redact(Reported(Work[r.report]).log)
LeakFree(d, c) == (\E j \in DOMAIN d.run[c] : Leaks(d.run[c][j])) => d.cand[c] = "rejected"

\* An undecided candidate lacks evidence, or has a required run that failed.
Undecided(d, c) ==
    d.cand[c] = "validating" /\ d.decisions[c] = {} =>
        ~Sufficient(plan[c].required, Kinds(d, c)) \/ FailedRequired(d, c) # {}

\* Who is superseded has stood down for an eligible member of its cluster.
StoodDown(d, c) ==
    d.cand[c] = "superseded" =>
        /\ \E w \in Cands : cluster[w].rep = cluster[c].rep /\ d.cand[w] = "eligible"
        /\ StandsDown(cluster[c].relation)
        /\ \A j \in DOMAIN d.run[c] : d.run[c][j].state # "queued"

CandOK(d, c) ==
    /\ Outcomes(d, c) /\ Backed(d, c) /\ Counted(d, c) /\ LeakFree(d, c)
    /\ d.cand[c] = "absent" => DOMAIN d.run[c] = {} /\ d.evidence[c] = {} /\ d.decisions[c] = {}
    /\ d.cand[c] = "eligible" => Sufficient(plan[c].required, Kinds(d, c))
DbOK(d) == IsDb(d) /\ \A c \in Cands : CandOK(d, c) /\ StoodDown(d, c)

\* Where a candidate may be put.
Placed(c, a) ==
    \/ a = Unjoined
    \/ a = [rep |-> c, relation |-> "none"]
    \/ /\ a.rep \in Cands /\ a.relation = RelationTo(cast[c].paths, cast[a.rep].paths)
       /\ Pathset(cast[c].paths) \cap Pathset(cast[a.rep].paths) # {}

AssuranceInv ==
    /\ cast \in Casts /\ DbOK(Db)
    /\ draft = [c \in Cands |-> draft[c]] /\ cluster = [c \in Cands |-> cluster[c]]
    /\ plan = [c \in Cands |-> plan[c]]
    /\ \A c \in Cands : Placed(c, draft[c]) /\ Placed(c, cluster[c])

\* A table maps job names of the catalogs to rows.
LEMMA TableMeans ==
    /\ \A t \in Tables : /\ t \in [DOMAIN t -> Row] /\ DOMAIN t \subseteq JobNames
                         /\ \A j \in DOMAIN t : t[j] \in Row
    /\ \A S \in SUBSET JobNames : \A t \in [S -> Row] : t \in Tables
BY DEF Tables

\* d and e agree on candidate m.
Alike(d, e, m) ==
    /\ e.cand[m] = d.cand[m] /\ e.run[m] = d.run[m]
    /\ e.evidence[m] = d.evidence[m] /\ e.decisions[m] = d.decisions[m]

\* What holds of a candidate in d holds of it in an e that agrees.
LEMMA AlikeKeeps ==
    ASSUME NEW d, NEW e, NEW m, Alike(d, e, m)
    PROVE  /\ CandOK(d, m) => CandOK(e, m)
           /\ Undecided(d, m) => Undecided(e, m)
           /\ Kinds(e, m) = Kinds(d, m) /\ FailedRequired(e, m) = FailedRequired(d, m)
<1>1. /\ e.cand[m] = d.cand[m] /\ e.run[m] = d.run[m]
      /\ e.evidence[m] = d.evidence[m] /\ e.decisions[m] = d.decisions[m]
  BY DEF Alike
<1>2. Kinds(e, m) = Kinds(d, m) /\ FailedRequired(e, m) = FailedRequired(d, m)
  BY <1>1 DEF Kinds, FailedRequired
<1>3. Undecided(d, m) => Undecided(e, m)
  BY <1>1, <1>2 DEF Undecided
<1>4. /\ Outcomes(d, m) => Outcomes(e, m)
      /\ Backed(d, m) => Backed(e, m)
      /\ LeakFree(d, m) => LeakFree(e, m)
  BY <1>1 DEF Outcomes, Backed, LeakFree
<1>5. Counted(d, m) => Counted(e, m)
  BY <1>1, <1>2 DEF Counted, CountsFor
<1> QED
  BY <1>1, <1>2, <1>3, <1>4, <1>5 DEF CandOK

\* A transaction that changes one open candidate, and does not stand it down,
\* owes nothing to the others: an eligible one stays eligible.
LEMMA OneCandidate ==
    ASSUME NEW d, DbOK(d), NEW e, IsDb(e), NEW c \in Cands, ~Terminal(d.cand[c]),
           \A m \in Cands \ {c} : Alike(d, e, m), CandOK(e, c), e.cand[c] # "superseded"
    PROVE  DbOK(e) /\ \A m \in Cands \ {c} : Undecided(d, m) => Undecided(e, m)
<1>1. \A m \in Cands \ {c} : CandOK(e, m) /\ (Undecided(d, m) => Undecided(e, m))
  BY AlikeKeeps DEF DbOK
<1>2. \A m \in Cands : StoodDown(e, m)
  <2> SUFFICES ASSUME NEW m \in Cands, e.cand[m] = "superseded" PROVE StoodDown(e, m)
    BY DEF StoodDown
  <2>1. m # c /\ e.run[m] = d.run[m] /\ d.cand[m] = "superseded"
    BY DEF Alike
  <2>2. StoodDown(d, m)
    BY DEF DbOK
  <2>3. PICK w \in Cands : cluster[w].rep = cluster[m].rep /\ d.cand[w] = "eligible"
    BY <2>1, <2>2 DEF StoodDown
  <2>4. e.cand[w] = "eligible"
    BY <2>3 DEF Terminal, Alike
  <2> QED
    BY <2>1, <2>2, <2>3, <2>4 DEF StoodDown
<1> QED
  BY <1>1, <1>2 DEF DbOK

\* e is d with r for the row of run j of candidate c.
Rewrites(d, e, c, j, r) ==
    /\ IsDb(e) /\ e.cand = d.cand /\ e.evidence = d.evidence /\ e.decisions = d.decisions
    /\ \A m \in Cands \ {c} : e.run[m] = d.run[m]
    /\ DOMAIN e.run[c] = DOMAIN d.run[c] /\ e.run[c][j] = r
    /\ \A i \in DOMAIN d.run[c] \ {j} : e.run[c][i] = d.run[c][i]

\* Writing one row keeps the shape.
LEMMA RowWritten ==
    ASSUME NEW d, IsDb(d), NEW c \in Cands, NEW j \in DOMAIN d.run[c], NEW r \in Row
    PROVE  Rewrites(d, [d EXCEPT !.run[c][j] = r], c, j, r)
<1> DEFINE t == [d.run[c] EXCEPT ![j] = r]
           all == [d.run EXCEPT ![c] = t]
           e == [d EXCEPT !.run = all]
<1>1. d.run \in [Cands -> Tables] /\ d.run[c] \in Tables
  BY DEF IsDb
<1>2. /\ d.run[c] \in [DOMAIN d.run[c] -> Row] /\ DOMAIN d.run[c] \in SUBSET JobNames
  BY <1>1, TableMeans
<1>3. t \in [DOMAIN d.run[c] -> Row] /\ t[j] = r /\ DOMAIN t = DOMAIN d.run[c]
      /\ \A i \in DOMAIN d.run[c] \ {j} : t[i] = d.run[c][i]
  BY <1>2
<1>4. t \in Tables
  BY <1>2, <1>3, TableMeans
<1>5. all \in [Cands -> Tables] /\ all[c] = t /\ \A m \in Cands \ {c} : all[m] = d.run[m]
  BY <1>1, <1>4
<1>6. [d EXCEPT !.run[c][j] = r] = e
  OBVIOUS
<1> HIDE DEF t, all
<1>7. IsDb(e) /\ e.cand = d.cand /\ e.evidence = d.evidence /\ e.decisions = d.decisions /\ e.run = all
  BY <1>5 DEF IsDb
<1> QED
  BY <1>3, <1>5, <1>6, <1>7 DEF Rewrites

\* Rewriting a row twice is rewriting it once.
LEMMA RowRewritten ==
    ASSUME NEW d, NEW e, NEW f, NEW c, NEW j, NEW r, NEW s,
           Rewrites(d, e, c, j, r), Rewrites(e, f, c, j, s)
    PROVE  Rewrites(d, f, c, j, s)
BY DEF Rewrites

\* A report is written into the row of its run ...
LEMMA ReportWritten ==
    ASSUME NEW d, IsDb(d), NEW c \in Cands, NEW j \in DOMAIN d.run[c], NEW st \in RunStates,
           NEW name \in DOMAIN Work
    PROVE  Rewrites(d, [d EXCEPT !.run[c][j].state = st, !.run[c][j].report = name], c, j,
                    [state |-> st, attempt |-> d.run[c][j].attempt, report |-> name])
<1>1. d.run[c][j] \in Row
  BY TableMeans DEF IsDb
<1>2. PICK s \in RunStates, n \in Nat \ {0}, p \in {NoReport} \cup DOMAIN Work :
         d.run[c][j] = [state |-> s, attempt |-> n, report |-> p]
  BY <1>1 DEF Row
<1> DEFINE r1 == [state |-> st, attempt |-> n, report |-> p]
           r2 == [state |-> st, attempt |-> n, report |-> name]
           e  == [d EXCEPT !.run[c][j].state = st]
<1>3. r1 \in Row /\ r2 \in Row
  BY DEF Row
<1>4. [d.run[c][j] EXCEPT !.state = st] = r1
  BY <1>2
<1>5. Rewrites(d, e, c, j, r1)
  <2>1. e = [d EXCEPT !.run[c][j] = r1]
    BY <1>4
  <2> HIDE DEF e, r1
  <2> QED
    BY <1>3, <2>1, RowWritten
<1>6. IsDb(e) /\ j \in DOMAIN e.run[c] /\ [e.run[c][j] EXCEPT !.report = name] = r2
  <2> HIDE DEF e
  <2>1. IsDb(e) /\ DOMAIN e.run[c] = DOMAIN d.run[c] /\ e.run[c][j] = r1
    BY <1>5 DEF Rewrites
  <2> QED
    BY <2>1
<1>7. Rewrites(e, [e EXCEPT !.run[c][j].report = name], c, j, r2)
  <2> HIDE DEF e, r2
  <2>1. [e EXCEPT !.run[c][j].report = name] = [e EXCEPT !.run[c][j] = r2]
    BY <1>6
  <2> QED
    BY <1>3, <1>6, <2>1, RowWritten
<1>8. Rewrites(d, [e EXCEPT !.run[c][j].report = name], c, j, r2)
  <2> HIDE DEF e, r1, r2
  <2> QED
    BY <1>5, <1>7, RowRewritten
<1>9. r2 = [state |-> st, attempt |-> d.run[c][j].attempt, report |-> name]
  BY <1>2
<1> QED
  BY <1>8, <1>9

\* ... and a retry puts the run back in the queue.
LEMMA RetryWritten ==
    ASSUME NEW d, IsDb(d), NEW c \in Cands, NEW j \in DOMAIN d.run[c]
    PROVE  Rewrites(d, [d EXCEPT !.run[c][j].state = "queued", !.run[c][j].attempt = @ + 1], c, j,
                    [state |-> "queued", attempt |-> d.run[c][j].attempt + 1,
                     report |-> d.run[c][j].report])
<1>1. d.run[c][j] \in Row
  BY TableMeans DEF IsDb
<1>2. PICK s \in RunStates, n \in Nat \ {0}, p \in {NoReport} \cup DOMAIN Work :
         d.run[c][j] = [state |-> s, attempt |-> n, report |-> p]
  BY <1>1 DEF Row
<1> DEFINE r1 == [state |-> "queued", attempt |-> n, report |-> p]
           r2 == [state |-> "queued", attempt |-> n + 1, report |-> p]
           e  == [d EXCEPT !.run[c][j].state = "queued"]
<1>3. r1 \in Row /\ r2 \in Row
  BY DEF Row, RunStates
<1>4. [d.run[c][j] EXCEPT !.state = "queued"] = r1
  BY <1>2
<1>5. Rewrites(d, e, c, j, r1)
  <2>1. e = [d EXCEPT !.run[c][j] = r1]
    BY <1>4
  <2> HIDE DEF e, r1
  <2> QED
    BY <1>3, <2>1, RowWritten
<1>6. /\ IsDb(e) /\ j \in DOMAIN e.run[c]
      /\ [e.run[c][j] EXCEPT !.attempt = e.run[c][j].attempt + 1] = r2
  <2> HIDE DEF e
  <2>1. IsDb(e) /\ DOMAIN e.run[c] = DOMAIN d.run[c] /\ e.run[c][j] = r1
    BY <1>5 DEF Rewrites
  <2> QED
    BY <2>1
<1>7. Rewrites(e, [e EXCEPT !.run[c][j].attempt = @ + 1], c, j, r2)
  <2> HIDE DEF e, r2
  <2>1. [e EXCEPT !.run[c][j].attempt = @ + 1] = [e EXCEPT !.run[c][j] = r2]
    BY <1>6
  <2> QED
    BY <1>3, <1>6, <2>1, RowWritten
<1>8. Rewrites(d, [e EXCEPT !.run[c][j].attempt = @ + 1], c, j, r2)
  <2> HIDE DEF e, r1, r2
  <2> QED
    BY <1>5, <1>7, RowRewritten
<1>9. r2 = [state |-> "queued", attempt |-> d.run[c][j].attempt + 1, report |-> d.run[c][j].report]
  BY <1>2
<1> QED
  BY <1>8, <1>9

\* A new row for a queued run, whatever it says of the run, leaves the
\* evidence and the other runs as they were.
LEMMA RowReplaced ==
    ASSUME NEW d, NEW c, CandOK(d, c), NEW j \in DOMAIN d.run[c], d.run[c][j].state = "queued",
           NEW r, RowOK(r), NEW e, Rewrites(d, e, c, j, r)
    PROVE  /\ Outcomes(e, c) /\ Backed(e, c) /\ Kinds(e, c) = Kinds(d, c)
           /\ ~Leaks(r) => LeakFree(e, c)
           /\ \A i \in DOMAIN e.run[c] \ {j} : CountsFor(e, c, i)
           /\ r.state # "succeeded" => Counted(e, c)
<1>1. /\ e.cand = d.cand /\ e.evidence = d.evidence /\ DOMAIN e.run[c] = DOMAIN d.run[c]
      /\ e.run[c][j] = r /\ \A i \in DOMAIN d.run[c] \ {j} : e.run[c][i] = d.run[c][i]
  BY DEF Rewrites
<1>2. Outcomes(d, c) /\ Backed(d, c) /\ Counted(d, c) /\ LeakFree(d, c)
  BY DEF CandOK
<1>3. Kinds(e, c) = Kinds(d, c)
  BY <1>1 DEF Kinds
<1>4. Outcomes(e, c)
  BY <1>1, <1>2 DEF Outcomes
<1>5. Backed(e, c)
  <2> SUFFICES ASSUME NEW v \in e.evidence[c]
               PROVE  /\ v.run \in DOMAIN e.run[c] /\ v.kind = EvidenceKindForJob(v.run)
                      /\ e.run[c][v.run].state = "succeeded"
                      /\ ReallyPassed(Work[e.run[c][v.run].report])
    BY DEF Backed
  <2>1. /\ v.run \in DOMAIN d.run[c] /\ v.kind = EvidenceKindForJob(v.run)
        /\ d.run[c][v.run].state = "succeeded" /\ ReallyPassed(Work[d.run[c][v.run].report])
    BY <1>1, <1>2 DEF Backed
  <2>2. v.run # j
    BY <2>1
  <2> QED
    BY <1>1, <2>1, <2>2
<1>6. ASSUME ~Leaks(r) PROVE LeakFree(e, c)
  BY <1>1, <1>2, <1>6 DEF LeakFree
<1>7. \A i \in DOMAIN e.run[c] \ {j} : CountsFor(e, c, i)
  BY <1>1, <1>2, <1>3 DEF Counted, CountsFor
<1>8. r.state # "succeeded" => Counted(e, c)
  BY <1>1, <1>7 DEF Counted, CountsFor
<1> QED
  BY <1>3, <1>4, <1>5, <1>6, <1>7, <1>8

\* MarkCandidateStateTx touches the state of its candidate alone ...
LEMMA Marked ==
    ASSUME NEW d, IsDb(d), NEW c \in Cands, NEW st \in CandStates, NEW from
    PROVE  LET e == Mark(d, c, st, from)
           IN  /\ IsDb(e) /\ e.run = d.run /\ e.evidence = d.evidence /\ e.decisions = d.decisions
               /\ e.cand[c] = IF d.cand[c] \in from THEN st ELSE d.cand[c]
               /\ \A m \in Cands \ {c} : Alike(d, e, m)
<1> DEFINE e == [d EXCEPT !.cand[c] = st]
<1>1. /\ IsDb(e) /\ e.run = d.run /\ e.evidence = d.evidence /\ e.decisions = d.decisions
      /\ e.cand[c] = st /\ \A m \in Cands \ {c} : e.cand[m] = d.cand[m]
  BY DEF IsDb
<1>2. Mark(d, c, st, from) = IF d.cand[c] \in from THEN e ELSE d
  BY DEF Mark
<1> HIDE DEF e
<1>3. CASE d.cand[c] \in from
  BY <1>1, <1>2, <1>3 DEF Alike
<1>4. CASE d.cand[c] \notin from
  BY <1>2, <1>4 DEF Alike
<1> QED
  BY <1>3, <1>4

\* ... and a verdict adds to the verdicts on its candidate.
LEMMA VerdictSaid ==
    ASSUME NEW d, IsDb(d), NEW c \in Cands, NEW verb
    PROVE  LET e == [d EXCEPT !.decisions[c] = @ \cup {verb}]
           IN  /\ IsDb(e) /\ e.cand = d.cand /\ e.run = d.run /\ e.evidence = d.evidence
               /\ e.decisions[c] # {} /\ \A m \in Cands \ {c} : Alike(d, e, m)
<1> DEFINE e == [d EXCEPT !.decisions[c] = @ \cup {verb}]
<1>1. /\ IsDb(e) /\ e.cand = d.cand /\ e.run = d.run /\ e.evidence = d.evidence
      /\ e.decisions = [d.decisions EXCEPT ![c] = @ \cup {verb}]
  BY DEF IsDb
<1>2. DOMAIN d.decisions = Cands
  BY DEF IsDb
<1>3. e.decisions[c] = d.decisions[c] \cup {verb} /\ \A m \in Cands \ {c} : e.decisions[m] = d.decisions[m]
  BY <1>1, <1>2
<1> HIDE DEF e
<1> QED
  BY <1>1, <1>3 DEF Alike, e

\* Cancelling the queued runs of a candidate.
LEMMA RunsCancelled ==
    ASSUME NEW d, IsDb(d), NEW m \in Cands
    PROVE  LET t == CancelRuns(d, m).run[m]
           IN  /\ t \in Tables /\ DOMAIN t = DOMAIN d.run[m]
               /\ \A j \in DOMAIN t :
                     /\ d.run[m][j].state # "queued" => t[j] = d.run[m][j]
                     /\ d.run[m][j].state = "queued" => t[j].state = "cancelled"
                     /\ t[j].state # "queued" /\ t[j].report = d.run[m][j].report
<1> DEFINE was == d.run[m]
           t == [j \in DOMAIN was |-> IF was[j].state = "queued"
                                      THEN [was[j] EXCEPT !.state = "cancelled"] ELSE was[j]]
<1>1. d.run \in [Cands -> Tables] /\ was \in Tables
  BY DEF IsDb
<1>2. \A j \in DOMAIN was : was[j] \in Row /\ DOMAIN was \in SUBSET JobNames
  BY <1>1, TableMeans
<1>3. \A r \in Row : LET s == [r EXCEPT !.state = "cancelled"]
                     IN  s \in Row /\ s.state = "cancelled" /\ s.report = r.report
  BY DEF Row, RunStates
<1>4. CancelRuns(d, m).run[m] = t
  BY <1>1 DEF CancelRuns, IsDb
<1>5. \A j \in DOMAIN was : t[j] = IF was[j].state = "queued"
                                   THEN [was[j] EXCEPT !.state = "cancelled"] ELSE was[j]
  OBVIOUS
<1>6. DOMAIN t = DOMAIN was /\ t \in [DOMAIN was -> Row]
  BY <1>2, <1>3
<1>7. DOMAIN was \in SUBSET JobNames
  BY <1>1, TableMeans
<1>8. t \in Tables
  <2> HIDE DEF was, t
  <2> QED
    BY <1>6, <1>7, TableMeans
<1>9. \A j \in DOMAIN t :
         /\ was[j].state # "queued" => t[j] = was[j]
         /\ was[j].state = "queued" => t[j].state = "cancelled"
         /\ t[j].state # "queued" /\ t[j].report = was[j].report
  <2> SUFFICES ASSUME NEW j \in DOMAIN was
               PROVE  /\ was[j].state # "queued" => t[j] = was[j]
                      /\ was[j].state = "queued" => t[j].state = "cancelled"
                      /\ t[j].state # "queued" /\ t[j].report = was[j].report
    BY <1>6
  <2>1. was[j] \in Row
    BY <1>2
  <2>2. CASE was[j].state = "queued"
    BY <1>3, <1>5, <2>1, <2>2
  <2>3. CASE was[j].state # "queued"
    BY <1>5, <2>3
  <2> QED
    BY <2>2, <2>3
<1> QED
  BY <1>4, <1>6, <1>8, <1>9

\* propagateSupersession, field by field.
LEMMA Superseded ==
    ASSUME NEW d, IsDb(d), NEW c \in Cands
    PROVE  LET e == PropagateSupersession(d, c)
           IN  /\ IsDb(e) /\ e.evidence = d.evidence /\ e.decisions = d.decisions
               /\ \A m \in Cands \ Losers(c) : Alike(d, e, m)
               /\ \A m \in Losers(c) :
                     /\ e.cand[m] = IF Terminal(d.cand[m]) THEN d.cand[m] ELSE "superseded"
                     /\ e.run[m] = CancelRuns(d, m).run[m]
<1> DEFINE open == {m \in Losers(c) : ~Terminal(d.cand[m])}
           states == [m \in Cands |-> IF m \in open THEN "superseded" ELSE d.cand[m]]
           tables == [m \in Cands |-> IF m \in Losers(c) THEN CancelRuns(d, m).run[m] ELSE d.run[m]]
           e == [d EXCEPT !.cand = states, !.run = tables]
<1>1. d.cand \in [Cands -> CandStates] /\ d.run \in [Cands -> Tables] /\ Losers(c) \subseteq Cands
  BY DEF IsDb, Losers
<1>2. states \in [Cands -> CandStates]
  BY <1>1 DEF CandStates
<1>3. tables \in [Cands -> Tables]
  BY <1>1, RunsCancelled
<1>4. /\ \A m \in Cands \ Losers(c) : states[m] = d.cand[m] /\ tables[m] = d.run[m]
      /\ \A m \in Losers(c) : /\ states[m] = IF Terminal(d.cand[m]) THEN d.cand[m] ELSE "superseded"
                              /\ tables[m] = CancelRuns(d, m).run[m]
  BY <1>1
<1>5. PropagateSupersession(d, c) = e
  BY DEF PropagateSupersession
<1> HIDE DEF states, tables
<1>6. IsDb(e) /\ e.evidence = d.evidence /\ e.decisions = d.decisions /\ e.cand = states /\ e.run = tables
  BY <1>2, <1>3 DEF IsDb
<1> HIDE DEF e
<1>7. \A m \in Cands \ Losers(c) : Alike(d, e, m)
  BY <1>4, <1>6 DEF Alike
<1>8. \A m \in Losers(c) : /\ e.cand[m] = IF Terminal(d.cand[m]) THEN d.cand[m] ELSE "superseded"
                           /\ e.run[m] = CancelRuns(d, m).run[m]
  BY <1>4, <1>6
<1> QED
  BY <1>5, <1>6, <1>7, <1>8

\* Who loses keeps what its runs have shown.
LEMMA LoserKept ==
    ASSUME NEW d, IsDb(d), NEW m \in Cands, CandOK(d, m), NEW e,
           e.evidence[m] = d.evidence[m], e.run[m] = CancelRuns(d, m).run[m],
           e.cand[m] = IF Terminal(d.cand[m]) THEN d.cand[m] ELSE "superseded"
    PROVE  CandOK(e, m) /\ Undecided(e, m)
<1>1. /\ DOMAIN e.run[m] = DOMAIN d.run[m]
      /\ \A j \in DOMAIN d.run[m] :
            /\ d.run[m][j].state # "queued" => e.run[m][j] = d.run[m][j]
            /\ d.run[m][j].state = "queued" => e.run[m][j].state = "cancelled"
            /\ e.run[m][j].state # "queued" /\ e.run[m][j].report = d.run[m][j].report
  BY RunsCancelled
<1>2. Outcomes(d, m) /\ Backed(d, m) /\ Counted(d, m) /\ LeakFree(d, m)
  BY DEF CandOK
<1>3. Kinds(e, m) = Kinds(d, m)
  BY DEF Kinds
<1>4. Outcomes(e, m)
  BY <1>1, <1>2 DEF Outcomes, RowOK
<1>5. Backed(e, m)
  BY <1>1, <1>2 DEF Backed
<1>6. Counted(e, m)
  BY <1>1, <1>2, <1>3 DEF Counted, CountsFor
<1>7. LeakFree(e, m)
  BY <1>1, <1>2 DEF LeakFree, Leaks, Terminal
<1>8. /\ e.cand[m] # "absent" /\ e.cand[m] # "validating"
      /\ e.cand[m] = "eligible" => d.cand[m] = "eligible"
  BY DEF Terminal
<1>9. e.cand[m] = "eligible" => Sufficient(plan[m].required, Kinds(e, m))
  BY <1>3, <1>8 DEF CandOK
<1> QED
  BY <1>4, <1>5, <1>6, <1>7, <1>8, <1>9 DEF CandOK, Undecided

\* Standing a cluster down for an eligible member keeps the invariant.
LEMMA SupersessionKeeps ==
    ASSUME NEW d, DbOK(d), NEW c \in Cands, d.cand[c] = "eligible"
    PROVE  LET e == PropagateSupersession(d, c)
           IN  DbOK(e) /\ \A m \in Cands : Undecided(d, m) => Undecided(e, m)
<1> DEFINE e == PropagateSupersession(d, c)
<1>1. /\ IsDb(e) /\ e.evidence = d.evidence /\ e.decisions = d.decisions
      /\ \A m \in Cands \ Losers(c) : Alike(d, e, m)
      /\ \A m \in Losers(c) : /\ e.cand[m] = IF Terminal(d.cand[m]) THEN d.cand[m] ELSE "superseded"
                              /\ e.run[m] = CancelRuns(d, m).run[m]
  BY Superseded DEF DbOK
<1> HIDE DEF e
<1>2. \A m \in Cands \ Losers(c) : CandOK(e, m) /\ (Undecided(d, m) => Undecided(e, m))
  BY <1>1, AlikeKeeps DEF DbOK
<1>3. \A m \in Losers(c) : m \in Cands /\ CandOK(e, m) /\ Undecided(e, m)
  BY <1>1, LoserKept DEF DbOK, Losers
<1>4. \A m \in Cands : d.cand[m] = "eligible" => e.cand[m] = "eligible"
  BY <1>1 DEF Alike, Terminal
<1>5. \A m \in Cands : StoodDown(e, m)
  <2> SUFFICES ASSUME NEW m \in Cands, e.cand[m] = "superseded"
               PROVE  /\ \E w \in Cands : cluster[w].rep = cluster[m].rep /\ e.cand[w] = "eligible"
                      /\ StandsDown(cluster[m].relation)
                      /\ \A j \in DOMAIN e.run[m] : e.run[m][j].state # "queued"
    BY DEF StoodDown
  <2>1. CASE m \in Losers(c)
    <3>1. cluster[c].rep = cluster[m].rep /\ StandsDown(cluster[m].relation)
      BY <2>1 DEF Losers
    <3>2. \A j \in DOMAIN e.run[m] : e.run[m][j].state # "queued"
      BY <1>1, <2>1, RunsCancelled DEF DbOK
    <3> QED
      BY <1>4, <3>1, <3>2
  <2>2. CASE m \notin Losers(c)
    <3>1. d.cand[m] = "superseded" /\ e.run[m] = d.run[m] /\ StoodDown(d, m)
      BY <1>1, <2>2 DEF Alike, DbOK
    <3> QED
      BY <1>4, <3>1 DEF StoodDown
  <2> QED
    BY <2>1, <2>2
<1> QED
  BY <1>1, <1>2, <1>3, <1>5 DEF DbOK, e

\* maybeRenderEligible keeps the invariant, and leaves its candidate decided
\* or short of something.
LEMMA MaybeKeeps ==
    ASSUME NEW d, DbOK(d), NEW c \in Cands, d.cand[c] \in {"validating", "repairing"}
    PROVE  LET e == MaybeRenderEligible(d, c)
           IN  DbOK(e) /\ Undecided(e, c) /\ \A m \in Cands \ {c} : Undecided(d, m) => Undecided(e, m)
<1> DEFINE holds == /\ d.decisions[c] = {} /\ FailedRequired(d, c) = {}
                    /\ ~Terminal(d.cand[c]) /\ d.cand[c] # "repairing"
                    /\ Sufficient(plan[c].required, Kinds(d, c))
<1>1. MaybeRenderEligible(d, c) = IF holds THEN RenderDecision(d, c, "eligible") ELSE d
  BY DEF MaybeRenderEligible
<1>2. ~Terminal(d.cand[c])
  BY DEF Terminal
<1>3. CASE ~holds
  <2>1. Undecided(d, c)
    BY <1>2, <1>3 DEF Undecided
  <2> QED
    BY <1>1, <1>3, <2>1
<1>4. CASE holds
  <2> DEFINE said == [d EXCEPT !.decisions[c] = @ \cup {"eligible"}]
             won == Mark(said, c, "eligible", {"validating", "repairing"})
  <2>1. RenderDecision(d, c, "eligible") = PropagateSupersession(won, c)
    BY DEF RenderDecision
  <2>2. /\ IsDb(said) /\ said.cand = d.cand /\ said.run = d.run /\ said.evidence = d.evidence
        /\ \A m \in Cands \ {c} : Alike(d, said, m)
    BY VerdictSaid DEF DbOK
  <2> HIDE DEF said
  <2>3. "eligible" \in CandStates
    BY DEF CandStates
  <2>4. /\ IsDb(won) /\ won.run = said.run /\ won.evidence = said.evidence /\ won.cand[c] = "eligible"
        /\ \A m \in Cands \ {c} : Alike(said, won, m)
    BY <2>2, <2>3, Marked
  <2> HIDE DEF won
  <2>5. \A m \in Cands \ {c} : Alike(d, won, m)
    BY <2>2, <2>4 DEF Alike
  <2>6. won.run = d.run /\ won.evidence = d.evidence
    BY <2>2, <2>4
  <2>7. CandOK(won, c)
    <3>1. CandOK(d, c)
      BY DEF DbOK
    <3>2. Kinds(won, c) = Kinds(d, c)
      BY <2>6 DEF Kinds
    <3>3. LeakFree(won, c)
      BY <2>6, <3>1 DEF CandOK, LeakFree
    <3>4. Outcomes(won, c) /\ Backed(won, c)
      BY <2>6, <3>1 DEF CandOK, Outcomes, Backed
    <3>5. Counted(won, c)
      BY <2>6, <3>1, <3>2 DEF CandOK, Counted, CountsFor
    <3> QED
      BY <1>4, <2>4, <3>2, <3>3, <3>4, <3>5 DEF CandOK
  <2>8. DbOK(won) /\ \A m \in Cands \ {c} : Undecided(d, m) => Undecided(won, m)
    BY <1>2, <2>4, <2>5, <2>7, OneCandidate
  <2>9. Undecided(won, c)
    BY <2>4 DEF Undecided
  <2> QED
    BY <1>1, <1>4, <2>1, <2>4, <2>8, <2>9, SupersessionKeeps
<1> QED
  BY <1>3, <1>4

\* What the invariant asks of a completion that turns d into e.
Keeps(d, e) == DbOK(e) /\ \A m \in Cands : Undecided(d, m) => Undecided(e, m)

\* onRunSucceeded: a report that counts becomes evidence, and one that does
\* not is no run that passed.
LEMMA SuccessKeeps ==
    ASSUME NEW d, DbOK(d), NEW c \in Cands, d.cand[c] \in {"validating", "repairing"},
           NEW j \in DOMAIN d.run[c], d.run[c][j].state = "queued",
           NEW name \in DOMAIN Work, Completes(Work[name]), Reported(Work[name]).status = "succeeded",
           NEW done, Rewrites(d, done, c, j, [state |-> "succeeded", attempt |-> d.run[c][j].attempt,
                                              report |-> name])
    PROVE  Keeps(d, OnRunSucceeded(done, c, j, Reported(Work[name])))
<1> DEFINE x == Reported(Work[name])
           att == d.run[c][j].attempt
           r == [state |-> "succeeded", attempt |-> att, report |-> name]
           kind == EvidenceKindForJob(j)
           tries == {e.attempt : e \in {e \in done.evidence[c] : e.run = j}}
           ruling == EvidenceEvaluate(j, att, x.census, x.digestsOK, EvidenceContext(j, att, tries))
           record == [run |-> j, attempt |-> att, kind |-> kind]
           counts == kind \in plan[c].required /\ ruling = "accept"
           d1 == IF counts THEN [done EXCEPT !.evidence[c] = @ \cup {record}] ELSE done
<1>1. /\ IsDb(done) /\ done.cand = d.cand /\ done.evidence = d.evidence
      /\ done.decisions = d.decisions /\ \A m \in Cands \ {c} : done.run[m] = d.run[m]
      /\ DOMAIN done.run[c] = DOMAIN d.run[c] /\ done.run[c][j] = r
  BY DEF Rewrites
<1>2. OnRunSucceeded(done, c, j, x) = MaybeRenderEligible(d1, c)
  <2>1. done.run[c][j].attempt = att
    BY <1>1
  <2> QED
    BY <2>1 DEF OnRunSucceeded
<1>3. CandOK(d, c) /\ IsDb(d)
  BY DEF DbOK
<1>4. /\ j \in JobNames /\ att \in Nat \ {0} /\ name # NoReport /\ IsWork(Work[name])
  <2>1. d.run[c] \in Tables
    BY <1>3 DEF IsDb
  <2>2. j \in JobNames /\ d.run[c][j] \in Row
    BY <2>1, TableMeans
  <2> QED
    BY <2>2, WorkTyped DEF Row
<1>5. RowOK(r) /\ ~Leaks(r)
  BY <1>4 DEF RowOK, Leaks
<1>6. /\ Outcomes(done, c) /\ Backed(done, c) /\ LeakFree(done, c)
      /\ \A i \in DOMAIN done.run[c] \ {j} : CountsFor(done, c, i)
  <2> HIDE DEF r
  <2>1. Rewrites(d, done, c, j, r)
    BY DEF r
  <2> QED
    BY <1>3, <1>5, <2>1, RowReplaced
<1>7. ruling = "accept" => ReallyPassed(Work[name])
  <2>1. ruling = "accept" => x.census.passed > 0 /\ ~(x.census.failed > 0)
    BY AcceptedCounts
  <2> QED
    BY <1>4, <2>1, CountedIsReal
<1>8. ReallyPassed(Work[name]) => ruling = "accept"
  <2> SUFFICES ASSUME ReallyPassed(Work[name]) PROVE ruling = "accept"
    OBVIOUS
  <2>1. CleanCensus(x.census) /\ x.digestsOK = TRUE
    BY <1>4, RealIsReported
  <2>2. j # "-"
    BY <1>4 DEF JobNames, AllJobs, Tier0Jobs, Tier1Jobs, Tier2Base, Tier3Jobs, Tier4Jobs, PolicyJobs, Job
  <2> HIDE DEF x, att, tries
  <2>3. EvidenceEvaluate(j, att, x.census, TRUE, EvidenceContext(j, att, tries)) = "accept"
    BY <1>4, <2>1, <2>2, CleanAccepted
  <2> QED
    BY <2>1, <2>3
<1> HIDE DEF ruling
<1>9. /\ IsDb(d1) /\ d1.cand = d.cand /\ d1.run = done.run /\ d1.decisions = d.decisions
      /\ \A m \in Cands \ {c} : d1.evidence[m] = d.evidence[m]
      /\ d1.evidence[c] = IF counts THEN d.evidence[c] \cup {record} ELSE d.evidence[c]
  <2> HIDE DEF counts, record
  <2> QED
    BY <1>1 DEF IsDb
<1> HIDE DEF d1, r
<1>10. Kinds(d1, c) = IF counts THEN Kinds(done, c) \cup {kind} ELSE Kinds(done, c)
  <2>1. record.kind = kind
    OBVIOUS
  <2> HIDE DEF record, kind, counts
  <2> QED
    BY <1>1, <1>9, <2>1 DEF Kinds
<1>11. Backed(d1, c)
  <2> SUFFICES ASSUME NEW e \in d1.evidence[c]
               PROVE  /\ e.run \in DOMAIN d1.run[c] /\ e.kind = EvidenceKindForJob(e.run)
                      /\ d1.run[c][e.run].state = "succeeded"
                      /\ ReallyPassed(Work[d1.run[c][e.run].report])
    BY DEF Backed
  <2>1. CASE e \in d.evidence[c]
    BY <1>1, <1>6, <1>9, <2>1 DEF Backed
  <2>2. CASE counts /\ e = record
    <3>1. r.state = "succeeded" /\ r.report = name
      BY DEF r
    <3> QED
      BY <1>1, <1>7, <1>9, <2>2, <3>1
  <2> QED
    BY <1>9, <2>1, <2>2
<1>12. Counted(d1, c)
  <2> SUFFICES ASSUME NEW i \in DOMAIN d1.run[c] PROVE CountsFor(d1, c, i)
    BY DEF Counted
  <2>1. CASE i = j
    <3>1. r.report = name
      BY DEF r
    <3> QED
      BY <1>1, <1>8, <1>9, <1>10, <2>1, <3>1 DEF CountsFor
  <2>2. CASE i # j
    BY <1>6, <1>9, <1>10, <2>2 DEF CountsFor
  <2> QED
    BY <2>1, <2>2
<1>13. Outcomes(d1, c) /\ LeakFree(d1, c)
  BY <1>1, <1>6, <1>9 DEF Outcomes, LeakFree
<1>14. CandOK(d1, c)
  BY <1>9, <1>11, <1>12, <1>13 DEF CandOK
<1>15. \A m \in Cands \ {c} : Alike(d, d1, m)
  BY <1>1, <1>9 DEF Alike
<1>16. DbOK(d1) /\ \A m \in Cands \ {c} : Undecided(d, m) => Undecided(d1, m)
  BY <1>9, <1>14, <1>15, OneCandidate DEF Terminal
<1> QED
  BY <1>2, <1>9, <1>16, MaybeKeeps DEF Keeps

\* A step that changes the state of one candidate to one that no rule of the
\* invariant speaks of, or the verdicts on it, keeps what its runs have shown.
LEMMA StateChanged ==
    ASSUME NEW d, NEW e, NEW c, e.run[c] = d.run[c], e.evidence[c] = d.evidence[c],
           Outcomes(d, c), Backed(d, c), Counted(d, c),
           e.cand[c] \notin {"absent", "eligible"},
           (\E i \in DOMAIN d.run[c] : Leaks(d.run[c][i])) => e.cand[c] = "rejected"
    PROVE  CandOK(e, c)
<1>1. Kinds(e, c) = Kinds(d, c)
  BY DEF Kinds
<1>2. Outcomes(e, c) /\ Backed(e, c) /\ LeakFree(e, c)
  BY DEF Outcomes, Backed, LeakFree
<1>3. Counted(e, c)
  BY <1>1 DEF Counted, CountsFor
<1> QED
  BY <1>2, <1>3 DEF CandOK

\* onRunFailed: a leak rejects; whatever else happens, the candidate is left
\* short of evidence, decided or under repair.
LEMMA FailureKeeps ==
    ASSUME NEW d, DbOK(d), NEW c \in Cands, d.cand[c] \in {"validating", "repairing"},
           NEW j \in DOMAIN d.run[c], d.run[c][j].state = "queued",
           NEW name \in DOMAIN Work, Completes(Work[name]),
           Reported(Work[name]).status \in {"failed", "timed_out"},
           NEW done, Rewrites(d, done, c, j, [state |-> Reported(Work[name]).status,
                                              attempt |-> d.run[c][j].attempt, report |-> name])
    PROVE  Keeps(d, OnRunFailed(done, c, j, Reported(Work[name])))
<1> DEFINE x == Reported(Work[name])
           att == d.run[c][j].attempt
           r == [state |-> x.status, attempt |-> att, report |-> name]
           fc == Classify(Redact(x.log), NoForensics)
           e == OnRunFailed(done, c, j, x)
<1>1. /\ IsDb(done) /\ done.cand = d.cand /\ done.evidence = d.evidence
      /\ done.decisions = d.decisions /\ \A m \in Cands \ {c} : done.run[m] = d.run[m]
      /\ DOMAIN done.run[c] = DOMAIN d.run[c] /\ done.run[c][j] = r
  BY DEF Rewrites
<1>2. CandOK(d, c) /\ IsDb(d)
  BY DEF DbOK
<1>3. name # NoReport /\ IsWork(Work[name])
  BY WorkTyped
<1>4. r.state # "succeeded" /\ r.report = name /\ r.attempt = att /\ r.state \notin {"queued", "cancelled"}
  OBVIOUS
<1>5. RowOK(r)
  BY <1>3, <1>4 DEF RowOK
<1>6. Leaks(r) => RouteFailure(fc) = "reject" /\ fc.class = "security_policy_violation"
  BY <1>4, LeakIsRejected DEF Leaks
<1>7. Rewrites(d, done, c, j, r)
  OBVIOUS
<1> HIDE DEF r
<1>8. Outcomes(done, c) /\ Backed(done, c) /\ Counted(done, c) /\ (~Leaks(r) => LeakFree(done, c))
  BY <1>2, <1>4, <1>5, <1>7, RowReplaced
<1>9. \A m \in Cands \ {c} : Alike(d, done, m)
  BY <1>1 DEF Alike
<1>10. ASSUME NEW f, IsDb(f), f.run[c] = done.run[c], f.evidence[c] = done.evidence[c],
              f.cand[c] \in {"validating", "repairing", "rejected"}, \A m \in Cands \ {c} : Alike(done, f, m),
              Leaks(r) => f.cand[c] = "rejected", f.cand[c] # "validating" \/ f.decisions[c] # {}
       PROVE  Keeps(d, f)
  <2>1. CandOK(f, c)
    <3>1. (\E i \in DOMAIN done.run[c] : Leaks(done.run[c][i])) => f.cand[c] = "rejected"
      BY <1>1, <1>8, <1>10 DEF LeakFree
    <3> QED
      BY <1>8, <1>10, <3>1, StateChanged
  <2>2. \A m \in Cands \ {c} : Alike(d, f, m)
    BY <1>9, <1>10 DEF Alike
  <2>3. DbOK(f) /\ \A m \in Cands \ {c} : Undecided(d, m) => Undecided(f, m)
    BY <1>10, <2>1, <2>2, OneCandidate DEF Terminal
  <2>4. Undecided(f, c)
    BY <1>10 DEF Undecided
  <2> QED
    BY <2>3, <2>4 DEF Keeps
<1>11. ASSUME ~Leaks(r) PROVE Keeps(d, RenderDecision(done, c, "deferred"))
  <2> DEFINE f == [done EXCEPT !.decisions[c] = @ \cup {"deferred"}]
  <2>1. RenderDecision(done, c, "deferred") = f
    BY DEF RenderDecision
  <2>2. /\ IsDb(f) /\ f.cand = done.cand /\ f.run = done.run /\ f.evidence = done.evidence
        /\ f.decisions[c] # {} /\ \A m \in Cands \ {c} : Alike(done, f, m)
    BY <1>1, VerdictSaid
  <2> HIDE DEF f
  <2> QED
    BY <1>1, <1>10, <1>11, <2>1, <2>2
<1>12. CASE Retries(done, c, j, x)
  <2>1. ~Leaks(r)
    BY <1>6, <1>12 DEF Retries
  <2> DEFINE s == [state |-> "queued", attempt |-> att + 1, report |-> name]
  <2>2. e = [done EXCEPT !.run[c][j].state = "queued", !.run[c][j].attempt = @ + 1]
    BY <1>12 DEF OnRunFailed
  <2>3. Rewrites(done, e, c, j, s)
    <3>1. [state |-> "queued", attempt |-> done.run[c][j].attempt + 1, report |-> done.run[c][j].report] = s
      BY <1>1, <1>4
    <3> HIDE DEF e
    <3> QED
      BY <1>1, <2>2, <3>1, RetryWritten
  <2> HIDE DEF e
  <2>4. s.state = "queued" /\ s.report = name
    OBVIOUS
  <2>5. RowOK(s) /\ (Leaks(s) <=> Leaks(r))
    BY <1>3, <1>4, <2>4 DEF RowOK, Leaks
  <2> HIDE DEF s
  <2>6. Rewrites(d, e, c, j, s)
    BY <1>7, <2>3, RowRewritten
  <2>7. /\ Outcomes(e, c) /\ Backed(e, c) /\ Kinds(e, c) = Kinds(d, c) /\ LeakFree(e, c)
        /\ Counted(e, c)
    BY <1>2, <2>1, <2>4, <2>5, <2>6, RowReplaced
  <2>8. /\ IsDb(e) /\ e.cand = d.cand /\ e.evidence = d.evidence /\ e.decisions = d.decisions
        /\ \A m \in Cands \ {c} : e.run[m] = d.run[m]
        /\ DOMAIN e.run[c] = DOMAIN d.run[c] /\ e.run[c][j] = s
        /\ \A i \in DOMAIN d.run[c] \ {j} : e.run[c][i] = d.run[c][i]
    BY <2>6 DEF Rewrites
  <2>9. CandOK(e, c)
    BY <2>7, <2>8 DEF CandOK
  <2>10. \A m \in Cands \ {c} : Alike(d, e, m)
    BY <2>8 DEF Alike
  <2>11. DbOK(e) /\ \A m \in Cands \ {c} : Undecided(d, m) => Undecided(e, m)
    BY <2>8, <2>9, <2>10, OneCandidate DEF Terminal
  <2>12. FailedRequired(e, c) = FailedRequired(d, c)
    BY <2>4, <2>8 DEF FailedRequired
  <2>13. Undecided(d, c) => Undecided(e, c)
    BY <2>7, <2>8, <2>12 DEF Undecided
  <2> QED
    BY <2>11, <2>13 DEF Keeps, e
<1>13. CASE ~Retries(done, c, j, x) /\ RouteFailure(fc) = "reject"
  <2> DEFINE said == [done EXCEPT !.decisions[c] = @ \cup {"rejected"}]
  <2>1. /\ IsDb(said) /\ said.cand = done.cand /\ said.run = done.run /\ said.evidence = done.evidence
        /\ said.decisions[c] # {} /\ \A m \in Cands \ {c} : Alike(done, said, m)
    BY <1>1, VerdictSaid
  <2> DEFINE f == Mark(said, c, "rejected", {"validating", "repairing"})
  <2>2. e = f
    BY <1>13 DEF OnRunFailed, RenderDecision
  <2> HIDE DEF said
  <2>3. "rejected" \in CandStates
    BY DEF CandStates
  <2>4. /\ IsDb(f) /\ f.run = said.run /\ f.evidence = said.evidence /\ f.cand[c] = "rejected"
        /\ \A m \in Cands \ {c} : Alike(said, f, m)
    BY <1>1, <2>1, <2>3, Marked
  <2> HIDE DEF f
  <2>5. \A m \in Cands \ {c} : Alike(done, f, m)
    BY <2>1, <2>4 DEF Alike
  <2> QED
    BY <1>10, <2>2, <2>1, <2>4, <2>5
<1>14. CASE ~Retries(done, c, j, x) /\ RouteFailure(fc) = "repair"
  <2>1. e = AuthorizeOrDefer(done, c, fc) /\ ~Leaks(r)
    BY <1>6, <1>14 DEF OnRunFailed
  <2> HIDE DEF e
  <2>2. PICK ruling : AuthorizeOrDefer(done, c, fc) =
           IF ruling.granted
           THEN Mark([done EXCEPT !.envelope[c] = @ \cup {ruling}], c, "repairing", {"validating"})
           ELSE RenderDecision(done, c, "deferred")
    BY DEF AuthorizeOrDefer
  <2>3. CASE ruling.granted
    <3> DEFINE paid == [done EXCEPT !.envelope[c] = @ \cup {ruling}]
    <3>1. /\ IsDb(paid) /\ paid.cand = done.cand /\ paid.run = done.run
          /\ paid.evidence = done.evidence /\ paid.decisions = done.decisions
      BY <1>1 DEF IsDb
    <3> HIDE DEF paid
    <3>2. "repairing" \in CandStates
      BY DEF CandStates
    <3> DEFINE f == Mark(paid, c, "repairing", {"validating"})
    <3>3. /\ IsDb(f) /\ f.run = paid.run /\ f.evidence = paid.evidence
          /\ f.cand[c] = IF paid.cand[c] \in {"validating"} THEN "repairing" ELSE paid.cand[c]
          /\ \A m \in Cands \ {c} : Alike(paid, f, m)
      BY <3>1, <3>2, Marked
    <3>4. e = f
      BY <2>1, <2>2, <2>3 DEF paid
    <3> HIDE DEF f
    <3>5. \A m \in Cands \ {c} : Alike(done, f, m)
      BY <3>1, <3>3 DEF Alike
    <3>6. f.cand[c] = "repairing"
      BY <1>1, <3>1, <3>3
    <3> QED
      BY <1>10, <2>1, <3>1, <3>3, <3>4, <3>5, <3>6 DEF e
  <2>4. CASE ~ruling.granted
    BY <1>11, <2>1, <2>2, <2>4 DEF e
  <2> QED
    BY <2>3, <2>4
<1>15. CASE ~Retries(done, c, j, x) /\ RouteFailure(fc) # "reject" /\ RouteFailure(fc) # "repair"
  <2>1. e = RenderDecision(done, c, "deferred") /\ ~Leaks(r)
    BY <1>6, <1>15 DEF OnRunFailed
  <2> QED
    BY <1>11, <2>1
<1> QED
  BY <1>12, <1>13, <1>14, <1>15

----------------------------------------------------------------------------
(***************************************************************************)
(* The steps.                                                              *)
(***************************************************************************)

\* The fields of Db.
LEMMA DbFields ==
    /\ Db.cand = cand /\ Db.run = run /\ Db.evidence = evidence
    /\ Db.decisions = decisions /\ Db.envelope = envelope
BY DEF Db

\* What holds of candidate c in d holds of it in a next state that agrees.
LEMMA CarriedOne ==
    ASSUME NEW d, NEW c, cand'[c] = d.cand[c], run'[c] = d.run[c], evidence'[c] = d.evidence[c],
           decisions'[c] = d.decisions[c], plan'[c] = plan[c]
    PROVE  (CandOK(d, c) => CandOK(Db, c)') /\ (Undecided(d, c) => Undecided(Db, c)')
<1>1. /\ (Db.cand)' = cand' /\ (Db.run)' = run' /\ (Db.evidence)' = evidence'
      /\ (Db.decisions)' = decisions'
  BY DEF Db
<1>2. Outcomes(d, c) => Outcomes(Db, c)'
  BY <1>1 DEF Outcomes
<1>3. Backed(d, c) => Backed(Db, c)'
  BY <1>1 DEF Backed
<1>4. Kinds(Db, c)' = Kinds(d, c)
  BY <1>1 DEF Kinds
<1>5. Counted(d, c) => Counted(Db, c)'
  BY <1>1, <1>4 DEF Counted, CountsFor
<1>6. LeakFree(d, c) => LeakFree(Db, c)'
  BY <1>1 DEF LeakFree
<1>7. CandOK(d, c) => CandOK(Db, c)'
  BY <1>1, <1>2, <1>3, <1>4, <1>5, <1>6 DEF CandOK
<1>8. FailedRequired(Db, c)' = FailedRequired(d, c)
  BY <1>1 DEF FailedRequired
<1>9. Undecided(d, c) => Undecided(Db, c)'
  BY <1>1, <1>4, <1>8 DEF Undecided
<1> QED
  BY <1>7, <1>9

\* What holds of d holds of the next state that has d's fields.
LEMMA Carried ==
    ASSUME NEW d, IsDb(d), cand' = d.cand, run' = d.run, evidence' = d.evidence,
           decisions' = d.decisions, cluster' = cluster, plan' = plan
    PROVE  /\ DbOK(d) => DbOK(Db)'
           /\ \A c \in Cands : Undecided(d, c) => Undecided(Db, c)'
<1>1. /\ (Db.cand)' = d.cand /\ (Db.run)' = d.run
  BY DEF Db
<1>2. IsDb(Db)'
  BY DEF IsDb, Db
<1>3. \A c \in Cands : (CandOK(d, c) => CandOK(Db, c)') /\ (Undecided(d, c) => Undecided(Db, c)')
  BY CarriedOne
<1>4. \A c \in Cands : StoodDown(d, c) => StoodDown(Db, c)'
  BY <1>1 DEF StoodDown
<1> QED
  BY <1>2, <1>3, <1>4 DEF DbOK

\* Nothing has been submitted in the initial state.
LEMMA InitInv ==
    Init => AssuranceInv
<1> SUFFICES ASSUME Init PROVE AssuranceInv
  OBVIOUS
<1> USE DbFields
<1>1. /\ cast \in Casts
      /\ draft = [c \in Cands |-> Unjoined] /\ cluster = [c \in Cands |-> Unjoined]
      /\ cand = [c \in Cands |-> "absent"]
      /\ plan = [c \in Cands |-> NoPlan] /\ run = [c \in Cands |-> NoRuns]
      /\ evidence = [c \in Cands |-> {}] /\ decisions = [c \in Cands |-> {}]
      /\ envelope = [c \in Cands |-> {}]
  BY DEF Init
<1>2. DOMAIN NoRuns = {} /\ NoRuns \in Tables
  <2>1. NoRuns \in [{} -> Row] /\ {} \in SUBSET JobNames
    BY DEF NoRuns
  <2> QED
    BY <2>1, TableMeans
<1>3. IsDb(Db)
  <2>1. cand \in [Cands -> CandStates] /\ run \in [Cands -> Tables]
    BY <1>1, <1>2 DEF CandStates
  <2>2. DOMAIN evidence = Cands /\ DOMAIN decisions = Cands
    BY <1>1
  <2> QED
    BY <2>1, <2>2 DEF IsDb, Db
<1>4. \A c \in Cands : CandOK(Db, c) /\ StoodDown(Db, c)
  <2> SUFFICES ASSUME NEW c \in Cands PROVE CandOK(Db, c) /\ StoodDown(Db, c)
    OBVIOUS
  <2>1. DOMAIN run[c] = {} /\ evidence[c] = {} /\ decisions[c] = {} /\ cand[c] = "absent"
    BY <1>1, <1>2
  <2> QED
    BY <2>1 DEF CandOK, StoodDown, Outcomes, Backed, Counted, LeakFree
<1>5. \A c \in Cands : Placed(c, draft[c]) /\ Placed(c, cluster[c])
  BY <1>1 DEF Placed
<1> QED
  BY <1>1, <1>3, <1>4, <1>5 DEF AssuranceInv, DbOK

\* assignCluster: whatever it reads, it puts the candidate beside a
\* representative whose paths overlap, or in a cluster of its own.
LEMMA DraftKeeps ==
    ASSUME AssuranceInv, NEW c \in Cands, DraftCandidate(c)
    PROVE  AssuranceInv'
<1>1. PICK a \in {Assign(cast[c].paths, ActiveClusters(cast[c].repo), PathsOf), Unjoined} :
         draft' = [draft EXCEPT ![c] = IF a = Unjoined THEN [a EXCEPT !.rep = c] ELSE a]
  BY DEF DraftCandidate
<1>2. UNCHANGED <<cast, cand, cluster, plan, run, evidence, decisions, envelope>>
  BY DEF DraftCandidate
<1>3. \A m \in Cands : cast[m].paths \in Seq(DOMAIN Grams)
  BY CastsTyped DEF AssuranceInv
<1>4. ActiveClusters(cast[c].repo) \subseteq Cands
  BY DEF ActiveClusters
<1>5. ActiveClusters(cast[c].repo) \in SUBSET Nat /\ IsFiniteSet(ActiveClusters(cast[c].repo))
  BY <1>4, AssuranceConstants, FS_Subset
<1>6. \A r \in ActiveClusters(cast[c].repo) : PathsOf[r] = cast[r].paths /\ PathsOf[r] \in Seq(DOMAIN Grams)
  BY <1>3, <1>4 DEF PathsOf
<1>7. \/ a = Unjoined
      \/ \E r \in ActiveClusters(cast[c].repo) :
            /\ a = [rep |-> r, relation |-> RelationTo(cast[c].paths, PathsOf[r])]
            /\ Pathset(cast[c].paths) \cap Pathset(PathsOf[r]) # {}
  BY <1>1, <1>3, <1>5, <1>6, AssignMeans
<1>8. [Unjoined EXCEPT !.rep = c] = [rep |-> c, relation |-> "none"]
  BY DEF Unjoined
<1>9. Placed(c, IF a = Unjoined THEN [a EXCEPT !.rep = c] ELSE a)
  <2>1. CASE a = Unjoined
    BY <1>8, <2>1 DEF Placed
  <2>2. CASE a # Unjoined
    BY <1>4, <1>6, <1>7, <2>2 DEF Placed
  <2> QED
    BY <2>1, <2>2
<1>10. draft' = [m \in Cands |-> draft'[m]] /\ \A m \in Cands : Placed(m, draft'[m])
  BY <1>1, <1>9 DEF AssuranceInv
<1>11. \A m \in Cands : Placed(m, draft[m])' /\ Placed(m, cluster[m])'
  BY <1>2, <1>10 DEF Placed, AssuranceInv
<1>12. DbOK(Db)'
  BY <1>2, DbFields, Carried DEF AssuranceInv, DbOK
<1> QED
  BY <1>2, <1>10, <1>11, <1>12 DEF AssuranceInv

\* Whatever the policy, the planned jobs come from the catalogs.
LEMMA PlannedJobs ==
    ASSUME NEW s, NEW recs
    PROVE  EnginePlan(s, recs).jobs \subseteq AllJobs
<1>1. PICK in, pack : EnginePlan(s, recs) = Plan(in, pack)
  BY DEF EnginePlan
<1>2. \A widened, required : ComposeTier2(required, widened) \subseteq Tier2Base(widened) \cup PolicyJobs
  BY DEF ComposeTier2
<1>3. \A widened : /\ Tier1Jobs(widened) \subseteq Tier1Jobs(TRUE) \cup Tier1Jobs(FALSE)
                   /\ Tier2Base(widened) \subseteq Tier2Base(TRUE) \cup Tier2Base(FALSE)
  BY DEF Tier1Jobs, Tier2Base
<1>4. PICK widened, required, more, most :
         /\ Plan(in, pack).jobs = Tier0Jobs \cup Tier1Jobs(widened) \cup ComposeTier2(required, widened)
                                    \cup more \cup most
         /\ more \in {Tier3Jobs, {}} /\ most \in {Tier4Jobs, {}}
  BY DEF Plan
<1>5. Tier2Base(widened) \cup PolicyJobs \subseteq AllJobs /\ Tier1Jobs(widened) \subseteq AllJobs
      /\ Tier0Jobs \subseteq AllJobs /\ Tier3Jobs \subseteq AllJobs /\ Tier4Jobs \subseteq AllJobs
  BY <1>3 DEF AllJobs
<1> QED
  BY <1>1, <1>2, <1>4, <1>5

\* SubmitCandidateTx: the candidate starts with its runs queued and nothing
\* shown; the others do not notice.
LEMMA SubmitKeeps ==
    ASSUME AssuranceInv, NEW c \in Cands, SubmitCandidate(c)
    PROVE  AssuranceInv'
<1> DEFINE planned == EnginePlan(Subject(c), Registry)
           row == [state |-> "queued", attempt |-> 1, report |-> NoReport]
           names == {j.name : j \in planned.jobs}
           table == [j \in names |-> row]
           start == IF draft[c].relation = "duplicate_of" THEN "blocked_representative" ELSE "validating"
<1>1. /\ cand[c] = "absent" /\ cand' = [cand EXCEPT ![c] = start]
      /\ cluster' = [cluster EXCEPT ![c] = draft[c]]
      /\ plan' = [plan EXCEPT ![c] = [policy |-> planned.policy, required |-> planned.required]]
      /\ run' = [run EXCEPT ![c] = table]
      /\ UNCHANGED <<cast, draft, evidence, decisions, envelope>>
  BY DEF SubmitCandidate
<1>2. /\ cand \in [Cands -> CandStates] /\ run \in [Cands -> Tables]
      /\ DOMAIN evidence = Cands /\ DOMAIN decisions = Cands
      /\ cluster = [m \in Cands |-> cluster[m]] /\ plan = [m \in Cands |-> plan[m]]
      /\ \A m \in Cands : CandOK(Db, m) /\ StoodDown(Db, m)
  BY DbFields DEF AssuranceInv, DbOK, IsDb
<1>3. start \in CandStates /\ start \in {"blocked_representative", "validating"}
  BY DEF CandStates
<1>4. table \in Tables
  <2>1. names \in SUBSET JobNames
    BY PlannedJobs DEF JobNames
  <2>2. row \in Row
    BY DEF Row, RunStates
  <2> HIDE DEF names, row
  <2>3. table \in [names -> Row]
    BY <2>2
  <2> QED
    BY <2>1, <2>3, TableMeans
<1>5. \A j \in DOMAIN table : table[j] = row
  OBVIOUS
<1>6. row.state = "queued" /\ row.report = NoReport
  OBVIOUS
<1> HIDE DEF planned, row, table, start
<1>7. /\ cand'[c] = start /\ run'[c] = table
      /\ \A m \in Cands \ {c} : /\ cand'[m] = cand[m] /\ run'[m] = run[m] /\ plan'[m] = plan[m]
                                /\ cluster'[m] = cluster[m]
      /\ cand' \in [Cands -> CandStates] /\ run' \in [Cands -> Tables]
  BY <1>1, <1>2, <1>3, <1>4
<1>8. /\ (Db.cand)' = cand' /\ (Db.run)' = run' /\ (Db.evidence)' = evidence'
      /\ (Db.decisions)' = decisions'
  BY DEF Db
<1>9. IsDb(Db)'
  BY <1>1, <1>2, <1>7 DEF IsDb, Db
<1>10. \A m \in Cands \ {c} : CandOK(Db, m)'
  BY <1>1, <1>2, <1>7, DbFields, CarriedOne
<1>11. CandOK(Db, c)'
  <2>1. evidence'[c] = {}
    BY <1>1, <1>2, DbFields DEF CandOK
  <2>2. RowOK(row) /\ ~Leaks(row)
    BY <1>6 DEF RowOK, Leaks
  <2>3. Outcomes(Db, c)' /\ LeakFree(Db, c)'
    BY <1>5, <1>7, <1>8, <2>2 DEF Outcomes, LeakFree
  <2>4. Backed(Db, c)'
    BY <1>8, <2>1 DEF Backed
  <2>5. Counted(Db, c)'
    BY <1>5, <1>6, <1>7, <1>8 DEF Counted, CountsFor
  <2> QED
    BY <1>3, <1>7, <1>8, <2>3, <2>4, <2>5 DEF CandOK
<1>12. \A m \in Cands : StoodDown(Db, m)'
  <2> SUFFICES ASSUME NEW m \in Cands, cand'[m] = "superseded"
               PROVE  StoodDown(Db, m)'
    BY <1>8 DEF StoodDown
  <2>1. m # c /\ cand[m] = "superseded"
    BY <1>3, <1>7
  <2>2. /\ \E w \in Cands : cluster[w].rep = cluster[m].rep /\ cand[w] = "eligible"
        /\ StandsDown(cluster[m].relation) /\ \A j \in DOMAIN run[m] : run[m][j].state # "queued"
    BY <1>2, <2>1, DbFields DEF StoodDown
  <2>3. PICK w \in Cands : cluster[w].rep = cluster[m].rep /\ cand[w] = "eligible"
    BY <2>2
  <2>4. w # c /\ cluster'[w].rep = cluster'[m].rep /\ cand'[w] = "eligible"
    BY <1>1, <1>7, <2>1, <2>3
  <2> QED
    BY <1>7, <1>8, <2>1, <2>2, <2>4 DEF StoodDown
<1>13. /\ cluster' = [m \in Cands |-> cluster'[m]] /\ plan' = [m \in Cands |-> plan'[m]]
       /\ \A m \in Cands : cluster'[m] \in {cluster[m], draft[m]}
  BY <1>1, <1>2
<1>14. \A m \in Cands : Placed(m, draft[m])' /\ Placed(m, cluster[m])'
  <2> SUFFICES ASSUME NEW m \in Cands PROVE Placed(m, draft[m])' /\ Placed(m, cluster[m])'
    OBVIOUS
  <2>1. Placed(m, draft[m]) /\ Placed(m, cluster[m])
    BY DEF AssuranceInv
  <2>2. Placed(m, draft[m])'
    BY <1>1, <2>1 DEF Placed
  <2>3. CASE cluster'[m] = cluster[m]
    BY <1>1, <2>1, <2>2, <2>3 DEF Placed
  <2>4. CASE cluster'[m] = draft[m]
    BY <1>1, <2>1, <2>2, <2>4 DEF Placed
  <2> QED
    BY <1>13, <2>3, <2>4
<1>15. cast' \in Casts /\ draft' = [m \in Cands |-> draft'[m]]
  BY <1>1 DEF AssuranceInv
<1>16. DbOK(Db)'
  BY <1>9, <1>10, <1>11, <1>12 DEF DbOK
<1> QED
  BY <1>13, <1>14, <1>15, <1>16 DEF AssuranceInv

\* The effect transaction.
LEMMA CompleteKeeps ==
    ASSUME AssuranceInv, NEW c \in Cands, NEW j \in DOMAIN run[c], NEW name \in DOMAIN Work,
           Complete(c, j, name)
    PROVE  AssuranceInv' /\ \A m \in Cands : Undecided(Db, m) => Undecided(Db, m)'
<1> DEFINE x == Reported(Work[name])
           done == [Db EXCEPT !.run[c][j].state = x.status, !.run[c][j].report = name]
           d == IF x.status = "succeeded" THEN OnRunSucceeded(done, c, j, x) ELSE OnRunFailed(done, c, j, x)
<1>0. Feed[name] = Reported(Work[name])
  BY DEF Feed
<1>1. /\ cand[c] \in {"validating", "repairing"} /\ run[c][j].state = "queued" /\ Completes(Work[name])
      /\ cand' = d.cand /\ run' = d.run /\ evidence' = d.evidence /\ decisions' = d.decisions
      /\ UNCHANGED <<cast, draft, cluster, plan>>
  BY <1>0 DEF Complete
<1>2. DbOK(Db) /\ IsDb(Db)
  BY DEF AssuranceInv, DbOK
<1>3. x.status \in Statuses
  BY <1>1, WorkTyped, ReportedStatus
<1>4. /\ Db.cand[c] \in {"validating", "repairing"} /\ j \in DOMAIN Db.run[c]
      /\ Db.run[c][j].state = "queued"
  BY <1>1, DbFields
<1>5. Rewrites(Db, done, c, j, [state |-> x.status, attempt |-> Db.run[c][j].attempt, report |-> name])
  <2>1. x.status \in RunStates
    BY <1>3 DEF Statuses, RunStates
  <2> HIDE DEF x
  <2> QED
    BY <1>2, <1>4, <2>1, ReportWritten
<1> HIDE DEF done
<1>6. Keeps(Db, d)
  <2>1. CASE x.status = "succeeded"
    BY <1>1, <1>2, <1>4, <1>5, <2>1, SuccessKeeps
  <2>2. CASE x.status # "succeeded"
    <3>1. x.status \in {"failed", "timed_out"}
      BY <1>3, <2>2 DEF Statuses
    <3> QED
      BY <1>1, <1>2, <1>4, <1>5, <2>2, <3>1, FailureKeeps
  <2> QED
    BY <2>1, <2>2
<1> HIDE DEF d
<1>7. DbOK(d) /\ IsDb(d) /\ \A m \in Cands : Undecided(Db, m) => Undecided(d, m)
  BY <1>6 DEF Keeps, DbOK
<1>8. DbOK(Db)' /\ \A m \in Cands : Undecided(d, m) => Undecided(Db, m)'
  BY <1>1, <1>7, Carried
<1>9. \A m \in Cands : Placed(m, draft[m])' /\ Placed(m, cluster[m])'
  BY <1>1 DEF Placed, AssuranceInv
<1> QED
  BY <1>1, <1>7, <1>8, <1>9 DEF AssuranceInv

\* The invariant is inductive.
LEMMA NextInv ==
    AssuranceInv /\ [Next]_vars => AssuranceInv'
<1> SUFFICES ASSUME AssuranceInv, [Next]_vars PROVE AssuranceInv'
  OBVIOUS
<1>1. ASSUME NEW c \in Cands, RunFinishes(c) PROVE AssuranceInv'
  <2>1. PICK j \in DOMAIN cast[c].reports \cap DOMAIN run[c] :
           \E name \in cast[c].reports[j] : Complete(c, j, name)
    BY <1>1 DEF RunFinishes
  <2>2. PICK name \in cast[c].reports[j] : Complete(c, j, name)
    BY <2>1
  <2>3. name \in DOMAIN Work
    BY <2>2, CastsTyped DEF AssuranceInv
  <2> QED
    BY <2>2, <2>3, CompleteKeeps
<1>2. ASSUME UNCHANGED vars PROVE AssuranceInv'
  <2>1. UNCHANGED <<cast, draft, cand, cluster, plan, run, evidence, decisions, envelope>>
    BY <1>2 DEF vars
  <2>2. DbOK(Db)'
    BY <2>1, DbFields, Carried DEF AssuranceInv, DbOK
  <2>3. \A m \in Cands : Placed(m, draft[m])' /\ Placed(m, cluster[m])'
    BY <2>1 DEF Placed, AssuranceInv
  <2> QED
    BY <2>1, <2>2, <2>3 DEF AssuranceInv
<1> QED
  BY <1>1, <1>2, DraftKeeps, SubmitKeeps DEF Next

\* Types and the facts that tie rows, evidence, verdicts and clusters to each
\* other hold in every state, whatever the registry, the casts and the works.
THEOREM AssuranceInvariant ==
    Spec => []AssuranceInv
BY InitInv, NextInv, PTL DEF Spec

\* I-01: an eligible candidate is backed, kind by kind, by runs that really
\* passed (the honesty contract of the providers, then evidenceEvaluate and
\* sufficiency).
THEOREM EligibleIsBacked ==
    Spec => []EligibleBacked
<1>1. AssuranceInv => EligibleBacked
  <2> SUFFICES ASSUME AssuranceInv, NEW c \in Cands, cand[c] = "eligible", NEW k \in plan[c].required
               PROVE  \E j \in DOMAIN run[c] :
                         /\ EvidenceKindForJob(j) = k /\ run[c][j].state = "succeeded"
                         /\ ReallyPassed(Work[run[c][j].report])
    BY DEF EligibleBacked
  <2>1. Sufficient(plan[c].required, Kinds(Db, c)) /\ Backed(Db, c)
    BY DbFields DEF AssuranceInv, DbOK, CandOK
  <2>2. PICK e \in evidence[c] : e.kind = k
    BY <2>1, DbFields DEF Sufficient, Kinds
  <2> QED
    BY <2>1, <2>2, DbFields DEF Backed
<1> QED
  BY <1>1, AssuranceInvariant, PTL

\* A leak that is still there when the log of a failed run is scrubbed ends
\* its candidate, whatever else the log matches and whatever the candidate's
\* other runs do.
THEOREM LeakAlwaysRejects ==
    Spec => []LeakRejects
<1>1. AssuranceInv => LeakRejects
  <2> SUFFICES ASSUME AssuranceInv, NEW c \in Cands, NEW j \in DOMAIN run[c], Leaks(run[c][j])
               PROVE  cand[c] = "rejected"
    BY DEF LeakRejects, Leaks
  <2>1. LeakFree(Db, c)
    BY DEF AssuranceInv, DbOK, CandOK
  <2> QED
    BY <2>1, DbFields DEF LeakFree
<1> QED
  BY <1>1, AssuranceInvariant, PTL

\* What the code does keep when a candidate is superseded: a member of its own
\* cluster became eligible, the candidate does not conflict with the
\* representative, and nothing of it is left to run (propagateSupersession).
\* It changes the very files that the representative changes, if both list
\* each path once.
SupersededInCluster ==
    \A c \in Cands : cand[c] = "superseded" =>
        /\ \E w \in Cands : cluster[w].rep = cluster[c].rep /\ cand[w] = "eligible"
        /\ cluster[c].rep \in Cands /\ cluster[c].relation = "duplicate_of"
        /\ LET mine == cast[c].paths
               reps == cast[cluster[c].rep].paths
           IN  /\ Pathset(mine) \subseteq Pathset(reps)
               /\ IsInjective(mine) /\ IsInjective(reps) => Pathset(mine) = Pathset(reps)
        /\ \A j \in DOMAIN run[c] : run[c][j].state # "queued"

\* Who is superseded duplicates the representative of a cluster in which
\* somebody is eligible, and has nothing left to run.
THEOREM SupersededIsDuplicate ==
    Spec => []SupersededInCluster
<1>1. AssuranceInv => SupersededInCluster
  <2> SUFFICES ASSUME AssuranceInv, NEW c \in Cands, cand[c] = "superseded"
               PROVE  /\ \E w \in Cands : cluster[w].rep = cluster[c].rep /\ cand[w] = "eligible"
                      /\ cluster[c].rep \in Cands /\ cluster[c].relation = "duplicate_of"
                      /\ LET mine == cast[c].paths
                             reps == cast[cluster[c].rep].paths
                         IN  /\ Pathset(mine) \subseteq Pathset(reps)
                             /\ IsInjective(mine) /\ IsInjective(reps) => Pathset(mine) = Pathset(reps)
                      /\ \A j \in DOMAIN run[c] : run[c][j].state # "queued"
    BY DEF SupersededInCluster
  <2>1. /\ \E w \in Cands : cluster[w].rep = cluster[c].rep /\ cand[w] = "eligible"
        /\ StandsDown(cluster[c].relation)
        /\ \A j \in DOMAIN run[c] : run[c][j].state # "queued"
    BY DbFields DEF AssuranceInv, DbOK, StoodDown
  <2>2. Unjoined.relation = "none" /\ [rep |-> c, relation |-> "none"].relation = "none"
    BY DEF Unjoined
  <2>3. /\ cluster[c].rep \in Cands
        /\ cluster[c].relation = RelationTo(cast[c].paths, cast[cluster[c].rep].paths)
        /\ Pathset(cast[c].paths) \cap Pathset(cast[cluster[c].rep].paths) # {}
    <3>1. Placed(c, cluster[c]) /\ cluster[c].relation # "none"
      BY <2>1 DEF AssuranceInv, StandsDown
    <3> QED
      BY <2>2, <3>1 DEF Placed
  <2>4. cast[c].paths \in Seq(DOMAIN Grams) /\ cast[cluster[c].rep].paths \in Seq(DOMAIN Grams)
    BY <2>3, CastsTyped DEF AssuranceInv
  <2>5. StandsDown(RelationTo(cast[c].paths, cast[cluster[c].rep].paths))
    BY <2>1, <2>3
  <2> QED
    BY <2>1, <2>3, <2>4, <2>5, DuplicateMeans
<1> QED
  BY <1>1, AssuranceInvariant, PTL

----------------------------------------------------------------------------
(***************************************************************************)
(* Globs.  The meaning of a pattern is a chain of steps, one per element;  *)
(* the matchers are shown to look for such a chain.                        *)
(***************************************************************************)

\* Step k of a chain goes from one place to another that R allows; the chain
\* runs over the steps i..n, from place a to place m.
Chain(R, n, m, i, a) ==
    \E f \in [i..(n + 1) -> Nat] :
        f[i] = a /\ f[n + 1] = m /\ \A k \in i..n : <<k, f[k], f[k + 1]>> \in R

\* Without a step left, a chain is where it ends.
LEMMA ChainEnds ==
    ASSUME NEW R, NEW n \in Nat, NEW m \in Nat, NEW a \in Nat
    PROVE  Chain(R, n, m, n + 1, a) <=> a = m
<1>1. ASSUME a = m PROVE Chain(R, n, m, n + 1, a)
  <2> DEFINE f == [k \in (n + 1)..(n + 1) |-> a]
  <2>1. f \in [(n + 1)..(n + 1) -> Nat] /\ f[n + 1] = a /\ \A k \in (n + 1)..n : FALSE
    OBVIOUS
  <2> HIDE DEF f
  <2> QED
    BY <1>1, <2>1 DEF Chain
<1> QED
  BY <1>1 DEF Chain

\* A chain is a first step and a chain.
LEMMA ChainGoesOn ==
    ASSUME NEW R, NEW n \in Nat, NEW m \in Nat, NEW a \in Nat, NEW i \in 1..n
    PROVE  Chain(R, n, m, i, a) <=> \E b \in Nat : <<i, a, b>> \in R /\ Chain(R, n, m, i + 1, b)
<1>1. ASSUME Chain(R, n, m, i, a)
      PROVE  \E b \in Nat : <<i, a, b>> \in R /\ Chain(R, n, m, i + 1, b)
  <2>1. PICK f \in [i..(n + 1) -> Nat] :
           f[i] = a /\ f[n + 1] = m /\ \A k \in i..n : <<k, f[k], f[k + 1]>> \in R
    BY <1>1 DEF Chain
  <2> DEFINE g == [k \in (i + 1)..(n + 1) |-> f[k]]
  <2>2. /\ g \in [(i + 1)..(n + 1) -> Nat] /\ g[i + 1] = f[i + 1] /\ g[n + 1] = m
        /\ \A k \in (i + 1)..n : g[k] = f[k] /\ g[k + 1] = f[k + 1] /\ k \in i..n
    BY <2>1
  <2> HIDE DEF g
  <2>3. Chain(R, n, m, i + 1, f[i + 1])
    BY <2>1, <2>2 DEF Chain
  <2>4. f[i + 1] \in Nat /\ i \in i..n
    OBVIOUS
  <2> QED
    BY <2>1, <2>3, <2>4
<1>2. ASSUME NEW b \in Nat, <<i, a, b>> \in R, Chain(R, n, m, i + 1, b)
      PROVE  Chain(R, n, m, i, a)
  <2>1. PICK g \in [(i + 1)..(n + 1) -> Nat] :
           g[i + 1] = b /\ g[n + 1] = m /\ \A k \in (i + 1)..n : <<k, g[k], g[k + 1]>> \in R
    BY <1>2 DEF Chain
  <2> DEFINE f == [k \in i..(n + 1) |-> IF k = i THEN a ELSE g[k]]
  <2>2. /\ f \in [i..(n + 1) -> Nat] /\ f[i] = a /\ f[n + 1] = m
        /\ \A k \in (i + 1)..(n + 1) : f[k] = g[k]
    BY <2>1
  <2> HIDE DEF f
  <2>3. ASSUME NEW k \in i..n PROVE <<k, f[k], f[k + 1]>> \in R
    <3>1. CASE k = i
      <4>1. f[i + 1] = b
        BY <2>1, <2>2
      <4> QED
        BY <1>2, <2>2, <3>1, <4>1
    <3>2. CASE k # i
      <4>1. k \in (i + 1)..n /\ k \in (i + 1)..(n + 1) /\ k + 1 \in (i + 1)..(n + 1)
        BY <3>2
      <4> QED
        BY <2>1, <2>2, <4>1
    <3> QED
      BY <3>1, <3>2
  <2> QED
    BY <2>2, <2>3 DEF Chain
<1> QED
  BY <1>1, <1>2

\* The places that element i of segment pattern p may stand for.
Stands(p, s) ==
    {t \in (1..Len(p)) \X (0..Len(s)) \X (0..Len(s)) :
        /\ t[2] <= t[3]
        /\ p[t[1]] = "*" \/ (t[3] = t[2] + 1 /\ s[t[3]] = p[t[1]])}

\* What is left of p from i on matches what is left of s from j on.
From(p, s, i, j) == Chain(Stands(p, s), Len(p), Len(s), i, j - 1)

\* Membership in Stands, spelled out.
LEMMA StandsMeans ==
    ASSUME NEW p, NEW s, Len(p) \in Nat, Len(s) \in Nat, NEW i \in 1..Len(p), NEW a \in Nat, NEW b \in Nat
    PROVE  <<i, a, b>> \in Stands(p, s) <=>
              /\ a <= b /\ b <= Len(s)
              /\ p[i] = "*" \/ (b = a + 1 /\ s[b] = p[i])
BY DEF Stands

\* A part of s is one token.
LEMMA PartMeans ==
    ASSUME NEW T, NEW s \in Seq(T), NEW x, NEW a \in 0..Len(s), NEW b \in 0..Len(s), a <= b
    PROVE  (SubSeq(s, a + 1, b) = <<x>>) <=> (b = a + 1 /\ s[b] = x)
<1>1. Len(s) \in Nat /\ a \in Nat /\ b \in Nat
  BY LenProperties
<1>2. /\ Len(SubSeq(s, a + 1, b)) = b - a
      /\ \A i \in 1..(b - a) : SubSeq(s, a + 1, b)[i] = s[a + i]
  BY <1>1 
<1>3. Len(<<x>>) = 1 /\ <<x>>[1] = x
  OBVIOUS
<1>4. ASSUME SubSeq(s, a + 1, b) = <<x>> PROVE b = a + 1 /\ s[b] = x
  <2>1. b - a = 1
    BY <1>2, <1>3, <1>4, Zenon
  <2>2. 1 \in 1..(b - a) /\ b = a + 1
    BY <1>1, <2>1
  <2>3. SubSeq(s, a + 1, b)[1] = s[a + 1]
    BY <1>2, <2>2
  <2> QED
    BY <1>3, <1>4, <2>2, <2>3
<1>5. ASSUME b = a + 1, s[b] = x PROVE SubSeq(s, a + 1, b) = <<x>>
  <2>1. b \in 1..Len(s) /\ s[b] \in T
    BY <1>1, <1>5
  <2>2. SubSeq(s, b, b) = <<s[b]>> \o SubSeq(s, b + 1, b)
    BY <1>1, <2>1, SubSeqRecursiveFirst
  <2>3. SubSeq(s, b + 1, b) = <<>>
    BY <1>1, SubSeqEmpty
  <2>4. <<s[b]>> \o <<>> = <<s[b]>>
    BY <2>1
  <2> QED
    BY <1>5, <2>2, <2>3, <2>4
<1> QED
  BY <1>4, <1>5

\* What a segment pattern means is a chain from the first place.
LEMMA SegmentFrom ==
    ASSUME NEW p, NEW T, NEW s \in Seq(T), Len(p) \in Nat
    PROVE  SegmentMeans(p, s) <=> From(p, s, 1, 1)
<1> DEFINE n == Len(p)
           m == Len(s)
<1>1. n \in Nat /\ m \in Nat /\ 1 - 1 = 0
  BY LenProperties
<1>2. ASSUME SegmentMeans(p, s) PROVE From(p, s, 1, 1)
  <2>1. PICK f \in Cuts(p, s) : \A i \in 1..n : p[i] = "*" \/ SubSeq(s, f[i] + 1, f[i + 1]) = <<p[i]>>
    BY <1>2 DEF SegmentMeans
  <2>2. /\ f \in [1..(n + 1) -> 0..m] /\ f[1] = 0 /\ f[n + 1] = m
        /\ \A i \in 1..n : f[i] <= f[i + 1]
    BY <2>1 DEF Cuts
  <2>3. f \in [1..(n + 1) -> Nat]
    BY <1>1, <2>2
  <2>4. ASSUME NEW i \in 1..n PROVE <<i, f[i], f[i + 1]>> \in Stands(p, s)
    <3>1. f[i] \in 0..m /\ f[i + 1] \in 0..m /\ f[i] <= f[i + 1] /\ f[i] \in Nat /\ f[i + 1] \in Nat
      BY <1>1, <2>2, <2>4
    <3>2. (SubSeq(s, f[i] + 1, f[i + 1]) = <<p[i]>>) <=> (f[i + 1] = f[i] + 1 /\ s[f[i + 1]] = p[i])
      <4>1. PICK a \in 0..Len(s), b \in 0..Len(s) : a = f[i] /\ b = f[i + 1]
        BY <3>1
      <4>0. PICK x : x = p[i]
        OBVIOUS
      <4>2. a <= b
        BY <3>1, <4>1
      <4>3. (SubSeq(s, a + 1, b) = <<x>>) <=> (b = a + 1 /\ s[b] = x)
        BY <4>2, PartMeans
      <4> QED
        BY <4>0, <4>1, <4>3
    <3>3. p[i] = "*" \/ (f[i + 1] = f[i] + 1 /\ s[f[i + 1]] = p[i])
      BY <2>1, <2>4, <3>2
    <3> QED
      BY <1>1, <2>4, <3>1, <3>3, StandsMeans
  <2> QED
    BY <1>1, <2>2, <2>3, <2>4 DEF From, Chain
<1>3. ASSUME From(p, s, 1, 1) PROVE SegmentMeans(p, s)
  <2>1. PICK f \in [1..(n + 1) -> Nat] :
           f[1] = 0 /\ f[n + 1] = m /\ \A k \in 1..n : <<k, f[k], f[k + 1]>> \in Stands(p, s)
    BY <1>1, <1>3 DEF From, Chain
  <2>2. ASSUME NEW i \in 1..n
        PROVE  /\ f[i] <= f[i + 1] /\ f[i] \in 0..m /\ f[i + 1] \in 0..m
               /\ p[i] = "*" \/ SubSeq(s, f[i] + 1, f[i + 1]) = <<p[i]>>
    <3>1. f[i] \in Nat /\ f[i + 1] \in Nat
      BY <1>1, <2>1, <2>2
    <3>2. /\ f[i] <= f[i + 1] /\ f[i + 1] <= m
          /\ p[i] = "*" \/ (f[i + 1] = f[i] + 1 /\ s[f[i + 1]] = p[i])
      <4>1. <<i, f[i], f[i + 1]>> \in Stands(p, s)
        BY <2>1, <2>2
      <4> QED
        BY <1>1, <2>2, <3>1, <4>1, StandsMeans
    <3>3. f[i] \in 0..m /\ f[i + 1] \in 0..m
      BY <1>1, <3>1, <3>2
    <3>4. (SubSeq(s, f[i] + 1, f[i + 1]) = <<p[i]>>) <=> (f[i + 1] = f[i] + 1 /\ s[f[i + 1]] = p[i])
      <4>1. PICK a \in 0..Len(s), b \in 0..Len(s) : a = f[i] /\ b = f[i + 1]
        BY <3>2, <3>3
      <4>0. PICK x : x = p[i]
        OBVIOUS
      <4>2. a <= b
        BY <3>2, <3>3, <4>1
      <4>3. (SubSeq(s, a + 1, b) = <<x>>) <=> (b = a + 1 /\ s[b] = x)
        BY <4>2, PartMeans
      <4> QED
        BY <4>0, <4>1, <4>3
    <3> QED
      BY <3>2, <3>3, <3>4
  <2>3. \A i \in 1..(n + 1) : f[i] \in 0..m
    BY <1>1, <2>1, <2>2
  <2>4. f \in [1..(n + 1) -> 0..m]
    BY <2>1, <2>3
  <2>5. f \in Cuts(p, s)
    BY <2>1, <2>2, <2>4 DEF Cuts
  <2> QED
    BY <2>2, <2>5 DEF SegmentMeans
<1> QED
  BY <1>2, <1>3

\* A pattern used up matches what is used up.
LEMMA FromEnd ==
    ASSUME NEW p, NEW s, Len(p) \in Nat, Len(s) \in Nat, NEW j \in 1..(Len(s) + 1)
    PROVE  From(p, s, Len(p) + 1, j) <=> j = Len(s) + 1
<1>1. PICK a \in Nat : a = j - 1
  OBVIOUS
<1>2. Chain(Stands(p, s), Len(p), Len(s), Len(p) + 1, a) <=> a = Len(s)
  BY ChainEnds
<1> QED
  BY <1>1, <1>2 DEF From

\* A literal takes one token.
LEMMA FromLiteral ==
    ASSUME NEW p, NEW s, Len(p) \in Nat, Len(s) \in Nat, NEW i \in 1..Len(p), NEW j \in 1..(Len(s) + 1),
           p[i] # "*"
    PROVE  From(p, s, i, j) <=> j <= Len(s) /\ s[j] = p[i] /\ From(p, s, i + 1, j + 1)
<1>1. PICK a \in Nat : a = j - 1
  OBVIOUS
<1>2. Chain(Stands(p, s), Len(p), Len(s), i, a) <=>
         \E b \in Nat : <<i, a, b>> \in Stands(p, s) /\ Chain(Stands(p, s), Len(p), Len(s), i + 1, b)
  BY ChainGoesOn
<1>3. \A b \in Nat : <<i, a, b>> \in Stands(p, s) <=> b = j /\ j <= Len(s) /\ s[j] = p[i]
  <2> SUFFICES ASSUME NEW b \in Nat
               PROVE  <<i, a, b>> \in Stands(p, s) <=> b = j /\ j <= Len(s) /\ s[j] = p[i]
    OBVIOUS
  <2>1. <<i, a, b>> \in Stands(p, s) <=>
           /\ a <= b /\ b <= Len(s)
           /\ p[i] = "*" \/ (b = a + 1 /\ s[b] = p[i])
    BY StandsMeans
  <2> QED
    BY <1>1, <2>1
<1>4. j \in Nat /\ (j + 1) - 1 = j
  OBVIOUS
<1> QED
  BY <1>1, <1>2, <1>3, <1>4 DEF From

\* A star takes any number of tokens.
LEMMA FromStar ==
    ASSUME NEW p, NEW s, Len(p) \in Nat, Len(s) \in Nat, NEW i \in 1..Len(p), NEW j \in 1..(Len(s) + 1),
           p[i] = "*"
    PROVE  From(p, s, i, j) <=> \E k \in j..(Len(s) + 1) : From(p, s, i + 1, k)
<1>1. PICK a \in Nat : a = j - 1
  OBVIOUS
<1>2. Chain(Stands(p, s), Len(p), Len(s), i, a) <=>
         \E b \in Nat : <<i, a, b>> \in Stands(p, s) /\ Chain(Stands(p, s), Len(p), Len(s), i + 1, b)
  BY ChainGoesOn
<1>3. \A b \in Nat : <<i, a, b>> \in Stands(p, s) <=> a <= b /\ b <= Len(s)
  BY StandsMeans
<1>4. ASSUME NEW b \in Nat, a <= b, b <= Len(s), Chain(Stands(p, s), Len(p), Len(s), i + 1, b)
      PROVE  \E k \in j..(Len(s) + 1) : From(p, s, i + 1, k)
  <2>1. b + 1 \in j..(Len(s) + 1) /\ (b + 1) - 1 = b
    BY <1>1, <1>4
  <2> QED
    BY <1>4, <2>1 DEF From
<1>5. ASSUME NEW k \in j..(Len(s) + 1), From(p, s, i + 1, k)
      PROVE  \E b \in Nat : a <= b /\ b <= Len(s) /\ Chain(Stands(p, s), Len(p), Len(s), i + 1, b)
  <2>1. k - 1 \in Nat /\ a <= k - 1 /\ k - 1 <= Len(s)
    BY <1>1
  <2> QED
    BY <1>5, <2>1 DEF From
<1>6. From(p, s, i, j) <=> Chain(Stands(p, s), Len(p), Len(s), i, a)
  BY <1>1 DEF From
<1> QED
  BY <1>2, <1>3, <1>4, <1>5, <1>6

\* Against nothing, only stars are left.
LEMMA FromStars ==
    ASSUME NEW p, NEW s, Len(p) \in Nat, Len(s) \in Nat, NEW i \in 1..(Len(p) + 1)
    PROVE  From(p, s, i, Len(s) + 1) <=> \A k \in i..Len(p) : p[k] = "*"
<1> DEFINE n == Len(p)
           j == Len(s) + 1
           S == {l \in Nat : l <= n => (From(p, s, (n + 1) - l, j) <=> \A k \in ((n + 1) - l)..n : p[k] = "*")}
<1>1. j \in 1..(Len(s) + 1) /\ n \in Nat /\ n + 1 - 0 = n + 1
  OBVIOUS
<1>2. 0 \in S
  <2>1. From(p, s, n + 1, j)
    BY <1>1, FromEnd
  <2>2. \A k \in (n + 1)..n : FALSE
    BY <1>1
  <2>3. From(p, s, (n + 1) - 0, j) <=> \A k \in ((n + 1) - 0)..n : p[k] = "*"
    <3>1. PICK x : x = n + 1 /\ x = (n + 1) - 0
      BY <1>1
    <3> QED
      BY <2>1, <2>2, <3>1
  <2> QED
    BY <2>3
<1>3. ASSUME NEW l \in S PROVE l + 1 \in S
  <2>1. l \in Nat /\ l + 1 \in Nat
    OBVIOUS
  <2> SUFFICES ASSUME l + 1 <= n
               PROVE  From(p, s, (n + 1) - (l + 1), j) <=> \A k \in ((n + 1) - (l + 1))..n : p[k] = "*"
    BY <2>1
  <2>2. PICK h \in 1..n : h = (n + 1) - (l + 1) /\ h + 1 = (n + 1) - l
    <3>1. n - l \in 1..n /\ n - l = (n + 1) - (l + 1) /\ (n - l) + 1 = (n + 1) - l
      BY <1>1, <2>1
    <3> QED
      BY <3>1
  <2>3. From(p, s, h + 1, j) <=> \A k \in (h + 1)..n : p[k] = "*"
    BY <2>1, <2>2
  <2>4. (\A k \in h..n : p[k] = "*") <=> p[h] = "*" /\ \A k \in (h + 1)..n : p[k] = "*"
    BY <1>1, <2>2
  <2>5. CASE p[h] = "*"
    <3>1. From(p, s, h, j) <=> \E k \in j..(Len(s) + 1) : From(p, s, h + 1, k)
      BY <1>1, <2>2, <2>5, FromStar
    <3>2. \A k \in j..(Len(s) + 1) : k = j
      BY <1>1
    <3>3. j \in j..(Len(s) + 1)
      BY <1>1
    <3>4. From(p, s, h, j) <=> From(p, s, h + 1, j)
      BY <3>1, <3>2, <3>3
    <3> QED
      BY <2>2, <2>3, <2>4, <2>5, <3>4
  <2>6. CASE p[h] # "*"
    <3>1. ~From(p, s, h, j)
      BY <1>1, <2>2, <2>6, FromLiteral
    <3> QED
      BY <2>2, <2>4, <2>6, <3>1
  <2> QED
    BY <2>5, <2>6
<1>4. S \in SUBSET Nat
  OBVIOUS
<1>5. S = Nat
  <2> HIDE DEF S
  <2> QED
    BY <1>2, <1>3, <1>4, CountingUp
<1>6. PICK l \in Nat : l = (n + 1) - i /\ i = (n + 1) - l
  BY <1>1
<1>7. CASE l <= n
  BY <1>5, <1>6, <1>7
<1>8. l <= n
  BY <1>1, <1>6
<1> QED
  BY <1>7, <1>8

\* A block of literals takes as many tokens.
LEMMA FromBlock ==
    ASSUME NEW p, NEW s, Len(p) \in Nat, Len(s) \in Nat, NEW i \in 1..(Len(p) + 1), NEW j \in 1..(Len(s) + 1),
           NEW l \in Nat, i + l <= Len(p) + 1, \A k \in i..(i + l - 1) : p[k] # "*", From(p, s, i, j)
    PROVE  j + l <= Len(s) + 1 /\ From(p, s, i + l, j + l)
<1> DEFINE S == {k \in Nat : k <= l => j + k <= Len(s) + 1 /\ From(p, s, i + k, j + k)}
<1>1. 0 \in S
  <2>1. i + 0 = i /\ j + 0 = j /\ j <= Len(s) + 1
    OBVIOUS
  <2> QED
    BY <2>1
<1>2. ASSUME NEW k \in S PROVE k + 1 \in S
  <2>1. k \in Nat /\ k + 1 \in Nat
    OBVIOUS
  <2> SUFFICES ASSUME k + 1 <= l PROVE j + (k + 1) <= Len(s) + 1 /\ From(p, s, i + (k + 1), j + (k + 1))
    BY <2>1
  <2>2. j + k <= Len(s) + 1 /\ From(p, s, i + k, j + k)
    BY <2>1
  <2>3. PICK x \in 1..Len(p), y \in 1..(Len(s) + 1) : x = i + k /\ y = j + k
    BY <2>1, <2>2
  <2>4. x \in i..(i + l - 1)
    BY <2>1, <2>3
  <2>5. y <= Len(s) /\ From(p, s, x + 1, y + 1)
    BY <2>2, <2>3, <2>4, FromLiteral
  <2>6. x + 1 = i + (k + 1) /\ y + 1 = j + (k + 1)
    BY <2>1, <2>3
  <2> QED
    BY <2>3, <2>5, <2>6
<1>3. S \in SUBSET Nat
  OBVIOUS
<1>4. S = Nat
  <2> HIDE DEF S
  <2> QED
    BY <1>1, <1>2, <1>3, CountingUp
<1>5. l <= l => j + l <= Len(s) + 1 /\ From(p, s, i + l, j + l)
  BY <1>4
<1> QED
  BY <1>5

----------------------------------------------------------------------------
\* Where the loop of matchOneSegment may be: <<pi, si, star, mark>>.
Places == Nat \X Nat \X Nat \X Nat

\* The equation of matchOneSegment's loop.
IsWalk(f, p, s) ==
    f = [w \in Places |->
            IF w[2] > Len(s) THEN \A k \in w[1]..Len(p) : p[k] = "*"
            ELSE IF w[1] <= Len(p) /\ p[w[1]] = s[w[2]] THEN f[<<w[1] + 1, w[2] + 1, w[3], w[4]>>]
            ELSE IF w[1] <= Len(p) /\ p[w[1]] = "*" THEN f[<<w[1] + 1, w[2], w[1], w[2]>>]
            ELSE w[3] # 0 /\ f[<<w[3] + 1, w[4] + 1, w[3], w[4] + 1>>]]

\* The places from which the loop succeeds, given those it succeeds from later.
WalkFrom(p, s, L) ==
    {w \in Places :
        IF w[2] > Len(s) THEN \A k \in w[1]..Len(p) : p[k] = "*"
        ELSE IF w[1] <= Len(p) /\ p[w[1]] = s[w[2]] THEN <<w[1] + 1, w[2] + 1, w[3], w[4]>> \in L
        ELSE IF w[1] <= Len(p) /\ p[w[1]] = "*" THEN <<w[1] + 1, w[2], w[1], w[2]>> \in L
        ELSE w[3] # 0 /\ <<w[3] + 1, w[4] + 1, w[3], w[4] + 1>> \in L}

\* The equation of the loop has a solution among the sets of accepting places:
\* the least set that WalkFrom does not enlarge.
LEMMA WalkFixed ==
    ASSUME NEW p, NEW s
    PROVE  \E L \in SUBSET Places : L = WalkFrom(p, s, L)
<1> DEFINE Closed == {S \in SUBSET Places : WalkFrom(p, s, S) \subseteq S}
           L == {w \in Places : \A S \in Closed : w \in S}
<1>1. ASSUME NEW A, NEW B, A \subseteq B PROVE WalkFrom(p, s, A) \subseteq WalkFrom(p, s, B)
  BY <1>1 DEF WalkFrom
<1>2. \A S \in Closed : L \subseteq S
  OBVIOUS
<1>3. \A A : WalkFrom(p, s, A) \subseteq Places
  BY DEF WalkFrom
<1>4. ASSUME NEW S \in Closed PROVE WalkFrom(p, s, L) \subseteq S
  <2>1. WalkFrom(p, s, L) \subseteq WalkFrom(p, s, S)
    BY <1>1, <1>2
  <2> QED
    BY <2>1
<1>5. WalkFrom(p, s, L) \subseteq L
  <2>1. ASSUME NEW w \in WalkFrom(p, s, L) PROVE w \in L
    <3>1. w \in Places /\ \A S \in Closed : w \in S
      BY <1>3, <1>4
    <3> QED
      BY <3>1
  <2> QED
    BY <2>1
<1>6. WalkFrom(p, s, L) \in Closed
  <2>1. WalkFrom(p, s, WalkFrom(p, s, L)) \subseteq WalkFrom(p, s, L)
    BY <1>1, <1>5
  <2> QED
    BY <1>3, <2>1
<1>7. L \subseteq WalkFrom(p, s, L)
  BY <1>2, <1>6
<1>8. L \in SUBSET Places /\ L = WalkFrom(p, s, L)
  BY <1>5, <1>7
<1> HIDE DEF L
<1> QED
  BY <1>8

\* So the recursive function that matchOneSegment is modelled by is defined,
\* although its domain has no end.
LEMMA WalkExists ==
    ASSUME NEW p, NEW s
    PROVE  \E f : IsWalk(f, p, s)
<1>1. PICK L \in SUBSET Places : L = WalkFrom(p, s, L)
  BY WalkFixed
<1> DEFINE f == [w \in Places |-> IF w \in L THEN TRUE ELSE FALSE]
           g == [w \in Places |->
            IF w[2] > Len(s) THEN \A k \in w[1]..Len(p) : p[k] = "*"
            ELSE IF w[1] <= Len(p) /\ p[w[1]] = s[w[2]] THEN f[<<w[1] + 1, w[2] + 1, w[3], w[4]>>]
            ELSE IF w[1] <= Len(p) /\ p[w[1]] = "*" THEN f[<<w[1] + 1, w[2], w[1], w[2]>>]
            ELSE w[3] # 0 /\ f[<<w[3] + 1, w[4] + 1, w[3], w[4] + 1>>]]
<1>2. \A v \in Places : f[v] = IF v \in L THEN TRUE ELSE FALSE
  OBVIOUS
<1> HIDE DEF f
<1>3. ASSUME NEW w \in Places PROVE f[w] = g[w]
  <2>1. /\ <<w[1] + 1, w[2] + 1, w[3], w[4]>> \in Places
        /\ <<w[1] + 1, w[2], w[1], w[2]>> \in Places
        /\ <<w[3] + 1, w[4] + 1, w[3], w[4] + 1>> \in Places
    BY DEF Places
  <2>2. w \in L <=> w \in WalkFrom(p, s, L)
    BY <1>1
  <2>3. w \in WalkFrom(p, s, L) <=>
           IF w[2] > Len(s) THEN \A k \in w[1]..Len(p) : p[k] = "*"
           ELSE IF w[1] <= Len(p) /\ p[w[1]] = s[w[2]] THEN <<w[1] + 1, w[2] + 1, w[3], w[4]>> \in L
           ELSE IF w[1] <= Len(p) /\ p[w[1]] = "*" THEN <<w[1] + 1, w[2], w[1], w[2]>> \in L
           ELSE w[3] # 0 /\ <<w[3] + 1, w[4] + 1, w[3], w[4] + 1>> \in L
    BY DEF WalkFrom
  <2>4. g[w] = IF w[2] > Len(s) THEN \A k \in w[1]..Len(p) : p[k] = "*"
            ELSE IF w[1] <= Len(p) /\ p[w[1]] = s[w[2]] THEN f[<<w[1] + 1, w[2] + 1, w[3], w[4]>>]
            ELSE IF w[1] <= Len(p) /\ p[w[1]] = "*" THEN f[<<w[1] + 1, w[2], w[1], w[2]>>]
            ELSE w[3] # 0 /\ f[<<w[3] + 1, w[4] + 1, w[3], w[4] + 1>>]
    OBVIOUS
  <2>5. /\ f[w] = IF w \in L THEN TRUE ELSE FALSE
        /\ f[<<w[1] + 1, w[2] + 1, w[3], w[4]>>] = IF <<w[1] + 1, w[2] + 1, w[3], w[4]>> \in L THEN TRUE ELSE FALSE
        /\ f[<<w[1] + 1, w[2], w[1], w[2]>>] = IF <<w[1] + 1, w[2], w[1], w[2]>> \in L THEN TRUE ELSE FALSE
        /\ f[<<w[3] + 1, w[4] + 1, w[3], w[4] + 1>>] = IF <<w[3] + 1, w[4] + 1, w[3], w[4] + 1>> \in L THEN TRUE ELSE FALSE
    BY <1>2, <2>1
  <2> HIDE DEF g
  <2>6. CASE w[2] > Len(s)
    <3>1. g[w] = \A k \in w[1]..Len(p) : p[k] = "*"
      BY <2>4, <2>6
    <3>2. w \in L <=> \A k \in w[1]..Len(p) : p[k] = "*"
      BY <2>2, <2>3, <2>6
    <3>3. CASE w \in L
      <4>1. f[w] = TRUE
        BY <2>5, <3>3
      <4>2. g[w] = TRUE
        BY <2>5, <3>1, <3>2, <3>3
      <4> QED
        BY <4>1, <4>2
    <3>4. CASE w \notin L
      <4>1. f[w] = FALSE
        BY <2>5, <3>4
      <4>2. ~(\A k \in w[1]..Len(p) : p[k] = "*")
        BY <2>5, <3>2, <3>4
      <4>3. (\A k \in w[1]..Len(p) : p[k] = "*") = FALSE
        BY <4>2, Zenon
      <4>4. g[w] = FALSE
        BY <3>1, <4>3, Zenon
      <4> QED
        BY <4>1, <4>4
    <3> QED
      BY <3>3, <3>4
  <2>7. CASE ~(w[2] > Len(s)) /\ w[1] <= Len(p) /\ p[w[1]] = s[w[2]]
    <3>1. g[w] = f[<<w[1] + 1, w[2] + 1, w[3], w[4]>>]
      BY <2>4, <2>7
    <3>2. w \in L <=> <<w[1] + 1, w[2] + 1, w[3], w[4]>> \in L
      BY <2>2, <2>3, <2>7
    <3> QED
      BY <2>5, <3>1, <3>2
  <2>8. CASE /\ ~(w[2] > Len(s)) /\ ~(w[1] <= Len(p) /\ p[w[1]] = s[w[2]])
             /\ w[1] <= Len(p) /\ p[w[1]] = "*"
    <3>1. g[w] = f[<<w[1] + 1, w[2], w[1], w[2]>>]
      BY <2>4, <2>8
    <3>2. w \in L <=> <<w[1] + 1, w[2], w[1], w[2]>> \in L
      BY <2>2, <2>3, <2>8
    <3> QED
      BY <2>5, <3>1, <3>2
  <2>9. CASE /\ ~(w[2] > Len(s)) /\ ~(w[1] <= Len(p) /\ p[w[1]] = s[w[2]])
             /\ ~(w[1] <= Len(p) /\ p[w[1]] = "*")
    <3>1. g[w] = (w[3] # 0 /\ f[<<w[3] + 1, w[4] + 1, w[3], w[4] + 1>>])
      BY <2>4, <2>9
    <3>2. w \in L <=> w[3] # 0 /\ <<w[3] + 1, w[4] + 1, w[3], w[4] + 1>> \in L
      BY <2>2, <2>3, <2>9
    <3>3. CASE w \in L
      <4>1. f[w] = TRUE
        BY <2>5, <3>3
      <4>2. g[w] = TRUE
        BY <2>5, <3>1, <3>2, <3>3
      <4> QED
        BY <4>1, <4>2
    <3>4. CASE w \notin L
      <4>1. f[w] = FALSE
        BY <2>5, <3>4
      <4>2. ~(w[3] # 0 /\ f[<<w[3] + 1, w[4] + 1, w[3], w[4] + 1>>])
        BY <2>5, <3>2, <3>4
      <4>3. (w[3] # 0 /\ f[<<w[3] + 1, w[4] + 1, w[3], w[4] + 1>>]) = FALSE
        BY <4>2, Zenon
      <4>4. g[w] = FALSE
        BY <3>1, <4>3, Zenon
      <4> QED
        BY <4>1, <4>4
    <3> QED
      BY <3>3, <3>4
  <2> QED
    BY <2>6, <2>7, <2>8, <2>9
<1>4. f = g
  <2>1. f = [w \in Places |-> f[w]] /\ g = [w \in Places |-> g[w]]
    BY DEF f
  <2> HIDE DEF g
  <2> QED
    BY <1>3, <2>1
<1>5. IsWalk(f, p, s)
  BY <1>4 DEF IsWalk
<1> QED
  BY <1>5

\* MatchOneSegment is the value of that function at its start.
LEMMA WalkChosen ==
    ASSUME NEW p, NEW s
    PROVE  MatchOneSegment(p, s) = (CHOOSE f : IsWalk(f, p, s))[<<1, 1, 0, 1>>]
BY DEF MatchOneSegment, IsWalk, Places

\* Where matchOneSegment's loop may be: since the last star it has matched
\* literals only, from mark on.
OnTheWay(p, s, pi, si, star, mark) ==
    /\ pi \in 1..(Len(p) + 1) /\ si \in 1..(Len(s) + 1) /\ star \in 0..Len(p) /\ mark \in 1..si
    /\ star # 0 => /\ star < pi /\ si - mark = pi - (star + 1)
                   /\ \A k \in (star + 1)..(pi - 1) : p[k] # "*"

\* What is left to hope for there: a match from here on, or one behind the last
\* star from a later place.
Hope(p, s, pi, si, star, mark) ==
    \/ From(p, s, pi, si)
    \/ star # 0 /\ \E m \in (mark + 1)..(Len(s) + 1) : From(p, s, star + 1, m)

\* A match behind the last star from a later place passes the literals that
\* were matched since, and is a match from a later place than si.
LEMMA Later ==
    ASSUME NEW p, NEW s, Len(p) \in Nat, Len(s) \in Nat, NEW pi, NEW si, NEW star, NEW mark,
           OnTheWay(p, s, pi, si, star, mark), star # 0,
           NEW m \in (mark + 1)..(Len(s) + 1), From(p, s, star + 1, m)
    PROVE  \E k \in (si + 1)..(Len(s) + 1) : From(p, s, pi, k)
<1>1. /\ pi \in 1..(Len(p) + 1) /\ si \in 1..(Len(s) + 1) /\ star \in 0..Len(p) /\ mark \in 1..si
      /\ star < pi /\ si - mark = pi - (star + 1) /\ \A k \in (star + 1)..(pi - 1) : p[k] # "*"
  BY DEF OnTheWay
<1>2. PICK i \in 1..(Len(p) + 1), j \in 1..(Len(s) + 1), l \in Nat :
         i = star + 1 /\ j = m /\ l = pi - (star + 1)
  BY <1>1
<1>3. i + l <= Len(p) + 1 /\ i + l = pi /\ i + l - 1 = pi - 1
  BY <1>1, <1>2
<1>4. From(p, s, i, j) /\ \A k \in i..(i + l - 1) : p[k] # "*"
  BY <1>1, <1>2, <1>3
<1>5. j + l <= Len(s) + 1 /\ From(p, s, i + l, j + l)
  BY <1>3, <1>4, FromBlock
<1>6. j + l \in (si + 1)..(Len(s) + 1)
  BY <1>1, <1>2, <1>5
<1> QED
  BY <1>3, <1>5, <1>6

\* The name is used up.
LEMMA WalkEnds ==
    ASSUME NEW p, NEW s, Len(p) \in Nat, Len(s) \in Nat, NEW pi, NEW si, NEW star, NEW mark,
           OnTheWay(p, s, pi, si, star, mark), si > Len(s)
    PROVE  Hope(p, s, pi, si, star, mark) <=> \A k \in pi..Len(p) : p[k] = "*"
<1>1. pi \in 1..(Len(p) + 1) /\ si = Len(s) + 1
  BY DEF OnTheWay
<1>2. From(p, s, pi, si) <=> \A k \in pi..Len(p) : p[k] = "*"
  BY <1>1, FromStars
<1>3. ~(star # 0 /\ \E m \in (mark + 1)..(Len(s) + 1) : From(p, s, star + 1, m))
  <2>1. \A k \in (si + 1)..(Len(s) + 1) : FALSE
    BY <1>1
  <2> QED
    BY <2>1, Later
<1> QED
  BY <1>2, <1>3 DEF Hope

\* A literal matches.
LEMMA WalkLiteral ==
    ASSUME NEW p, NEW s, Len(p) \in Nat, Len(s) \in Nat, NoStar(s), NEW pi, NEW si, NEW star, NEW mark,
           OnTheWay(p, s, pi, si, star, mark), ~(si > Len(s)), pi <= Len(p), p[pi] = s[si]
    PROVE  /\ OnTheWay(p, s, pi + 1, si + 1, star, mark)
           /\ Hope(p, s, pi, si, star, mark) <=> Hope(p, s, pi + 1, si + 1, star, mark)
<1>1. /\ pi \in 1..Len(p) /\ si \in 1..Len(s) /\ si \in 1..(Len(s) + 1)
      /\ star \in 0..Len(p) /\ mark \in 1..si /\ p[pi] # "*"
  BY DEF OnTheWay, NoStar
<1>2. From(p, s, pi, si) <=> From(p, s, pi + 1, si + 1)
  BY <1>1, FromLiteral
<1>3. OnTheWay(p, s, pi + 1, si + 1, star, mark)
  <2>1. /\ pi + 1 \in 1..(Len(p) + 1) /\ si + 1 \in 1..(Len(s) + 1) /\ mark \in 1..(si + 1)
        /\ (pi + 1) - 1 = pi
    BY <1>1
  <2>2. ASSUME star # 0
        PROVE  /\ star < pi + 1 /\ (si + 1) - mark = (pi + 1) - (star + 1)
               /\ \A k \in (star + 1)..((pi + 1) - 1) : p[k] # "*"
    <3>1. /\ star < pi /\ si - mark = pi - (star + 1)
          /\ \A k \in (star + 1)..(pi - 1) : p[k] # "*"
      BY <2>2 DEF OnTheWay
    <3>2. \A k \in (star + 1)..((pi + 1) - 1) : k \in (star + 1)..(pi - 1) \/ k = pi
      BY <1>1
    <3> QED
      BY <1>1, <3>1, <3>2
  <2> QED
    BY <1>1, <2>1, <2>2 DEF OnTheWay
<1> QED
  BY <1>2, <1>3 DEF Hope

\* A star: whatever an earlier star could still give, this one can.
LEMMA WalkStar ==
    ASSUME NEW p, NEW s, Len(p) \in Nat, Len(s) \in Nat, NEW pi, NEW si, NEW star, NEW mark,
           OnTheWay(p, s, pi, si, star, mark), ~(si > Len(s)), pi <= Len(p), p[pi] = "*"
    PROVE  /\ OnTheWay(p, s, pi + 1, si, pi, si)
           /\ Hope(p, s, pi, si, star, mark) <=> Hope(p, s, pi + 1, si, pi, si)
<1>1. pi \in 1..Len(p) /\ si \in 1..Len(s) /\ si \in 1..(Len(s) + 1)
  BY DEF OnTheWay
<1>2. OnTheWay(p, s, pi + 1, si, pi, si)
  <2>1. /\ pi + 1 \in 1..(Len(p) + 1) /\ pi \in 0..Len(p) /\ si \in 1..si /\ pi < pi + 1
        /\ si - si = (pi + 1) - (pi + 1) /\ \A k \in (pi + 1)..((pi + 1) - 1) : FALSE
    BY <1>1
  <2> QED
    BY <1>1, <2>1 DEF OnTheWay
<1>3. From(p, s, pi, si) <=> \E k \in si..(Len(s) + 1) : From(p, s, pi + 1, k)
  BY <1>1, FromStar
<1>4. \A k : k \in si..(Len(s) + 1) <=> k = si \/ k \in (si + 1)..(Len(s) + 1)
  BY <1>1
<1>5. Hope(p, s, pi + 1, si, pi, si) <=> From(p, s, pi, si)
  <2>1. pi # 0
    BY <1>1
  <2> QED
    BY <1>3, <1>4, <2>1 DEF Hope
<1>6. ASSUME star # 0, NEW m \in (mark + 1)..(Len(s) + 1), From(p, s, star + 1, m)
      PROVE  From(p, s, pi, si)
  <2>1. PICK k \in (si + 1)..(Len(s) + 1) : From(p, s, pi, k)
    BY <1>6, Later
  <2>2. k \in 1..(Len(s) + 1)
    BY <1>1
  <2>3. PICK h \in k..(Len(s) + 1) : From(p, s, pi + 1, h)
    BY <1>1, <2>1, <2>2, FromStar
  <2>4. h \in si..(Len(s) + 1)
    BY <1>1, <2>2
  <2> QED
    BY <1>3, <2>3, <2>4
<1> QED
  BY <1>2, <1>5, <1>6 DEF Hope

\* Neither: the last star takes one token more, if there is one.
LEMMA WalkBack ==
    ASSUME NEW p, NEW s, Len(p) \in Nat, Len(s) \in Nat, NEW pi, NEW si, NEW star, NEW mark,
           OnTheWay(p, s, pi, si, star, mark), ~(si > Len(s)),
           ~(pi <= Len(p) /\ p[pi] = s[si]), ~(pi <= Len(p) /\ p[pi] = "*")
    PROVE  /\ star = 0 => ~Hope(p, s, pi, si, star, mark)
           /\ star # 0 => /\ OnTheWay(p, s, star + 1, mark + 1, star, mark + 1)
                          /\ Hope(p, s, pi, si, star, mark) <=> Hope(p, s, star + 1, mark + 1, star, mark + 1)
<1>1. /\ pi \in 1..(Len(p) + 1) /\ si \in 1..Len(s) /\ si \in 1..(Len(s) + 1)
      /\ star \in 0..Len(p) /\ mark \in 1..si
  BY DEF OnTheWay
<1>2. ~From(p, s, pi, si)
  <2>1. CASE pi \in 1..Len(p)
    <3>1. p[pi] # "*" /\ s[si] # p[pi]
      BY <2>1
    <3> QED
      BY <1>1, <2>1, <3>1, FromLiteral
  <2>2. CASE pi = Len(p) + 1
    BY <1>1, <2>2, FromEnd
  <2> QED
    BY <1>1, <2>1, <2>2
<1>3. ASSUME star # 0
      PROVE  /\ OnTheWay(p, s, star + 1, mark + 1, star, mark + 1)
             /\ Hope(p, s, pi, si, star, mark) <=> Hope(p, s, star + 1, mark + 1, star, mark + 1)
  <2>1. /\ star + 1 \in 1..(Len(p) + 1) /\ mark + 1 \in 1..(Len(s) + 1) /\ mark + 1 \in 1..(mark + 1)
        /\ star < star + 1 /\ (mark + 1) - (mark + 1) = (star + 1) - (star + 1)
        /\ \A k \in (star + 1)..((star + 1) - 1) : FALSE
    BY <1>1
  <2>2. OnTheWay(p, s, star + 1, mark + 1, star, mark + 1)
    BY <1>1, <2>1 DEF OnTheWay
  <2>3. \A k : k \in (mark + 1)..(Len(s) + 1) <=> k = mark + 1 \/ k \in ((mark + 1) + 1)..(Len(s) + 1)
    BY <1>1
  <2> QED
    BY <1>2, <1>3, <2>2, <2>3 DEF Hope
<1> QED
  BY <1>2, <1>3 DEF Hope

\* The places stay within pattern and name.
LEMMA WalkBounds ==
    ASSUME NEW p, NEW s, Len(p) \in Nat, Len(s) \in Nat,
           NEW a, NEW b, NEW c, NEW d, OnTheWay(p, s, a, b, c, d)
    PROVE  /\ a \in 1..(Len(p) + 1) /\ b \in 1..(Len(s) + 1) /\ c \in 0..Len(p)
           /\ d \in 1..b /\ d \in 1..(Len(s) + 1)
BY DEF OnTheWay

\* The equation, one turn of the loop at a time.
WalkValue(f, p, s, a, b, c, d) ==
    IF b > Len(s) THEN \A k \in a..Len(p) : p[k] = "*"
    ELSE IF a <= Len(p) /\ p[a] = s[b] THEN f[<<a + 1, b + 1, c, d>>]
    ELSE IF a <= Len(p) /\ p[a] = "*" THEN f[<<a + 1, b, a, b>>]
    ELSE c # 0 /\ f[<<c + 1, d + 1, c, d + 1>>]

\* One turn of the loop.
LEMMA WalkUnfolds ==
    ASSUME NEW p, NEW s, NEW f, IsWalk(f, p, s), NEW a \in Nat, NEW b \in Nat, NEW c \in Nat, NEW d \in Nat
    PROVE  f[<<a, b, c, d>>] = WalkValue(f, p, s, a, b, c, d)
<1>1. <<a, b, c, d>> \in Places
  BY DEF Places
<1>2. PICK w : w = <<a, b, c, d>>
  OBVIOUS
<1>3. w \in Places /\ w[1] = a /\ w[2] = b /\ w[3] = c /\ w[4] = d
  BY <1>1, <1>2
<1>4. f[w] = IF w[2] > Len(s) THEN \A k \in w[1]..Len(p) : p[k] = "*"
             ELSE IF w[1] <= Len(p) /\ p[w[1]] = s[w[2]] THEN f[<<w[1] + 1, w[2] + 1, w[3], w[4]>>]
             ELSE IF w[1] <= Len(p) /\ p[w[1]] = "*" THEN f[<<w[1] + 1, w[2], w[1], w[2]>>]
             ELSE w[3] # 0 /\ f[<<w[3] + 1, w[4] + 1, w[3], w[4] + 1>>]
  BY <1>3 DEF IsWalk
<1> QED
  BY <1>2, <1>3, <1>4 DEF WalkValue

\* What the loop answers, from wherever it may be.
LEMMA WalkHopes ==
    ASSUME NEW p, NEW s, Len(p) \in Nat, Len(s) \in Nat, NoStar(s), NEW f, IsWalk(f, p, s),
           NEW pi, NEW si, NEW star, NEW mark, OnTheWay(p, s, pi, si, star, mark)
    PROVE  f[<<pi, si, star, mark>>] <=> Hope(p, s, pi, si, star, mark)
<1> DEFINE Right(a, b, c, d) == f[<<a, b, c, d>>] <=> Hope(p, s, a, b, c, d)
           Outer == {n \in Nat : \A a, b, c, d :
                        OnTheWay(p, s, a, b, c, d) /\ (Len(s) + 1) - d < n => Right(a, b, c, d)}
<1>2. 0 \in Outer
  <2>1. ASSUME NEW a, NEW b, NEW c, NEW d, OnTheWay(p, s, a, b, c, d) PROVE ~((Len(s) + 1) - d < 0)
    <3>1. d \in 1..(Len(s) + 1)
      BY <2>1, WalkBounds
    <3> QED
      BY <3>1
  <2> QED
    BY <2>1
<1>3. ASSUME NEW n \in Outer PROVE n + 1 \in Outer
  <2>1. /\ n \in Nat /\ n + 1 \in Nat
        /\ \A a, b, c, d : OnTheWay(p, s, a, b, c, d) /\ (Len(s) + 1) - d < n => Right(a, b, c, d)
    OBVIOUS
  <2> DEFINE Inner == {m \in Nat : \A a, b, c, d :
                          /\ OnTheWay(p, s, a, b, c, d) /\ (Len(s) + 1) - d < n + 1
                          /\ (Len(p) + 1) - a < m
                          => Right(a, b, c, d)}
  <2>2. 0 \in Inner
    <3>1. ASSUME NEW a, NEW b, NEW c, NEW d, OnTheWay(p, s, a, b, c, d) PROVE ~((Len(p) + 1) - a < 0)
      <4>1. a \in 1..(Len(p) + 1)
        BY <3>1, WalkBounds
      <4> QED
        BY <4>1
    <3> QED
      BY <3>1
  <2>3. ASSUME NEW m \in Inner PROVE m + 1 \in Inner
    <3>1. /\ m \in Nat /\ m + 1 \in Nat
          /\ \A a, b, c, d : /\ OnTheWay(p, s, a, b, c, d) /\ (Len(s) + 1) - d < n + 1
                             /\ (Len(p) + 1) - a < m
                             => Right(a, b, c, d)
      OBVIOUS
    <3> SUFFICES ASSUME NEW a, NEW b, NEW c, NEW d, OnTheWay(p, s, a, b, c, d),
                        (Len(s) + 1) - d < n + 1, (Len(p) + 1) - a < m + 1
                 PROVE  Right(a, b, c, d)
      BY <3>1
    <3>2. /\ a \in 1..(Len(p) + 1) /\ b \in 1..(Len(s) + 1) /\ c \in 0..Len(p) /\ d \in 1..b
      BY WalkBounds
    <3>0. f[<<a, b, c, d>>] = WalkValue(f, p, s, a, b, c, d)
      <4>1. a \in Nat /\ b \in Nat /\ c \in Nat /\ d \in Nat
        BY <3>2
      <4> QED
        BY <4>1, WalkUnfolds
    <3>3. CASE b > Len(s)
      <4>1. Hope(p, s, a, b, c, d) <=> \A k \in a..Len(p) : p[k] = "*"
        BY <3>3, WalkEnds
      <4>2. f[<<a, b, c, d>>] <=> \A k \in a..Len(p) : p[k] = "*"
        BY <3>0, <3>3 DEF WalkValue
      <4> QED
        BY <4>1, <4>2
    <3>4. CASE ~(b > Len(s)) /\ a <= Len(p) /\ p[a] = s[b]
      <4>1. /\ OnTheWay(p, s, a + 1, b + 1, c, d)
            /\ Hope(p, s, a, b, c, d) <=> Hope(p, s, a + 1, b + 1, c, d)
        BY <3>4, WalkLiteral
      <4>2. (Len(p) + 1) - (a + 1) < m
        BY <3>1, <3>2
      <4>3. Right(a + 1, b + 1, c, d)
        BY <3>1, <4>1, <4>2
      <4>4. f[<<a, b, c, d>>] = f[<<a + 1, b + 1, c, d>>]
        BY <3>0, <3>4 DEF WalkValue
      <4> QED
        BY <4>1, <4>3, <4>4
    <3>5. CASE ~(b > Len(s)) /\ ~(a <= Len(p) /\ p[a] = s[b]) /\ a <= Len(p) /\ p[a] = "*"
      <4>1. /\ OnTheWay(p, s, a + 1, b, a, b)
            /\ Hope(p, s, a, b, c, d) <=> Hope(p, s, a + 1, b, a, b)
        BY <3>5, WalkStar
      <4>2. (Len(p) + 1) - (a + 1) < m /\ (Len(s) + 1) - b < n + 1
        BY <2>1, <3>1, <3>2
      <4>3. Right(a + 1, b, a, b)
        BY <3>1, <4>1, <4>2
      <4>4. f[<<a, b, c, d>>] = f[<<a + 1, b, a, b>>]
        BY <3>0, <3>5 DEF WalkValue
      <4> QED
        BY <4>1, <4>3, <4>4
    <3>6. CASE ~(b > Len(s)) /\ ~(a <= Len(p) /\ p[a] = s[b]) /\ ~(a <= Len(p) /\ p[a] = "*")
      <4>1. f[<<a, b, c, d>>] <=> c # 0 /\ f[<<c + 1, d + 1, c, d + 1>>]
        BY <3>0, <3>6 DEF WalkValue
      <4>2. CASE c = 0
        BY <3>6, <4>1, <4>2, WalkBack
      <4>3. CASE c # 0
        <5>1. /\ OnTheWay(p, s, c + 1, d + 1, c, d + 1)
              /\ Hope(p, s, a, b, c, d) <=> Hope(p, s, c + 1, d + 1, c, d + 1)
          BY <3>6, <4>3, WalkBack
        <5>2. (Len(s) + 1) - (d + 1) < n
          BY <2>1, <3>2
        <5>3. Right(c + 1, d + 1, c, d + 1)
          BY <2>1, <5>1, <5>2
        <5> QED
          BY <4>1, <4>3, <5>1, <5>3
      <4> QED
        BY <4>2, <4>3
    <3> QED
      BY <3>3, <3>4, <3>5, <3>6
  <2>4. Inner \in SUBSET Nat
    OBVIOUS
  <2>5. Inner = Nat
    <3> HIDE DEF Inner
    <3> QED
      BY <2>2, <2>3, <2>4, CountingUp
  <2> SUFFICES ASSUME NEW a, NEW b, NEW c, NEW d, OnTheWay(p, s, a, b, c, d), (Len(s) + 1) - d < n + 1
               PROVE  Right(a, b, c, d)
    BY <2>1
  <2>6. a \in 1..(Len(p) + 1)
    BY WalkBounds
  <2>7. PICK m \in Nat : m = ((Len(p) + 1) - a) + 1
    BY <2>6
  <2>8. m \in Inner /\ (Len(p) + 1) - a < m
    <3> HIDE DEF Inner
    <3> QED
      BY <2>5, <2>6, <2>7
  <2> QED
    BY <2>8
<1>4. Outer \in SUBSET Nat
  OBVIOUS
<1>5. Outer = Nat
  <2> HIDE DEF Outer
  <2> QED
    BY <1>2, <1>3, <1>4, CountingUp
<1>6. mark \in 1..(Len(s) + 1)
  BY WalkBounds
<1>7. PICK n \in Nat : n = ((Len(s) + 1) - mark) + 1
  BY <1>6
<1>8. n \in Outer /\ (Len(s) + 1) - mark < n
  <2> HIDE DEF Outer
  <2> QED
    BY <1>5, <1>6, <1>7
<1> QED
  BY <1>8

\* The two-pointer matcher computes what a segment pattern means.
LEMMA SegmentMatches ==
    ASSUME NEW p, NEW T, NEW s \in Seq(T), Len(p) \in Nat, NoStar(s)
    PROVE  MatchOneSegment(p, s) <=> SegmentMeans(p, s)
<1> DEFINE f == CHOOSE g : IsWalk(g, p, s)
<1>1. IsWalk(f, p, s) /\ MatchOneSegment(p, s) = f[<<1, 1, 0, 1>>]
  BY WalkExists, WalkChosen
<1> HIDE DEF f
<1>2. Len(s) \in Nat
  BY LenProperties
<1>3. OnTheWay(p, s, 1, 1, 0, 1)
  BY <1>2 DEF OnTheWay
<1>4. f[<<1, 1, 0, 1>>] <=> Hope(p, s, 1, 1, 0, 1)
  BY <1>1, <1>2, <1>3, WalkHopes
<1>5. Hope(p, s, 1, 1, 0, 1) <=> From(p, s, 1, 1)
  BY DEF Hope
<1> QED
  BY <1>1, <1>4, <1>5, SegmentFrom

----------------------------------------------------------------------------
\* The segments that element i of a glob may stand for, and what is left of
\* the glob from i on matches what is left of the name from j on.
Takes(pat, name) ==
    {t \in (1..Len(pat)) \X (0..Len(name)) \X (0..Len(name)) :
        /\ t[2] <= t[3]
        /\ pat[t[1]] = DoubleStar \/ (t[3] = t[2] + 1 /\ SegmentMeans(pat[t[1]], name[t[3]]))}
GlobFrom(pat, name, i, j) == Chain(Takes(pat, name), Len(pat), Len(name), i, j - 1)

\* Membership in Takes, spelled out.
LEMMA TakesMeans ==
    ASSUME NEW pat, NEW name, Len(pat) \in Nat, Len(name) \in Nat, NEW i \in 1..Len(pat),
           NEW a \in Nat, NEW b \in Nat
    PROVE  <<i, a, b>> \in Takes(pat, name) <=>
              /\ a <= b /\ b <= Len(name)
              /\ pat[i] = DoubleStar \/ (b = a + 1 /\ SegmentMeans(pat[i], name[b]))
BY DEF Takes

\* What a glob means is a chain from the first segment.
LEMMA GlobIsChain ==
    ASSUME NEW pat, NEW name, Len(pat) \in Nat, Len(name) \in Nat
    PROVE  GlobMeans(pat, name) <=> GlobFrom(pat, name, 1, 1)
<1> DEFINE n == Len(pat)
           m == Len(name)
<1>1. n \in Nat /\ m \in Nat /\ 1 - 1 = 0
  OBVIOUS
<1>2. ASSUME GlobMeans(pat, name) PROVE GlobFrom(pat, name, 1, 1)
  <2>1. PICK f \in Cuts(pat, name) : \A i \in 1..n :
           pat[i] = DoubleStar \/ (f[i + 1] = f[i] + 1 /\ SegmentMeans(pat[i], name[f[i + 1]]))
    BY <1>2 DEF GlobMeans
  <2>2. /\ f \in [1..(n + 1) -> 0..m] /\ f[1] = 0 /\ f[n + 1] = m
        /\ \A i \in 1..n : f[i] <= f[i + 1]
    BY <2>1 DEF Cuts
  <2>3. f \in [1..(n + 1) -> Nat]
    BY <1>1, <2>2
  <2>4. ASSUME NEW i \in 1..n PROVE <<i, f[i], f[i + 1]>> \in Takes(pat, name)
    <3>1. PICK a \in Nat, b \in Nat : a = f[i] /\ b = f[i + 1]
      BY <1>1, <2>3, <2>4
    <3>2. a <= b /\ b <= m
      BY <1>1, <2>2, <2>4, <3>1
    <3>3. pat[i] = DoubleStar \/ (b = a + 1 /\ SegmentMeans(pat[i], name[b]))
      BY <2>1, <2>4, <3>1
    <3>4. <<i, a, b>> \in Takes(pat, name)
      BY <1>1, <2>4, <3>2, <3>3, TakesMeans
    <3> QED
      BY <3>1, <3>4
  <2> QED
    BY <1>1, <2>2, <2>3, <2>4 DEF GlobFrom, Chain
<1>3. ASSUME GlobFrom(pat, name, 1, 1) PROVE GlobMeans(pat, name)
  <2>1. PICK f \in [1..(n + 1) -> Nat] :
           f[1] = 0 /\ f[n + 1] = m /\ \A k \in 1..n : <<k, f[k], f[k + 1]>> \in Takes(pat, name)
    BY <1>1, <1>3 DEF GlobFrom, Chain
  <2>2. ASSUME NEW i \in 1..n
        PROVE  /\ f[i] <= f[i + 1] /\ f[i] \in 0..m /\ f[i + 1] \in 0..m
               /\ pat[i] = DoubleStar \/ (f[i + 1] = f[i] + 1 /\ SegmentMeans(pat[i], name[f[i + 1]]))
    <3>1. PICK a \in Nat, b \in Nat : a = f[i] /\ b = f[i + 1]
      BY <1>1, <2>1, <2>2
    <3>2. <<i, a, b>> \in Takes(pat, name)
      BY <2>1, <2>2, <3>1
    <3>3. /\ a <= b /\ b <= m
          /\ pat[i] = DoubleStar \/ (b = a + 1 /\ SegmentMeans(pat[i], name[b]))
      BY <1>1, <2>2, <3>2, TakesMeans
    <3> QED
      BY <1>1, <3>1, <3>3
  <2>3. \A i \in 1..(n + 1) : f[i] \in 0..m
    BY <1>1, <2>1, <2>2
  <2>4. f \in [1..(n + 1) -> 0..m]
    BY <2>1, <2>3
  <2>5. f \in Cuts(pat, name)
    BY <2>1, <2>2, <2>4 DEF Cuts
  <2> QED
    BY <2>2, <2>5 DEF GlobMeans
<1> QED
  BY <1>2, <1>3

\* One turn of matchSegments, given the answers for shorter patterns.
RestValue(f, pat, seg, i, j) ==
    IF i > Len(pat) THEN j > Len(seg)
    ELSE IF pat[i] = DoubleStar
         THEN i = Len(pat) \/ \E k \in j..(Len(seg) + 1) : f[<<i + 1, k>>]
    ELSE /\ j <= Len(seg) /\ MatchOneSegment(pat[i], seg[j])
         /\ f[<<i + 1, j + 1>>]
Corners(pat, seg) == (1..(Len(pat) + 1)) \X (1..(Len(seg) + 1))
IsRest(f, pat, seg) == f = [w \in Corners(pat, seg) |-> RestValue(f, pat, seg, w[1], w[2])]

\* MatchSegments is the value of its recursive function at its start.
LEMMA RestChosen ==
    ASSUME NEW pat, NEW seg
    PROVE  MatchSegments(pat, seg) = (CHOOSE f : IsRest(f, pat, seg))[<<1, 1>>]
BY DEF MatchSegments, IsRest, RestValue, Corners

\* If f answers right for the pattern from i + 1 on, RestValue does from i on.
LEMMA RestRight ==
    ASSUME NEW f, NEW pat \in Texts, NEW seg, Plain(seg),
           NEW i \in 1..(Len(pat) + 1), NEW j \in 1..(Len(seg) + 1),
           i <= Len(pat) => \A k \in 1..(Len(seg) + 1) : f[<<i + 1, k>>] <=> GlobFrom(pat, seg, i + 1, k)
    PROVE  RestValue(f, pat, seg, i, j) <=> GlobFrom(pat, seg, i, j)
<1> DEFINE n == Len(pat)
           m == Len(seg)
<1>1. n \in Nat /\ m \in Nat /\ seg \in Seq(Seq(STRING))
  BY LenProperties DEF Plain, Texts
<1>2. PICK a \in Nat : a = j - 1 /\ j = a + 1
  BY <1>1
<1>3. CASE i > n
  <2>1. i = n + 1
    BY <1>1, <1>3
  <2>2. Chain(Takes(pat, seg), n, m, n + 1, a) <=> a = m
    BY <1>1, ChainEnds
  <2>3. RestValue(f, pat, seg, i, j) <=> j > m
    BY <1>3 DEF RestValue
  <2>4. j > m <=> a = m
    BY <1>1, <1>2
  <2> QED
    BY <1>2, <2>1, <2>2, <2>3, <2>4 DEF GlobFrom
<1>4. CASE i <= n
  <2>1. i \in 1..n /\ ~(i > n)
    BY <1>1, <1>4
  <2>2. Chain(Takes(pat, seg), n, m, i, a) <=>
           \E b \in Nat : <<i, a, b>> \in Takes(pat, seg) /\ Chain(Takes(pat, seg), n, m, i + 1, b)
    BY <1>1, <2>1, ChainGoesOn
  <2>3. \A b \in Nat : <<i, a, b>> \in Takes(pat, seg) <=>
              /\ a <= b /\ b <= m
              /\ pat[i] = DoubleStar \/ (b = a + 1 /\ SegmentMeans(pat[i], seg[b]))
    BY <1>1, <2>1, TakesMeans
  <2>4. GlobFrom(pat, seg, i, j) <=> Chain(Takes(pat, seg), n, m, i, a)
    BY <1>2 DEF GlobFrom
  <2>5. \A k \in 1..(m + 1) : f[<<i + 1, k>>] <=> Chain(Takes(pat, seg), n, m, i + 1, k - 1)
    BY <1>4 DEF GlobFrom
  <2>6. CASE pat[i] = DoubleStar
    <3>1. RestValue(f, pat, seg, i, j) <=> i = n \/ \E k \in j..(m + 1) : f[<<i + 1, k>>]
      BY <2>1, <2>6 DEF RestValue
    <3>2. GlobFrom(pat, seg, i, j) <=>
             \E b \in Nat : a <= b /\ b <= m /\ Chain(Takes(pat, seg), n, m, i + 1, b)
      BY <2>2, <2>3, <2>4, <2>6
    <3>3. ASSUME NEW k \in j..(m + 1), f[<<i + 1, k>>] PROVE GlobFrom(pat, seg, i, j)
      <4>1. k \in 1..(m + 1) /\ k - 1 \in Nat /\ a <= k - 1 /\ k - 1 <= m
        BY <1>1, <1>2
      <4> QED
        BY <2>5, <3>2, <3>3, <4>1
    <3>4. ASSUME NEW b \in Nat, a <= b, b <= m, Chain(Takes(pat, seg), n, m, i + 1, b)
          PROVE  \E k \in j..(m + 1) : f[<<i + 1, k>>]
      <4>1. b + 1 \in j..(m + 1) /\ b + 1 \in 1..(m + 1) /\ (b + 1) - 1 = b
        BY <1>1, <1>2, <3>4
      <4> QED
        BY <2>5, <3>4, <4>1
    <3>5. ASSUME i = n PROVE GlobFrom(pat, seg, i, j)
      <4>1. Chain(Takes(pat, seg), n, m, i + 1, m)
        BY <1>1, <3>5, ChainEnds
      <4>2. a <= m
        BY <1>1, <1>2
      <4> QED
        BY <1>1, <3>2, <4>1, <4>2
    <3> QED
      BY <3>1, <3>2, <3>3, <3>4, <3>5
  <2>7. CASE pat[i] # DoubleStar
    <3>1. RestValue(f, pat, seg, i, j) <=>
             j <= m /\ MatchOneSegment(pat[i], seg[j]) /\ f[<<i + 1, j + 1>>]
      BY <2>1, <2>7 DEF RestValue
    <3>2. GlobFrom(pat, seg, i, j) <=>
             \E b \in Nat : /\ a <= b /\ b <= m /\ b = a + 1 /\ SegmentMeans(pat[i], seg[b])
                            /\ Chain(Takes(pat, seg), n, m, i + 1, b)
      BY <2>2, <2>3, <2>4, <2>7
    <3>3. GlobFrom(pat, seg, i, j) <=>
             j <= m /\ SegmentMeans(pat[i], seg[j]) /\ Chain(Takes(pat, seg), n, m, i + 1, j)
      <4>1. j \in Nat /\ a <= j
        BY <1>2
      <4> QED
        BY <1>2, <3>2, <4>1
    <3>4. ASSUME j <= m
          PROVE  /\ MatchOneSegment(pat[i], seg[j]) <=> SegmentMeans(pat[i], seg[j])
                 /\ f[<<i + 1, j + 1>>] <=> Chain(Takes(pat, seg), n, m, i + 1, j)
      <4>1. j \in 1..m /\ j + 1 \in 1..(m + 1) /\ (j + 1) - 1 = j
        BY <1>1, <3>4
      <4>2. seg[j] \in Seq(STRING) /\ NoStar(seg[j]) /\ pat[i] \in Seq(STRING)
        <5>1. \A T : \A q \in Seq(T) : \A k \in 1..Len(q) : q[k] \in T
          BY ElementOfSeq
        <5>2. seg[j] \in Seq(STRING) /\ pat[i] \in Seq(STRING)
          BY <1>1, <2>1, <4>1, <5>1, Zenon DEF Texts
        <5> QED
          BY <4>1, <5>2 DEF Plain
      <4>3. Len(pat[i]) \in Nat
        BY <4>2, LenProperties
      <4>4. MatchOneSegment(pat[i], seg[j]) <=> SegmentMeans(pat[i], seg[j])
        <5>1. PICK p, s \in Seq(STRING) : p = pat[i] /\ s = seg[j]
          BY <4>2
        <5>2. MatchOneSegment(p, s) <=> SegmentMeans(p, s)
          BY <4>2, <4>3, <5>1, SegmentMatches
        <5> QED
          BY <5>1, <5>2
      <4> QED
        BY <2>5, <4>1, <4>4
    <3> QED
      BY <3>1, <3>3, <3>4
  <2> QED
    BY <2>6, <2>7
<1> QED
  BY <1>1, <1>3, <1>4

\* That function is defined: GlobFrom is one.
LEMMA RestExists ==
    ASSUME NEW pat \in Texts, NEW seg, Plain(seg)
    PROVE  \E f : IsRest(f, pat, seg)
<1> DEFINE f == [w \in Corners(pat, seg) |-> IF GlobFrom(pat, seg, w[1], w[2]) THEN TRUE ELSE FALSE]
           g == [w \in Corners(pat, seg) |-> RestValue(f, pat, seg, w[1], w[2])]
<1>1. \A v \in Corners(pat, seg) : f[v] = IF GlobFrom(pat, seg, v[1], v[2]) THEN TRUE ELSE FALSE
  OBVIOUS
<1> HIDE DEF f
<1>2. \A i \in 1..(Len(pat) + 1) : \A j \in 1..(Len(seg) + 1) :
         f[<<i, j>>] <=> GlobFrom(pat, seg, i, j)
  <2> SUFFICES ASSUME NEW i \in 1..(Len(pat) + 1), NEW j \in 1..(Len(seg) + 1)
               PROVE  f[<<i, j>>] <=> GlobFrom(pat, seg, i, j)
    OBVIOUS
  <2>1. <<i, j>> \in Corners(pat, seg) /\ <<i, j>>[1] = i /\ <<i, j>>[2] = j
    BY DEF Corners
  <2>2. f[<<i, j>>] = IF GlobFrom(pat, seg, i, j) THEN TRUE ELSE FALSE
    BY <1>1, <2>1
  <2> QED
    BY <2>2
<1>3. ASSUME NEW w \in Corners(pat, seg) PROVE f[w] = g[w]
  <2>1. PICK i \in 1..(Len(pat) + 1), j \in 1..(Len(seg) + 1) : w = <<i, j>> /\ w[1] = i /\ w[2] = j
    BY DEF Corners
  <2>2. Len(pat) \in Nat /\ (i <= Len(pat) => i + 1 \in 1..(Len(pat) + 1))
    BY LenProperties
  <2>3. RestValue(f, pat, seg, i, j) <=> GlobFrom(pat, seg, i, j)
    BY <1>2, <2>2, RestRight
  <2>4. g[w] = RestValue(f, pat, seg, i, j)
    BY <2>1
  <2>5. f[w] = IF GlobFrom(pat, seg, i, j) THEN TRUE ELSE FALSE
    BY <1>1, <2>1
  <2>6. RestValue(f, pat, seg, i, j) \in BOOLEAN
    <3>1. CASE i > Len(pat)
      <4>1. RestValue(f, pat, seg, i, j) = (j > Len(seg))
        BY <3>1 DEF RestValue
      <4> QED
        BY <4>1
    <3>2. CASE ~(i > Len(pat)) /\ pat[i] = DoubleStar
      <4>1. RestValue(f, pat, seg, i, j) = (i = Len(pat) \/ \E k \in j..(Len(seg) + 1) : f[<<i + 1, k>>])
        BY <3>2 DEF RestValue
      <4> QED
        BY <4>1, Zenon
    <3>3. CASE ~(i > Len(pat)) /\ ~(pat[i] = DoubleStar)
      <4>1. RestValue(f, pat, seg, i, j) =
               (/\ j <= Len(seg) /\ MatchOneSegment(pat[i], seg[j])
                /\ f[<<i + 1, j + 1>>])
        BY <3>3 DEF RestValue
      <4> QED
        BY <4>1, Zenon
    <3> QED
      BY <3>1, <3>2, <3>3
  <2> HIDE DEF g
  <2>7. CASE GlobFrom(pat, seg, i, j)
    BY <2>3, <2>4, <2>5, <2>6, <2>7
  <2>8. CASE ~GlobFrom(pat, seg, i, j)
    BY <2>3, <2>4, <2>5, <2>6, <2>8
  <2> QED
    BY <2>7, <2>8
<1>4. f = g
  <2>1. f = [w \in Corners(pat, seg) |-> f[w]] /\ g = [w \in Corners(pat, seg) |-> g[w]]
    BY DEF f
  <2> HIDE DEF g
  <2> QED
    BY <1>3, <2>1
<1>5. IsRest(f, pat, seg)
  BY <1>4 DEF IsRest
<1> QED
  BY <1>5

\* matchSegments computes what a glob means.
LEMMA SegmentsMatch ==
    ASSUME NEW pat \in Texts, NEW seg, Plain(seg)
    PROVE  MatchSegments(pat, seg) <=> GlobMeans(pat, seg)
<1> DEFINE n == Len(pat)
           f == CHOOSE g : IsRest(g, pat, seg)
           Known == {l \in Nat : l <= n =>
                       \A j \in 1..(Len(seg) + 1) : f[<<(n + 1) - l, j>>] <=> GlobFrom(pat, seg, (n + 1) - l, j)}
<1>1. n \in Nat /\ Len(seg) \in Nat
  BY LenProperties DEF Plain, Texts
<1>2. IsRest(f, pat, seg) /\ MatchSegments(pat, seg) = f[<<1, 1>>]
  BY RestExists, RestChosen
<1> HIDE DEF f
<1>3. ASSUME NEW i \in 1..(n + 1), NEW j \in 1..(Len(seg) + 1)
      PROVE  f[<<i, j>>] = RestValue(f, pat, seg, i, j)
  <2>1. PICK w : w = <<i, j>>
    OBVIOUS
  <2>2. w \in Corners(pat, seg) /\ w[1] = i /\ w[2] = j
    BY <2>1 DEF Corners
  <2>3. f[w] = RestValue(f, pat, seg, w[1], w[2])
    BY <1>2, <2>2 DEF IsRest
  <2> QED
    BY <2>1, <2>2, <2>3
<1>4. 0 \in Known
  <2>1. PICK i \in 1..(n + 1) : i = n + 1 /\ i = (n + 1) - 0 /\ ~(i <= n)
    <3>1. n + 1 \in 1..(n + 1) /\ n + 1 = (n + 1) - 0 /\ ~(n + 1 <= n)
      BY <1>1
    <3> QED
      BY <3>1
  <2>2. \A j \in 1..(Len(seg) + 1) : f[<<i, j>>] <=> GlobFrom(pat, seg, i, j)
    BY <1>3, <2>1, RestRight
  <2> QED
    BY <2>1, <2>2
<1>5. ASSUME NEW l \in Known PROVE l + 1 \in Known
  <2>1. l \in Nat /\ l + 1 \in Nat
    OBVIOUS
  <2> SUFFICES ASSUME l + 1 <= n
               PROVE  \A j \in 1..(Len(seg) + 1) :
                         f[<<(n + 1) - (l + 1), j>>] <=> GlobFrom(pat, seg, (n + 1) - (l + 1), j)
    BY <2>1
  <2>2. PICK i \in 1..(n + 1) : i = (n + 1) - (l + 1) /\ i + 1 = (n + 1) - l
    <3>1. n - l \in 1..(n + 1) /\ n - l = (n + 1) - (l + 1) /\ (n - l) + 1 = (n + 1) - l
      BY <1>1, <2>1
    <3> QED
      BY <3>1
  <2>3. \A k \in 1..(Len(seg) + 1) : f[<<i + 1, k>>] <=> GlobFrom(pat, seg, i + 1, k)
    <3>1. l <= n
      BY <1>1, <2>1
    <3> QED
      BY <2>2, <3>1
  <2>4. \A j \in 1..(Len(seg) + 1) : RestValue(f, pat, seg, i, j) <=> GlobFrom(pat, seg, i, j)
    BY <2>3, RestRight
  <2>5. \A j \in 1..(Len(seg) + 1) : f[<<i, j>>] <=> GlobFrom(pat, seg, i, j)
    BY <1>3, <2>4
  <2> QED
    BY <2>2, <2>5
<1>6. Known \in SUBSET Nat
  OBVIOUS
<1>7. Known = Nat
  <2> HIDE DEF Known
  <2> QED
    BY <1>4, <1>5, <1>6, CountingUp
<1>8. n <= n /\ (n + 1) - n = 1 /\ 1 \in 1..(Len(seg) + 1)
  BY <1>1
<1>9. \A j \in 1..(Len(seg) + 1) : f[<<(n + 1) - n, j>>] <=> GlobFrom(pat, seg, (n + 1) - n, j)
  BY <1>1, <1>7, <1>8
<1>10. f[<<1, 1>>] <=> GlobFrom(pat, seg, 1, 1)
  BY <1>8, <1>9
<1> QED
  BY <1>1, <1>2, <1>10, GlobIsChain

\* MatchGlob, with its own rule for the empty pattern, agrees.
LEMMA GlobMatches ==
    ASSUME NEW pat \in Texts, NEW name, Plain(name)
    PROVE  MatchGlob(pat, name) <=> GlobMeans(pat, name)
<1>1. CASE pat # EmptyText
  BY <1>1, SegmentsMatch DEF MatchGlob
<1>2. CASE pat = EmptyText
  <2>1. name \in Seq(Seq(STRING)) /\ Len(name) \in Nat
    BY LenProperties DEF Plain, Texts
  <2>0. Len(pat) = 1 /\ pat[1] = <<>> /\ Len(<<>>) = 0 /\ pat[1] # DoubleStar
    BY <1>2 DEF EmptyText, DoubleStar
  <2>2. PICK e : e = <<>> /\ Len(pat) = 1 /\ pat[1] = e /\ Len(e) = 0 /\ e # DoubleStar
    BY <2>0
  <2>3. GlobMeans(pat, name) <=> Len(name) = 1 /\ SegmentMeans(e, name[1])
    <3>1. GlobMeans(pat, name) <=> GlobFrom(pat, name, 1, 1)
      BY <2>1, <2>2, GlobIsChain
    <3>2. PICK n \in Nat, i \in 1..1, a \in Nat : n = Len(pat) /\ n = 1 /\ i = 1 /\ a = 0
      <4>1. 1 \in Nat /\ 1 \in 1..1 /\ 0 \in Nat
        OBVIOUS
      <4> QED
        BY <2>2, <4>1
    <3>3. GlobFrom(pat, name, 1, 1) <=> Chain(Takes(pat, name), n, Len(name), i, a)
      BY <3>2 DEF GlobFrom
    <3>4. Chain(Takes(pat, name), n, Len(name), i, a) <=>
             \E b \in Nat : <<i, a, b>> \in Takes(pat, name) /\ Chain(Takes(pat, name), n, Len(name), i + 1, b)
      <4>1. i \in 1..n
        BY <3>2
      <4> QED
        BY <2>1, <4>1, ChainGoesOn
    <3>5. \A b \in Nat : Chain(Takes(pat, name), n, Len(name), n + 1, b) <=> b = Len(name)
      BY <2>1, ChainEnds
    <3>6. \A b \in Nat : <<i, a, b>> \in Takes(pat, name) <=>
              /\ a <= b /\ b <= Len(name)
              /\ pat[i] = DoubleStar \/ (b = a + 1 /\ SegmentMeans(pat[i], name[b]))
      <4>1. i \in 1..Len(pat) /\ Len(pat) \in Nat
        BY <3>2
      <4> QED
        BY <2>1, <4>1, TakesMeans
    <3>7. i + 1 = n + 1 /\ a + 1 = 1 /\ pat[i] = e /\ pat[i] # DoubleStar
      BY <2>2, <3>2
    <3>8. Chain(Takes(pat, name), n, Len(name), i, a) <=>
             \E b \in Nat : b = 1 /\ SegmentMeans(e, name[b]) /\ b = Len(name)
      <4>1. \A b \in Nat : <<i, a, b>> \in Takes(pat, name) <=>
                 b <= Len(name) /\ b = 1 /\ SegmentMeans(e, name[b])
        <5> SUFFICES ASSUME NEW b \in Nat
                     PROVE  <<i, a, b>> \in Takes(pat, name) <=>
                               b <= Len(name) /\ b = 1 /\ SegmentMeans(e, name[b])
          OBVIOUS
        <5>1. <<i, a, b>> \in Takes(pat, name) <=>
                 a <= b /\ b <= Len(name) /\ b = a + 1 /\ SegmentMeans(e, name[b])
          BY <3>6, <3>7
        <5>2. a <= b /\ (b = a + 1 <=> b = 1)
          BY <3>2
        <5> QED
          BY <5>1, <5>2
      <4>2. \A b \in Nat : Chain(Takes(pat, name), n, Len(name), i + 1, b) <=> b = Len(name)
        BY <3>5, <3>7
      <4>3. Len(name) <= Len(name)
        BY <2>1
      <4>4. \A b \in Nat :
               <<i, a, b>> \in Takes(pat, name) /\ Chain(Takes(pat, name), n, Len(name), i + 1, b) <=>
               b = 1 /\ SegmentMeans(e, name[b]) /\ b = Len(name)
        BY <4>1, <4>2, <4>3, Zenon
      <4> QED
        BY <3>4, <4>4, Zenon
    <3> QED
      BY <2>1, <3>1, <3>3, <3>8
  <2>4. ASSUME Len(name) = 1
        PROVE  SegmentMeans(e, name[1]) <=> name[1] = <<>>
    <3>1. PICK s \in Seq(STRING) : s = name[1]
      BY <2>1, <2>4, ElementOfSeq
    <3>2. Len(s) \in Nat /\ (s = <<>> <=> Len(s) = 0)
      BY LenProperties, EmptySeq
    <3>3. SegmentMeans(e, s) <=> From(e, s, 1, 1)
      BY <2>2, SegmentFrom
    <3>4. From(e, s, Len(e) + 1, 1) <=> 1 = Len(s) + 1
      BY <2>2, <3>2, FromEnd
    <3> QED
      BY <2>2, <3>1, <3>2, <3>3, <3>4
  <2>5. MatchGlob(pat, name) <=> name = EmptyText
    BY <1>2 DEF MatchGlob
  <2>6. name = EmptyText <=> Len(name) = 1 /\ name[1] = <<>>
    BY <2>1 DEF EmptyText
  <2> QED
    BY <2>3, <2>4, <2>5, <2>6
<1> QED
  BY <1>1, <1>2

----------------------------------------------------------------------------
(***************************************************************************)
(* Resolution: the scan of Resolve, step by step.                          *)
(***************************************************************************)

ScanStep(s, recs, i, b) ==
    IF Applies(recs[i], s) /\ (b = 0 \/ Better(recs[i], recs[b])) THEN i ELSE b

IsScan(f, s, recs, n) == f = [i \in 0..n |-> IF i = 0 THEN 0 ELSE ScanStep(s, recs, i, f[i - 1])]

\* The scan's values exist.
LEMMA ScanExists ==
    ASSUME NEW s, NEW recs, NEW N \in Nat
    PROVE  \E f : IsScan(f, s, recs, N)
<1> DEFINE S == {m \in Nat : \E f : f = [i \in 0..m |-> IF i = 0 THEN 0 ELSE ScanStep(s, recs, i, f[i - 1])]}
<1>1. 0 \in S
  <2> DEFINE f == [i \in 0..0 |-> 0]
  <2>1. f = [i \in 0..0 |-> IF i = 0 THEN 0 ELSE ScanStep(s, recs, i, f[i - 1])]
    OBVIOUS
  <2> HIDE DEF f
  <2> QED
    BY <2>1
<1>2. ASSUME NEW m \in S PROVE m + 1 \in S
  <2>1. PICK f : f = [i \in 0..m |-> IF i = 0 THEN 0 ELSE ScanStep(s, recs, i, f[i - 1])]
    OBVIOUS
  <2>2. m \in Nat
    OBVIOUS
  <2>3. /\ \A i \in 0..m : i = 0 => f[i] = 0
        /\ \A i \in 0..m : i # 0 => f[i] = ScanStep(s, recs, i, f[i - 1])
    BY <2>1
  <2> DEFINE h == [i \in 0..(m + 1) |-> IF i <= m THEN f[i] ELSE ScanStep(s, recs, m + 1, f[m])]
  <2>4. ASSUME NEW i \in 0..(m + 1)
        PROVE  h[i] = IF i = 0 THEN 0 ELSE ScanStep(s, recs, i, h[i - 1])
    <3>1. CASE i = 0
      BY <2>2, <2>3, <3>1
    <3>2. CASE i # 0 /\ i <= m
      <4>1. i \in 0..m /\ i - 1 \in 0..(m + 1) /\ i - 1 <= m
        BY <2>2, <3>2
      <4>2. h[i] = f[i] /\ h[i - 1] = f[i - 1]
        BY <2>2, <3>2, <4>1
      <4> QED
        BY <2>3, <3>2, <4>1, <4>2
    <3>3. CASE i = m + 1
      <4>1. i - 1 = m /\ i # 0 /\ m \in 0..(m + 1) /\ ~(i <= m)
        BY <2>2, <3>3
      <4>2. h[i] = ScanStep(s, recs, i, f[m]) /\ h[m] = f[m]
        BY <2>2, <3>3, <4>1
      <4> QED
        BY <4>1, <4>2
    <3> QED
      BY <2>2, <3>1, <3>2, <3>3
  <2>5. h = [i \in 0..(m + 1) |-> IF i = 0 THEN 0 ELSE ScanStep(s, recs, i, h[i - 1])]
    <3>1. PICK k : k = [i \in 0..(m + 1) |-> IF i = 0 THEN 0 ELSE ScanStep(s, recs, i, h[i - 1])]
      OBVIOUS
    <3>2. \A i \in 0..(m + 1) : h[i] = k[i]
      BY <2>4, <3>1
    <3>3. h = [i \in 0..(m + 1) |-> h[i]] /\ k = [i \in 0..(m + 1) |-> k[i]]
      BY <3>1
    <3> HIDE DEF h
    <3> QED
      BY <3>1, <3>2, <3>3
  <2> HIDE DEF h
  <2>6. m + 1 \in Nat
    BY <2>2
  <2> QED
    BY <2>5, <2>6
<1>3. S \in SUBSET Nat
  OBVIOUS
<1> HIDE DEF S
<1>4. S = Nat
  BY <1>1, <1>2, <1>3, CountingUp
<1> QED
  BY <1>4 DEF S, IsScan

\* Better is a strict order of merit.
LEMMA BetterOrder ==
    ASSUME NEW a, NEW b, NEW c, a.version \in Int, b.version \in Int, c.version \in Int,
           a.id \in Nat, b.id \in Nat, c.id \in Nat
    PROVE  /\ ~Better(a, a)
           /\ Better(a, b) /\ ~Better(c, b) => ~Better(c, a)
<1>1. \A sel : Specificity(sel) \in Nat
  BY DEF Specificity
<1>2. PICK x \in Nat, y \in Nat, z \in Nat :
         x = Specificity(a.scope) /\ y = Specificity(b.scope) /\ z = Specificity(c.scope)
  BY <1>1
<1> QED
  BY <1>2 DEF Better

\* b wins among the first n records.
Wins(s, recs, n, b) ==
    /\ b \in 0..n
    /\ b = 0 => \A k \in 1..n : ~Applies(recs[k], s)
    /\ b # 0 => Applies(recs[b], s) /\ \A k \in 1..n : Applies(recs[k], s) => ~Better(recs[k], recs[b])

\* Resolve returns a winner among all records, 0 when none applies.
LEMMA ResolveWins ==
    ASSUME NEW s, NEW recs, Len(recs) \in Nat,
           \A i \in 1..Len(recs) : recs[i].version \in Int /\ recs[i].id \in Nat
    PROVE  Wins(s, recs, Len(recs), Resolve(s, recs))
<1> DEFINE N == Len(recs)
           best == CHOOSE f : IsScan(f, s, recs, N)
<1>1. IsScan(best, s, recs, N)
  BY ScanExists
<1>2. Resolve(s, recs) = best[N]
  BY DEF Resolve, ScanStep, IsScan
<1> HIDE DEF best
<1>3. /\ \A i \in 0..N : i = 0 => best[i] = 0
      /\ \A i \in 0..N : i # 0 => best[i] = ScanStep(s, recs, i, best[i - 1])
  BY <1>1 DEF IsScan
<1> DEFINE S == {n \in Nat : n <= N => Wins(s, recs, n, best[n])}
<1>4. 0 \in S
  BY <1>3 DEF Wins
<1>5. ASSUME NEW n \in S PROVE n + 1 \in S
  <2>1. n \in Nat /\ n + 1 \in Nat /\ (n <= N => Wins(s, recs, n, best[n]))
    OBVIOUS
  <2> SUFFICES ASSUME n + 1 <= N PROVE Wins(s, recs, n + 1, best[n + 1])
    BY <2>1
  <2>2. Wins(s, recs, n, best[n]) /\ n + 1 \in 0..N /\ n + 1 # 0 /\ (n + 1) - 1 = n
    BY <2>1
  <2>3. PICK b : b = best[n]
    OBVIOUS
  <2>4. best[n + 1] = ScanStep(s, recs, n + 1, b)
    BY <1>3, <2>2, <2>3
  <2>5. b \in 0..n /\ Wins(s, recs, n, b)
    BY <2>2, <2>3 DEF Wins
  <2>6. \A k \in 1..(n + 1) : k \in 1..n \/ k = n + 1
    BY <2>1
  <2>7. \A k \in 1..(n + 1) : k \in 1..N
    BY <2>1
  <2>8. CASE Applies(recs[n + 1], s) /\ (b = 0 \/ Better(recs[n + 1], recs[b]))
    <3>1. best[n + 1] = n + 1
      BY <2>4, <2>8 DEF ScanStep
    <3>2. ASSUME NEW k \in 1..(n + 1), Applies(recs[k], s) PROVE ~Better(recs[k], recs[n + 1])
      <4>1. n + 1 \in 1..N /\ k \in 1..N
        BY <2>1, <2>7
      <4>2. CASE k = n + 1
        BY <4>1, <4>2, BetterOrder
      <4>3. CASE k \in 1..n
        <5>1. b # 0 /\ ~Better(recs[k], recs[b]) /\ b \in 1..N
          BY <2>1, <2>5, <3>2, <4>3 DEF Wins
        <5>2. Better(recs[n + 1], recs[b])
          BY <2>8, <5>1
        <5> QED
          BY <4>1, <5>1, <5>2, BetterOrder
      <4> QED
        BY <2>6, <4>2, <4>3
    <3> QED
      BY <2>1, <2>8, <3>1, <3>2 DEF Wins
  <2>9. CASE ~(Applies(recs[n + 1], s) /\ (b = 0 \/ Better(recs[n + 1], recs[b])))
    <3>1. best[n + 1] = b
      BY <2>4, <2>9 DEF ScanStep
    <3>2. b \in 0..(n + 1)
      BY <2>1, <2>5
    <3>3. b = 0 => \A k \in 1..(n + 1) : ~Applies(recs[k], s)
      BY <2>5, <2>6, <2>9 DEF Wins
    <3>4. b # 0 => Applies(recs[b], s) /\ \A k \in 1..(n + 1) : Applies(recs[k], s) => ~Better(recs[k], recs[b])
      BY <2>5, <2>6, <2>9 DEF Wins
    <3> QED
      BY <3>1, <3>2, <3>3, <3>4 DEF Wins
  <2> QED
    BY <2>8, <2>9
<1>6. S \in SUBSET Nat
  OBVIOUS
<1>7. S = Nat
  <2> HIDE DEF S
  <2> QED
    BY <1>4, <1>5, <1>6, CountingUp
<1> QED
  BY <1>2, <1>7

----------------------------------------------------------------------------
(***************************************************************************)
(* Clean plans are decided.                                                *)
(***************************************************************************)

\* No step of a completion adds a run or takes one away, or submits a
\* candidate: who is not there yet stands down for nobody.
SameRuns(d, e) == \A m \in Cands : /\ DOMAIN e.run[m] = DOMAIN d.run[m]
                                   /\ e.cand[m] = "absent" <=> d.cand[m] = "absent"
Aside(d) == \A m \in Cands : d.cand[m] = "absent" => ~StandsDown(cluster[m].relation)

\* A verdict, with the supersession that follows it, adds no row.
LEMMA RenderedRuns ==
    ASSUME NEW d, IsDb(d), Aside(d), NEW c \in Cands, NEW verb
    PROVE  SameRuns(d, RenderDecision(d, c, verb))
<1> DEFINE said == [d EXCEPT !.decisions[c] = @ \cup {verb}]
           won == Mark(said, c, "eligible", {"validating", "repairing"})
           lost == Mark(said, c, "rejected", {"validating", "repairing"})
<1>1. RenderDecision(d, c, verb) \in {PropagateSupersession(won, c), lost, said}
  BY DEF RenderDecision
<1>2. /\ IsDb(said) /\ said.cand = d.cand /\ said.run = d.run /\ said.evidence = d.evidence
      /\ said.decisions[c] # {} /\ \A m \in Cands \ {c} : Alike(d, said, m)
  BY VerdictSaid
<1> HIDE DEF said
<1>3. "eligible" \in CandStates /\ "rejected" \in CandStates
  BY DEF CandStates
<1>4. /\ IsDb(won) /\ won.run = said.run /\ lost.run = said.run
      /\ \A m \in Cands \ {c} : won.cand[m] = said.cand[m] /\ lost.cand[m] = said.cand[m]
      /\ won.cand[c] = IF said.cand[c] \in {"validating", "repairing"} THEN "eligible" ELSE said.cand[c]
      /\ lost.cand[c] = IF said.cand[c] \in {"validating", "repairing"} THEN "rejected" ELSE said.cand[c]
  BY <1>2, <1>3, Marked DEF Alike
<1> HIDE DEF won, lost
<1>7. SameRuns(d, won) /\ SameRuns(d, lost) /\ SameRuns(d, said)
  BY <1>2, <1>4 DEF SameRuns
<1> DEFINE e == PropagateSupersession(won, c)
<1>5. SameRuns(won, e)
  <2>1. /\ \A m \in Cands \ Losers(c) : Alike(won, e, m)
        /\ \A m \in Losers(c) :
              /\ e.cand[m] = IF Terminal(won.cand[m]) THEN won.cand[m] ELSE "superseded"
              /\ e.run[m] = CancelRuns(won, m).run[m]
    BY <1>4, Superseded
  <2> HIDE DEF e
  <2>2. \A m \in Cands : DOMAIN CancelRuns(won, m).run[m] = DOMAIN won.run[m]
    BY <1>4, RunsCancelled
  <2>3. \A m \in Losers(c) : won.cand[m] # "absent"
    BY <1>7 DEF Losers, Aside, SameRuns
  <2>4. Losers(c) \subseteq Cands
    BY DEF Losers
  <2>5. \A m \in Losers(c) : e.cand[m] # "absent" /\ DOMAIN e.run[m] = DOMAIN won.run[m]
    BY <2>1, <2>2, <2>3, <2>4
  <2>6. \A m \in Cands \ Losers(c) : e.cand[m] = won.cand[m] /\ e.run[m] = won.run[m]
    BY <2>1 DEF Alike
  <2> QED
    BY <2>3, <2>5, <2>6 DEF SameRuns
<1> HIDE DEF e
<1>6. RenderDecision(d, c, verb) \in {e, lost, said}
  BY <1>1 DEF e
<1>8. SameRuns(d, e)
  BY <1>5, <1>7 DEF SameRuns
<1> QED
  BY <1>6, <1>7, <1>8

\* Nor does a run that succeeded ...
LEMMA SucceededRuns ==
    ASSUME NEW d, IsDb(d), Aside(d), NEW c \in Cands, NEW j, NEW x
    PROVE  SameRuns(d, OnRunSucceeded(d, c, j, x))
<1>1. PICK counts, record :
         OnRunSucceeded(d, c, j, x) =
            MaybeRenderEligible(IF counts THEN [d EXCEPT !.evidence[c] = @ \cup {record}] ELSE d, c)
  BY DEF OnRunSucceeded
<1> DEFINE d1 == IF counts THEN [d EXCEPT !.evidence[c] = @ \cup {record}] ELSE d
<1>2. IsDb(d1) /\ d1.run = d.run /\ d1.cand = d.cand
  BY DEF IsDb
<1>3. OnRunSucceeded(d, c, j, x) = MaybeRenderEligible(d1, c)
  BY <1>1
<1> HIDE DEF d1
<1>4. MaybeRenderEligible(d1, c) \in {RenderDecision(d1, c, "eligible"), d1}
  BY DEF MaybeRenderEligible
<1>5. SameRuns(d1, RenderDecision(d1, c, "eligible"))
  BY <1>2, RenderedRuns DEF Aside
<1> QED
  BY <1>2, <1>3, <1>4, <1>5 DEF SameRuns

\* ... nor one that failed, retried, repaired or decided ...
LEMMA FailedRuns ==
    ASSUME NEW d, IsDb(d), Aside(d), NEW c \in Cands, NEW j \in DOMAIN d.run[c], NEW x
    PROVE  SameRuns(d, OnRunFailed(d, c, j, x))
<1> DEFINE again == [d EXCEPT !.run[c][j].state = "queued", !.run[c][j].attempt = @ + 1]
           fc == Classify(Redact(x.log), NoForensics)
<1>1. OnRunFailed(d, c, j, x) \in {again, RenderDecision(d, c, "rejected"), AuthorizeOrDefer(d, c, fc),
                                   RenderDecision(d, c, "deferred")}
  BY DEF OnRunFailed
<1>2. SameRuns(d, again)
  <2>1. \E r : Rewrites(d, again, c, j, r)
    BY RetryWritten
  <2> HIDE DEF again
  <2> QED
    BY <2>1 DEF Rewrites, SameRuns
<1> HIDE DEF again
<1>3. \A verb : SameRuns(d, RenderDecision(d, c, verb))
  BY RenderedRuns
<1>4. SameRuns(d, AuthorizeOrDefer(d, c, fc))
  <2>1. PICK ruling : AuthorizeOrDefer(d, c, fc) =
           IF ruling.granted
           THEN Mark([d EXCEPT !.envelope[c] = @ \cup {ruling}], c, "repairing", {"validating"})
           ELSE RenderDecision(d, c, "deferred")
    BY DEF AuthorizeOrDefer
  <2> DEFINE paid == [d EXCEPT !.envelope[c] = @ \cup {ruling}]
  <2>2. IsDb(paid) /\ paid.run = d.run /\ paid.cand = d.cand
    BY DEF IsDb
  <2> HIDE DEF paid
  <2>3. "repairing" \in CandStates
    BY DEF CandStates
  <2> DEFINE e == Mark(paid, c, "repairing", {"validating"})
  <2>4. /\ e.run = d.run /\ \A m \in Cands \ {c} : e.cand[m] = d.cand[m]
        /\ e.cand[c] = IF d.cand[c] \in {"validating"} THEN "repairing" ELSE d.cand[c]
    BY <2>2, <2>3, Marked DEF Alike
  <2> HIDE DEF e
  <2>5. SameRuns(d, e)
    BY <2>4 DEF SameRuns
  <2> QED
    BY <1>3, <2>1, <2>5 DEF e, paid
<1> QED
  BY <1>1, <1>2, <1>3, <1>4

\* A candidate that was drafted has a policy, and one that is not there yet has
\* no cluster.
Settled(c) ==
    /\ draft[c] # Unjoined => Resolve(Subject(c), Registry) \in DOMAIN Registry
    /\ cand[c] = "absent" => cluster[c] = Unjoined
SettledInv == \A c \in Cands : Settled(c)

\* ... nor the completion as a whole.
LEMMA CompletedRuns ==
    ASSUME AssuranceInv, SettledInv, NEW c \in Cands, NEW j \in DOMAIN run[c], NEW name \in DOMAIN Work,
           Complete(c, j, name)
    PROVE  /\ \A m \in Cands : DOMAIN run'[m] = DOMAIN run[m]
           /\ \A m \in Cands : cand'[m] = "absent" <=> cand[m] = "absent"
<1> DEFINE x == Reported(Work[name])
           done == [Db EXCEPT !.run[c][j].state = x.status, !.run[c][j].report = name]
<1>0. Feed[name] = Reported(Work[name])
  BY DEF Feed
<1>1. /\ \E d \in {OnRunSucceeded(done, c, j, x), OnRunFailed(done, c, j, x)} : run' = d.run /\ cand' = d.cand
      /\ Completes(Work[name])
  BY <1>0 DEF Complete
<1>2. IsDb(Db) /\ j \in DOMAIN Db.run[c]
  BY DbFields DEF AssuranceInv, DbOK
<1>3. x.status \in RunStates
  BY <1>1, WorkTyped, ReportedStatus DEF Statuses, RunStates
<1>4. \E r : Rewrites(Db, done, c, j, r)
  <2> HIDE DEF x
  <2> QED
    BY <1>2, <1>3, ReportWritten
<1> HIDE DEF done
<1>5. IsDb(done) /\ SameRuns(Db, done) /\ done.cand = cand
  BY <1>4, DbFields DEF Rewrites, SameRuns
<1>8. Aside(done)
  BY <1>5 DEF Aside, SettledInv, Settled, Unjoined, StandsDown
<1>6. j \in DOMAIN done.run[c]
  BY <1>2, <1>5 DEF SameRuns
<1>7. SameRuns(done, OnRunSucceeded(done, c, j, x)) /\ SameRuns(done, OnRunFailed(done, c, j, x))
  BY <1>5, <1>6, <1>8, SucceededRuns, FailedRuns
<1> QED
  BY <1>1, <1>5, <1>7, DbFields DEF SameRuns

\* Nobody is drafted in the initial state.
LEMMA SettledInit ==
    Init => SettledInv
BY DEF Init, SettledInv, Settled

\* Drafting asks Resolve, submitting fills the cluster, and a completion does
\* neither.
LEMMA SettledNext ==
    ASSUME AssuranceInv, SettledInv, [Next]_vars
    PROVE  SettledInv'
<1>0. \A m \in Cands : cast' = cast => (Subject(m))' = Subject(m)
  BY DEF Subject
<1>1. ASSUME NEW c \in Cands, DraftCandidate(c) PROVE SettledInv'
  <2>1. /\ UNCHANGED <<cast, cand, cluster>> /\ Resolve(Subject(c), Registry) # 0
        /\ \A m \in Cands : m # c => draft'[m] = draft[m]
    BY <1>1 DEF DraftCandidate
  <2>2. Resolve(Subject(c), Registry) \in DOMAIN Registry
    <3>1. Wins(Subject(c), Registry, Len(Registry), Resolve(Subject(c), Registry))
      BY RegistryTyped, ResolveWins
    <3> QED
      BY <2>1, <3>1, RegistryTyped DEF Wins
  <2> QED
    BY <1>0, <2>1, <2>2 DEF SettledInv, Settled
<1>2. ASSUME NEW c \in Cands, SubmitCandidate(c) PROVE SettledInv'
  <2>1. UNCHANGED <<cast, draft>> /\ \A m \in Cands \ {c} : cand'[m] = cand[m] /\ cluster'[m] = cluster[m]
    BY <1>2 DEF SubmitCandidate
  <2>2. cand'[c] # "absent"
    <3>1. cand \in [Cands -> CandStates]
      BY DbFields DEF AssuranceInv, DbOK, IsDb
    <3> QED
      BY <1>2, <3>1 DEF SubmitCandidate
  <2> QED
    BY <1>0, <2>1, <2>2 DEF SettledInv, Settled
<1>3. ASSUME NEW c \in Cands, RunFinishes(c) PROVE SettledInv'
  <2>1. PICK j \in DOMAIN cast[c].reports \cap DOMAIN run[c] :
           \E name \in cast[c].reports[j] : Complete(c, j, name)
    BY <1>3 DEF RunFinishes
  <2>2. PICK name \in cast[c].reports[j] : Complete(c, j, name)
    BY <2>1
  <2>3. name \in DOMAIN Work
    BY <2>2, CastsTyped DEF AssuranceInv
  <2>4. UNCHANGED <<cast, draft, cluster>>
    BY <2>2 DEF Complete
  <2>5. \A m \in Cands : cand'[m] = "absent" <=> cand[m] = "absent"
    BY <2>2, <2>3, CompletedRuns
  <2> QED
    BY <1>0, <2>4, <2>5 DEF SettledInv, Settled
<1>4. ASSUME UNCHANGED vars PROVE SettledInv'
  BY <1>0, <1>4 DEF vars, SettledInv, Settled
<1> QED
  BY <1>1, <1>2, <1>3, <1>4 DEF Next

\* The compiled-in packs ask only for what the planner plans.
THEOREM DefaultRegistryServable ==
    Servable(DefaultRegistry)
<1>1. \A r \in {"low", "medium", "high"} :
         RequiredEvidenceByRisk[r] # {} /\ RequiredEvidenceByRisk[r] \subseteq Plannable
  <2>1. {"hermetic_build", "selected_unit", "api_compat", "payment_contract", "idempotency_race",
         "sast_diff"} \subseteq Plannable
    <3>1. {Job("hermetic_build", "hermetic_build"), Job("selected_unit_tests", "selected_unit"),
           Job("sast_diff_scan", "sast_diff")} \subseteq Tier1Jobs(FALSE)
      BY DEF Tier1Jobs
    <3>2. Job("api_compat", "api_compat") \in Tier2Base(FALSE)
      BY DEF Tier2Base
    <3>3. {Job("payment_contract_check", "payment_contract"),
           Job("idempotency_race_probe", "idempotency_race")} \subseteq PolicyJobs
      BY DEF PolicyJobs
    <3>4. \A n, k : Job(n, k).kind = k
      BY DEF Job
    <3>5. \A n, k : Job(n, k) \in Tier0Jobs \cup Tier1Jobs(FALSE) \cup Tier2Base(FALSE) \cup PolicyJobs
                     => k \in Plannable
      BY <3>4 DEF Plannable
    <3> QED
      BY <3>1, <3>2, <3>3, <3>5
  <2> QED
    BY <2>1 DEF RequiredEvidenceByRisk
<1>2. RiskClasses \ {"critical"} = {"low", "medium", "high"}
  BY DEF RiskClasses
<1>3. \A i \in DOMAIN DefaultRegistry : DefaultRegistry[i].required = RequiredEvidenceByRisk
  <2>1. CatchAllPolicyPack.required = RequiredEvidenceByRisk /\ "required" \in DOMAIN CatchAllPolicyPack
    BY DEF CatchAllPolicyPack
  <2>2. DefaultPolicyPack.required = RequiredEvidenceByRisk
    BY <2>1 DEF DefaultPolicyPack
  <2>3. \A i \in DOMAIN DefaultRegistry : DefaultRegistry[i] \in {CatchAllPolicyPack, DefaultPolicyPack}
    BY DEF DefaultRegistry
  <2> QED
    BY <2>1, <2>2, <2>3
<1> QED
  BY <1>1, <1>2, <1>3 DEF Servable

\* A plan has a job for every kind that its policy asks for and the catalogs
\* know, widened or not: widening swaps a suite for its full version.
LEMMA PlanCovers ==
    ASSUME NEW in, NEW pack, NEW k \in pack.required[in.risk], k \in Plannable
    PROVE  \E j \in Plan(in, pack).jobs : EvidenceKindForJob(j.name) = k
<1>1. PICK widened, more, most :
         Plan(in, pack).jobs = Tier0Jobs \cup Tier1Jobs(widened)
                                 \cup ComposeTier2(pack.required[in.risk], widened) \cup more \cup most
  BY DEF Plan
<1>2. PICK a \in Tier0Jobs \cup Tier1Jobs(FALSE) \cup Tier2Base(FALSE) \cup PolicyJobs : a.kind = k
  BY DEF Plannable
<1>3. \E j \in Tier0Jobs \cup Tier1Jobs(widened) \cup ComposeTier2(pack.required[in.risk], widened) :
         j.kind = k /\ j \in AllJobs
  <2>1. CASE a \in Tier0Jobs
    BY <1>2, <2>1 DEF AllJobs
  <2>2. CASE a \in Tier1Jobs(FALSE)
    <3>1. \E j \in Tier1Jobs(widened) : j.kind = a.kind
      BY <2>2 DEF Tier1Jobs, Job
    <3>2. Tier1Jobs(widened) \subseteq AllJobs
      BY DEF Tier1Jobs, AllJobs
    <3> QED
      BY <1>2, <3>1, <3>2
  <2>3. CASE a \in Tier2Base(FALSE)
    <3>1. \E j \in Tier2Base(widened) : j.kind = a.kind
      BY <2>3 DEF Tier2Base, Job
    <3>2. Tier2Base(widened) \subseteq AllJobs
      BY DEF Tier2Base, AllJobs
    <3> QED
      BY <1>2, <3>1, <3>2 DEF ComposeTier2
  <2>4. CASE a \in PolicyJobs
    BY <1>2, <2>4 DEF ComposeTier2, AllJobs
  <2> QED
    BY <1>2, <2>1, <2>2, <2>3, <2>4
<1> QED
  BY <1>1, <1>3, KindOfJob

\* What deciding rests on: the plan has a run for every kind it asks for, and
\* an undecided candidate lacks something.
Deciding(c) ==
    cast[c].risk # "critical" =>
        /\ \A k \in plan[c].required : \E j \in DOMAIN run[c] : EvidenceKindForJob(j) = k
        /\ Undecided(Db, c)
DecidingInv == \A c \in Cands : Deciding(c)

\* No plan asks for anything in the initial state.
LEMMA DecidingInit ==
    Init => DecidingInv
<1> SUFFICES ASSUME Init, NEW c \in Cands
             PROVE  Deciding(c)
  BY DEF DecidingInv
<1>1. cand[c] = "absent" /\ plan[c] = NoPlan
  BY DEF Init
<1>2. NoPlan.required = {}
  BY DEF NoPlan
<1> QED
  BY <1>1, <1>2, DbFields DEF Deciding, Undecided

\* A new plan has a run for each kind it asks for, and asks for some.
LEMMA DecidingSubmit ==
    ASSUME Servable(Registry), AssuranceInv, SettledInv, DecidingInv, NEW c \in Cands, SubmitCandidate(c)
    PROVE  DecidingInv'
<1> DEFINE planned == EnginePlan(Subject(c), Registry)
           names == {j.name : j \in planned.jobs}
           table == [j \in names |-> [state |-> "queued", attempt |-> 1, report |-> NoReport]]
<1>1. /\ cand[c] = "absent" /\ draft[c] # Unjoined
      /\ plan' = [plan EXCEPT ![c] = [policy |-> planned.policy, required |-> planned.required]]
      /\ run' = [run EXCEPT ![c] = table]
      /\ UNCHANGED <<cast, draft, evidence, decisions, envelope>>
  BY DEF SubmitCandidate
<1>2. \A m \in Cands \ {c} : cand'[m] = cand[m]
  BY DEF SubmitCandidate
<1>3. /\ run \in [Cands -> Tables] /\ plan = [m \in Cands |-> plan[m]] /\ CandOK(Db, c)
  BY DbFields DEF AssuranceInv, DbOK, IsDb
<1>4. /\ \A m \in Cands \ {c} : run'[m] = run[m] /\ plan'[m] = plan[m]
      /\ run'[c] = table /\ plan'[c].required = planned.required
  BY <1>1, <1>3
<1>5. \A m \in Cands : (Subject(m) = Subject(m)' /\ cast'[m] = cast[m])
  BY <1>1 DEF Subject
<1>6. \A m \in Cands \ {c} : Deciding(m)'
  <2> SUFFICES ASSUME NEW m \in Cands \ {c} PROVE Deciding(m)'
    OBVIOUS
  <2>1. Undecided(Db, m) => Undecided(Db, m)'
    BY <1>1, <1>2, <1>4, DbFields, CarriedOne
  <2> QED
    BY <1>4, <1>5, <2>1 DEF Deciding, DecidingInv
<1>7. ASSUME cast[c].risk # "critical"
      PROVE  /\ planned.required # {}
             /\ \A k \in planned.required : \E j \in planned.jobs : EvidenceKindForJob(j.name) = k
  <2> DEFINE best == Resolve(Subject(c), Registry)
             in == EngineInput(Subject(c))
  <2>1. best \in DOMAIN Registry
    BY <1>1 DEF SettledInv, Settled
  <2>2. cast[c].risk \in RiskClasses \ {"critical"}
    BY <1>7, CastsTyped DEF AssuranceInv
  <2>3. planned = Plan(in, Registry[best]) /\ in.risk = cast[c].risk
    BY DEF EnginePlan, Subject, EngineInput
  <2> HIDE DEF in, best, planned
  <2>4. planned.required = Registry[best].required[in.risk]
    BY <2>3 DEF Plan
  <2>5. planned.required # {} /\ planned.required \subseteq Plannable
    BY <2>1, <2>2, <2>3, <2>4 DEF Servable
  <2>6. ASSUME NEW k \in planned.required
        PROVE  \E j \in Plan(in, Registry[best]).jobs : EvidenceKindForJob(j.name) = k
    <3>1. PICK pack, input : pack = Registry[best] /\ input = in
      OBVIOUS
    <3>2. k \in pack.required[input.risk] /\ k \in Plannable
      BY <2>4, <2>5, <2>6, <3>1
    <3>3. \E j \in Plan(input, pack).jobs : EvidenceKindForJob(j.name) = k
      BY <3>2, PlanCovers
    <3> QED
      BY <3>1, <3>3
  <2> QED
    BY <2>3, <2>5, <2>6
<1>8. Deciding(c)'
  <2> SUFFICES ASSUME cast[c].risk # "critical"
               PROVE  /\ \A k \in plan'[c].required : \E j \in DOMAIN run'[c] : EvidenceKindForJob(j) = k
                      /\ Undecided(Db, c)'
    BY <1>5 DEF Deciding
  <2>1. \A k \in planned.required : \E j \in names : EvidenceKindForJob(j) = k
    BY <1>7
  <2>2. evidence'[c] = {}
    BY <1>1, <1>3, DbFields DEF CandOK
  <2>3. (Db.evidence)' = evidence'
    BY DEF Db
  <2>4. Kinds(Db, c)' = {}
    BY <2>2, <2>3 DEF Kinds
  <2>5. Undecided(Db, c)'
    BY <1>4, <1>7, <2>4 DEF Undecided, Sufficient
  <2> QED
    BY <1>4, <2>1, <2>5
<1> QED
  BY <1>6, <1>8 DEF DecidingInv

\* A draft leaves plans, runs and evidence alone.
LEMMA DecidingDraft ==
    ASSUME DecidingInv, NEW c \in Cands, DraftCandidate(c)
    PROVE  DecidingInv'
<1>1. UNCHANGED <<cast, cand, cluster, plan, run, evidence, decisions, envelope>>
  BY DEF DraftCandidate
<1>2. \A m \in Cands : Deciding(m)'
  <2> SUFFICES ASSUME NEW m \in Cands PROVE Deciding(m)'
    OBVIOUS
  <2>1. Undecided(Db, m) => Undecided(Db, m)'
    BY <1>1, DbFields, CarriedOne
  <2> QED
    BY <1>1, <2>1 DEF Deciding, DecidingInv
<1> QED
  BY <1>2 DEF DecidingInv

\* A completion leaves plans and the set of runs alone, and never leaves a
\* candidate undecided that has all it needs.
LEMMA DecidingComplete ==
    ASSUME AssuranceInv, SettledInv, DecidingInv, NEW c \in Cands, NEW j \in DOMAIN run[c],
           NEW name \in DOMAIN Work, Complete(c, j, name)
    PROVE  DecidingInv'
<1>1. UNCHANGED <<cast, draft, cluster, plan>>
  BY DEF Complete
<1>2. /\ \A m \in Cands : Undecided(Db, m) => Undecided(Db, m)'
      /\ \A m \in Cands : DOMAIN run'[m] = DOMAIN run[m]
  BY CompleteKeeps, CompletedRuns
<1> QED
  BY <1>1, <1>2 DEF Deciding, DecidingInv

\* Every step keeps DecidingInv.
LEMMA DecidingNext ==
    ASSUME Servable(Registry), AssuranceInv, SettledInv, DecidingInv, [Next]_vars
    PROVE  DecidingInv'
<1>1. ASSUME NEW c \in Cands, RunFinishes(c) PROVE DecidingInv'
  <2>1. PICK j \in DOMAIN cast[c].reports \cap DOMAIN run[c] :
           \E name \in cast[c].reports[j] : Complete(c, j, name)
    BY <1>1 DEF RunFinishes
  <2>2. PICK name \in cast[c].reports[j] : Complete(c, j, name)
    BY <2>1
  <2>3. name \in DOMAIN Work
    BY <2>2, CastsTyped DEF AssuranceInv
  <2> QED
    BY <2>2, <2>3, DecidingComplete
<1>2. ASSUME UNCHANGED vars PROVE DecidingInv'
  <2>1. UNCHANGED <<cast, draft, cand, cluster, plan, run, evidence, decisions, envelope>>
    BY <1>2 DEF vars
  <2>2. \A m \in Cands : Undecided(Db, m) => Undecided(Db, m)'
    BY <2>1, DbFields, CarriedOne
  <2> QED
    BY <2>1, <2>2 DEF Deciding, DecidingInv
<1> QED
  BY <1>1, <1>2, DecidingDraft, DecidingSubmit DEF Next

\* A candidate whose plan went through cleanly is never left without a verdict,
\* whatever providers its jobs ran on: if the registry is one the planner can
\* serve, every kind has a job, every job that really passed is reported, ruled
\* on and counted, and the last of them renders the verdict.
THEOREM CleanPlansDecide ==
    Servable(Registry) /\ Spec => []CleanPlanDecides
<1>1. AssuranceInv /\ DecidingInv => CleanPlanDecides
  <2> SUFFICES ASSUME AssuranceInv, DecidingInv, NEW c \in Cands,
                      cand[c] = "validating", cast[c].risk # "critical", decisions[c] = {},
                      \A j \in DOMAIN run[c] :
                         /\ run[c][j].state \notin {"failed", "timed_out"}
                         /\ EvidenceKindForJob(j) \in plan[c].required =>
                               run[c][j].report # NoReport /\ ReallyPassed(Work[run[c][j].report])
               PROVE  FALSE
    BY DEF CleanPlanDecides
  <2>1. /\ \A k \in plan[c].required : \E j \in DOMAIN run[c] : EvidenceKindForJob(j) = k
        /\ ~Sufficient(plan[c].required, Kinds(Db, c)) \/ FailedRequired(Db, c) # {}
    BY DbFields DEF DecidingInv, Deciding, Undecided
  <2>2. FailedRequired(Db, c) = {}
    BY DbFields DEF FailedRequired
  <2>3. /\ Outcomes(Db, c) /\ Counted(Db, c) /\ run \in [Cands -> Tables]
    BY DbFields DEF AssuranceInv, DbOK, CandOK, IsDb
  <2>4. ASSUME NEW j \in DOMAIN run[c], EvidenceKindForJob(j) \in plan[c].required
        PROVE  EvidenceKindForJob(j) \in Kinds(Db, c)
    <3>1. /\ run[c][j].report # NoReport /\ ReallyPassed(Work[run[c][j].report])
          /\ run[c][j].state \notin {"failed", "timed_out"}
      BY <2>4
    <3>2. run[c][j] \in Row
      BY <2>3, TableMeans
    <3>3. run[c][j].report \in DOMAIN Work /\ run[c][j].state \in RunStates
      BY <3>1, <3>2 DEF Row
    <3>4. RowOK(run[c][j]) /\ CountsFor(Db, c, j)
      BY <2>3, DbFields DEF Outcomes, Counted
    <3>5. Reported(Work[run[c][j].report]).status = "succeeded"
      BY <3>1, <3>3, <3>4, WorkTyped, RealIsReported DEF RowOK
    <3>6. run[c][j].state = "succeeded"
      BY <3>1, <3>3, <3>4, <3>5 DEF RowOK, RunStates
    <3> QED
      BY <2>4, <3>1, <3>4, <3>6, DbFields DEF CountsFor
  <2> QED
    BY <2>1, <2>2, <2>4 DEF Sufficient
<1>2. Servable(Registry) /\ AssuranceInv /\ SettledInv /\ DecidingInv /\ [Next]_vars => DecidingInv'
  BY DecidingNext
<1>4. AssuranceInv /\ SettledInv /\ [Next]_vars => SettledInv'
  BY SettledNext
<1>3. Servable(Registry) => Servable(Registry)'
  BY DEF Servable
<1> QED
  BY <1>1, <1>2, <1>3, <1>4, DecidingInit, SettledInit, AssuranceInvariant, PTL DEF Spec

----------------------------------------------------------------------------
(***************************************************************************)
(* Plans are governed by merit.                                            *)
(***************************************************************************)

\* A list of globs matches by the meaning of one of them.
LEMMA AnyMatches ==
    ASSUME NEW pats \in SUBSET Texts, NEW name, Plain(name)
    PROVE  MatchAnyGlob(pats, name) <=> AnyMeans(pats, name)
BY GlobMatches DEF MatchAnyGlob, AnyMeans

\* The empty actor, which the planner passes, has a plain name.
LEMMA EmptyIsPlain ==
    Plain(EmptyText)
<1>1. <<>> \in Seq(STRING) /\ Len(<<>>) = 0
  OBVIOUS
<1>2. EmptyText \in Texts /\ Len(EmptyText) = 1 /\ EmptyText[1] = <<>>
  BY <1>1 DEF EmptyText, Texts
<1>3. NoStar(<<>>)
  BY <1>1 DEF NoStar
<1> QED
  BY <1>2, <1>3 DEF Plain

\* The records that Resolve does not skip are the ones that govern.
LEMMA AppliesMeans ==
    ASSUME NEW rec, Patterns(rec.scope) \subseteq Texts, NEW s, Plain(s.repo),
           \A p \in s.paths : Plain(p), Plain(s.actor)
    PROVE  Applies(rec, s) <=> Governs(rec, s)
<1>1. /\ rec.scope.repos \in SUBSET Texts /\ rec.scope.paths \in SUBSET Texts
      /\ rec.scope.agents \in SUBSET Texts /\ rec.scope.exclude \in SUBSET Texts
  BY DEF Patterns
<1>2. PICK repos, paths, agents, exclude, repo, actor :
         /\ repos = rec.scope.repos /\ paths = rec.scope.paths /\ agents = rec.scope.agents
         /\ exclude = rec.scope.exclude /\ repo = s.repo /\ actor = s.actor
  OBVIOUS
<1>3. /\ MatchAnyGlob(repos, repo) <=> AnyMeans(repos, repo)
      /\ \A p \in s.paths : MatchAnyGlob(paths, p) <=> AnyMeans(paths, p)
      /\ MatchAnyGlob(agents, actor) <=> AnyMeans(agents, actor)
      /\ MatchAnyGlob(exclude, actor) <=> AnyMeans(exclude, actor)
  BY <1>1, <1>2, AnyMatches
<1>4. exclude = {} => ~AnyMeans(exclude, actor)
  BY DEF AnyMeans
<1>5. Selects(rec.scope, s) <=>
         /\ repos = {} \/ AnyMeans(repos, repo)
         /\ paths = {} \/ \E p \in s.paths : AnyMeans(paths, p)
         /\ rec.scope.risks = {} \/ s.risk \in rec.scope.risks
         /\ agents = {} \/ AnyMeans(agents, actor)
         /\ ~AnyMeans(exclude, actor)
  BY <1>2, <1>3, <1>4, Zenon DEF Selects
<1> QED
  BY <1>2, <1>5, Zenon DEF Applies, Governs

\* Better is the order of merit.
LEMMA BetterMeans ==
    ASSUME NEW a, NEW b, a.version \in Int, b.version \in Int, a.id \in Nat, b.id \in Nat
    PROVE  Better(a, b) <=> Outranks(Merit(a), Merit(b))
<1> DEFINE Grade(r) == IF r.scope.paths # {} THEN 2 ELSE IF r.scope.repos # {} THEN 1 ELSE 0
<1>1. PICK x \in Nat, y \in Nat : x = Grade(a) /\ y = Grade(b)
  OBVIOUS
<1>2. Merit(a) = <<x, a.version, a.id>> /\ Merit(b) = <<y, b.version, b.id>>
  BY <1>1 DEF Merit
<1>3. Specificity(a.scope) = 2 * x /\ Specificity(b.scope) = 2 * y
  BY <1>1 DEF Specificity
<1> HIDE DEF Grade
<1>4. PICK m, n : m = Merit(a) /\ n = Merit(b)
  OBVIOUS
<1>5. m[1] = x /\ m[2] = a.version /\ m[3] = a.id /\ n[1] = y /\ n[2] = b.version /\ n[3] = b.id
  BY <1>2, <1>4
<1>6. 1..3 = {1, 2, 3} /\ 1..(1 - 1) = {} /\ 1..(2 - 1) = {1} /\ 1..(3 - 1) = {1, 2}
  OBVIOUS
<1>7. Outranks(m, n) <=> \/ m[1] > n[1]
                         \/ m[2] > n[2] /\ m[1] = n[1]
                         \/ m[3] > n[3] /\ m[1] = n[1] /\ m[2] = n[2]
  BY <1>6 DEF Outranks
<1> QED
  BY <1>1, <1>3, <1>4, <1>5, <1>7 DEF Better

\* Only its own submission brings a candidate in, and that stamps its plan
\* with the record Resolve chose.
LEMMA StampedByMerit ==
    ASSUME PlainNames, AssuranceInv, SettledInv, Next, NEW c \in Cands,
           cand[c] = "absent", cand'[c] # "absent"
    PROVE  \E i \in DOMAIN Registry :
              /\ plan'[c].policy = <<Registry[i].id, Registry[i].version>>
              /\ Governs(Registry[i], Subject(c))
              /\ \A k \in DOMAIN Registry : Governs(Registry[k], Subject(c))
                                               => ~Outranks(Merit(Registry[k]), Merit(Registry[i]))
<1>1. SubmitCandidate(c)
  <2>1. \A m \in Cands : ~DraftCandidate(m)
    BY DEF DraftCandidate
  <2>2. ASSUME NEW m \in Cands, SubmitCandidate(m) PROVE m = c
    BY <2>2 DEF SubmitCandidate
  <2>3. ASSUME NEW m \in Cands, RunFinishes(m) PROVE FALSE
    <3>1. PICK j \in DOMAIN cast[m].reports \cap DOMAIN run[m] :
             \E name \in cast[m].reports[j] : Complete(m, j, name)
      BY <2>3 DEF RunFinishes
    <3>2. PICK name \in cast[m].reports[j] : Complete(m, j, name)
      BY <3>1
    <3>3. name \in DOMAIN Work
      BY <3>2, CastsTyped DEF AssuranceInv
    <3> QED
      BY <3>2, <3>3, CompletedRuns
  <2> QED
    BY <2>1, <2>2, <2>3 DEF Next
<1> DEFINE s == Subject(c)
           i == Resolve(s, Registry)
<1>2. i \in DOMAIN Registry
  BY <1>1 DEF SettledInv, Settled, SubmitCandidate
<1>3. plan'[c].policy = <<Registry[i].id, Registry[i].version>>
  <2>1. EnginePlan(s, Registry).policy = <<Registry[i].id, Registry[i].version>>
    <3>1. EnginePlan(s, Registry) = Plan(EngineInput(s), Registry[i])
      BY DEF EnginePlan, Subject
    <3> QED
      BY <3>1 DEF Plan
  <2>2. plan = [m \in Cands |-> plan[m]]
    BY DEF AssuranceInv
  <2>3. plan' = [plan EXCEPT ![c] = [policy |-> EnginePlan(s, Registry).policy,
                                     required |-> EnginePlan(s, Registry).required]]
    BY <1>1 DEF SubmitCandidate
  <2> QED
    BY <2>1, <2>2, <2>3
<1>4. ASSUME NEW k \in DOMAIN Registry PROVE Applies(Registry[k], s) <=> Governs(Registry[k], s)
  <2>1. Plain(s.repo) /\ (\A p \in s.paths : Plain(p)) /\ Plain(s.actor)
    BY EmptyIsPlain DEF PlainNames, Subject, AssuranceInv
  <2>2. PICK rec, t : rec = Registry[k] /\ t = s
    OBVIOUS
  <2>3. Patterns(rec.scope) \subseteq Texts
    BY <2>2, RegistryTyped
  <2> HIDE DEF s
  <2>4. Plain(t.repo) /\ (\A p \in t.paths : Plain(p)) /\ Plain(t.actor)
    BY <2>1, <2>2
  <2> QED
    BY <2>2, <2>3, <2>4, AppliesMeans
<1>5. /\ Applies(Registry[i], s)
      /\ \A k \in DOMAIN Registry : Applies(Registry[k], s) => ~Better(Registry[k], Registry[i])
  <2>1. Wins(s, Registry, Len(Registry), i)
    BY RegistryTyped, ResolveWins
  <2> QED
    BY <1>2, <2>1, RegistryTyped DEF Wins
<1>6. ASSUME NEW k \in DOMAIN Registry
      PROVE  Better(Registry[k], Registry[i]) <=> Outranks(Merit(Registry[k]), Merit(Registry[i]))
  <2>1. PICK a, b : a = Registry[k] /\ b = Registry[i]
    OBVIOUS
  <2>2. a.version \in Int /\ b.version \in Int /\ a.id \in Nat /\ b.id \in Nat
    BY <1>2, <2>1, RegistryTyped
  <2>3. Better(a, b) <=> Outranks(Merit(a), Merit(b))
    BY <2>2, BetterMeans
  <2> QED
    BY <2>1, <2>3
<1> HIDE DEF s, i
<1> QED
  BY <1>2, <1>3, <1>4, <1>5, <1>6 DEF s

\* Whoever enters is stamped with the policy of highest merit that governs it,
\* by the meaning of the registry's globs: the two-pointer matcher, the "**"
\* recursion, the selectors and the scan of Resolve compute it for every
\* registry, whatever its order, over names without a "*".
THEOREM PlansGovernedByMerit ==
    PlainNames /\ Spec => GovernedByMerit
<1>1. PlainNames /\ AssuranceInv /\ SettledInv /\ [Next]_vars =>
         [\A c \in Cands : cand[c] = "absent" /\ cand'[c] # "absent" =>
             \E i \in DOMAIN Registry :
                 /\ plan'[c].policy = <<Registry[i].id, Registry[i].version>>
                 /\ Governs(Registry[i], Subject(c))
                 /\ \A k \in DOMAIN Registry : Governs(Registry[k], Subject(c))
                                                  => ~Outranks(Merit(Registry[k]), Merit(Registry[i]))]_vars
  BY StampedByMerit
<1>2. PlainNames => PlainNames'
  BY DEF PlainNames
<1>3. AssuranceInv /\ SettledInv /\ [Next]_vars => SettledInv'
  BY SettledNext
<1> QED
  BY <1>1, <1>2, <1>3, SettledInit, AssuranceInvariant, PTL DEF Spec, GovernedByMerit

=============================================================================
