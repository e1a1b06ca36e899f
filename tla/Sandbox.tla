------------------------------ MODULE Sandbox ------------------------------
(***************************************************************************)
(* One job on a worker (runner-fleet, internal/providers): what the three  *)
(* providers make of a container's exit and output, of deadlines and of a  *)
(* missing snapshot, and what of it reaches the control-plane's feed.      *)
(*                                                                         *)
(* A work w is what a job meets: w.via names the provider, or "worker" for *)
(* an external worker that posts its completion; the other fields are the  *)
(* facts that provider depends on.  A check is its verdict: exactly the    *)
(* skipped ones were not executed.  Checks are kept by place, a function   *)
(* from where each was found to its verdict: nobody asks for their order.  *)
(***************************************************************************)
EXTENDS Integers, Sequences, FiniteSets, Functions

Outcome(status, census, log) ==
    [status |-> status, census |-> census, digestsOK |-> TRUE, log |-> log]
Census(passed, failed, skipped) ==
    [total |-> passed + failed + skipped, passed |-> passed, failed |-> failed,
     skipped |-> skipped, quarantined |-> 0]
\* A census that was never sent reads as zeros (evidenceCensusFromJob).
NoCensus == Census(0, 0, 0)

----------------------------------------------------------------------------
(***************************************************************************)
(* From output to checks                                                   *)
(***************************************************************************)

\* A verdict that is not understood counts as a failure.
NormalizedVerdict(raw) ==
    CASE raw = "pass" -> "passed" [] raw = "skip" -> "skipped" [] OTHER -> "failed"

\* Lines without a well-formed marker are output.
Noise == "noise"
ParseCheckMarkers(lines) ==
    [i \in {i \in DOMAIN lines : lines[i] # Noise} |-> NormalizedVerdict(lines[i])]

Count(checks, v) == Cardinality({i \in DOMAIN checks : checks[i] = v})
CensusFor(checks) ==
    Census(Count(checks, "passed"), Count(checks, "failed"), Count(checks, "skipped"))

\* Mutant: the markers speak for themselves.
FallbackNone(checks) == checks

\* A nonzero exit that no check explains becomes a failure of its own, in
\* place 0, where no line is.
FallbackChecks(checks) ==
    IF "failed" \in Range(checks) THEN checks
    ELSE [i \in DOMAIN checks \cup {0} |-> IF i = 0 THEN "failed" ELSE checks[i]]

----------------------------------------------------------------------------
(***************************************************************************)
(* RealExecProvider.  w.box[p] is how the container of preset p ends: its  *)
(* lines, its exit code, the rules that match the excerpt of its log, and  *)
(* whether docker could run it at all.  Container number w.late is running *)
(* when the deadline strikes; w.errlog is what an internal error's text    *)
(* matches.                                                                *)
(***************************************************************************)

\* A path that exists, or a tarball staged under the hash of the inputs.
ResolveBundle(w) == w.ref # "none" /\ (w.ref = "staged" \/ w.hashed)

\* The archive unpacks: gzip, no entry escapes, below the size cap.
ExtractTarball(w) == w.archive = "good"

Presets == {"node", "python", "go"}
DetectPresets(files) ==
    LET When(found, p) == IF found THEN <<p>> ELSE <<>>
    IN  When("package.json" \in files, "node")
          \o When({"requirements.txt", "pyproject.toml"} \cap files # {} /\ "*.py" \in files, "python")
          \o When("go.mod" \in files, "go")

ImageFor(w, p) == p # "go" \/ w.goImage

\* The exit code that runContainer returns; a killed container has none.
ExitCode(w, i, p) == IF i = w.late THEN -1 ELSE w.box[p].exit

\* classifyRun and finish: nothing is clean after the deadline.
ClassifyRun(late, checks) ==
    IF late THEN "timed_out" ELSE IF "failed" \in Range(checks) THEN "failed" ELSE "succeeded"
Finish(late, checks, log) == Outcome(ClassifyRun(late, checks), CensusFor(checks), log)
InfraFailure(w) == Outcome("failed", Census(0, 1, 0), w.errlog)

\* The checks that one preset contributes.
ChecksOf(w, i, p) ==
    LET checks == ParseCheckMarkers(w.box[p].lines)
    IN  IF ~ImageFor(w, p) THEN <<"skipped">>
        ELSE IF ExitCode(w, i, p) # 0 THEN FallbackChecks(checks) ELSE checks

\* The checks of presets 1 to last; place <<i, k>> is place k of preset i.
AllChecks(w, presets, last) ==
    [at \in UNION {{i} \X DOMAIN ChecksOf(w, i, presets[i]) : i \in 1..last} |->
        ChecksOf(w, at[1], presets[at[1]])[at[2]]]

\* runAllPresets: in order, until the deadline or until docker fails.
RunAllPresets(w, presets) ==
    LET late == w.late <= Len(presets)
        last == IF late THEN w.late ELSE Len(presets)
        ran  == {i \in 1..last : ImageFor(w, presets[i])}
    IN  IF \E i \in ran : ~w.box[presets[i]].up THEN InfraFailure(w)
        ELSE Finish(late, AllChecks(w, presets, last), UNION {w.box[presets[i]].log : i \in ran})

\* execute: without a usable snapshot or a known stack everything is skipped.
Execute(w) ==
    CASE ~w.disk -> InfraFailure(w)
      [] w.disk /\ (\/ ~ResolveBundle(w) \/ ~ExtractTarball(w)
                    \/ DetectPresets(w.files) = <<>>) -> Finish(w.late = 0, <<"skipped">>, {})
      [] OTHER -> RunAllPresets(w, DetectPresets(w.files))

\* The goroutine of Submit; Poll hands over what it left, a panic included.
RealExec(w) == IF w.panics THEN InfraFailure(w) ELSE Execute(w)

----------------------------------------------------------------------------
(***************************************************************************)
(* The other providers                                                     *)
(***************************************************************************)

\* SimProvider: simulate.  The dice say how a flaky profile falls and how
\* many of the tests of a failed run failed.
Simulate(w) ==
    LET passes == w.bias = "pass" \/ (w.bias = "flaky" /\ w.dice.lucky)
    IN  IF passes THEN Outcome("succeeded", Census(w.dice.total, 0, 0), {})
        ELSE Outcome("failed", Census(w.dice.total - w.dice.failed, w.dice.failed, 0), {})

\* DockerProvider: one command, judged by its exit alone.
DockerRun(w) ==
    CASE w.exit = 0             -> Outcome("succeeded", Census(1, 0, 0), w.log)
      [] w.exit # 0 /\ w.late   -> Outcome("timed_out", Census(0, 1, 0), w.log)
      [] w.exit # 0 /\ ~w.late  -> Outcome("failed", Census(0, 1, 0), w.log)

Provide(w) == CASE w.via = "realexec" -> RealExec(w) [] w.via = "sim" -> Simulate(w)
                [] w.via = "docker" -> DockerRun(w)

----------------------------------------------------------------------------
(***************************************************************************)
(* To the feed                                                             *)
(***************************************************************************)

\* runJob: when the executor's own timer fires first, the run timed out; what
\* the provider has by then is kept, w.timer says whether it has anything.
RunJob(w) ==
    CASE w.timer = "waits"   -> Provide(w)
      [] w.timer = "ended"   -> [Provide(w) EXCEPT !.status = "timed_out"]
      [] w.timer = "running" -> Outcome("timed_out", NoCensus, {})

\* The completion endpoint refuses what is not well formed.
CompletionOK(m) ==
    /\ m.status \in {"succeeded", "failed", "timed_out"} /\ m.digestsOK
    /\ \A f \in DOMAIN m.census : m.census[f] >= 0
    /\ m.census.total = m.census.passed + m.census.failed + m.census.skipped + m.census.quarantined

Completes(w) == w.via = "worker" => CompletionOK(w.sent)

\* The feed's view of an accepted job.  An external worker sends no excerpt
\* of its log.
Reported(w) == IF w.via = "worker" THEN [w.sent EXCEPT !.log = {}] ELSE RunJob(w)

----------------------------------------------------------------------------
\* What a work is made of.  A simulated run has six tests or more.
IsCensus(r) == r \in [total : Int, passed : Int, failed : Int, skipped : Int, quarantined : Int]
IsWork(w) ==
    \/ /\ w.via = "realexec" /\ w.timer \in {"waits", "ended", "running"} /\ w.late \in Nat
       /\ w.ref \in {"none", "staged", "gone"}
       /\ w.box \in [Presets -> [up : BOOLEAN, lines : Seq(STRING), exit : Int, log : SUBSET (STRING \X BOOLEAN)]]
    \/ w.via = "sim" /\ w.timer \in {"waits", "ended", "running"} /\ w.dice.total \in Nat \ {0}
    \/ w.via = "docker" /\ w.timer \in {"waits", "ended", "running"}
    \/ /\ w.via = "worker" /\ IsCensus(w.sent.census)
       /\ w.sent \in [status : STRING, census : {w.sent.census}, digestsOK : BOOLEAN, log : SUBSET (STRING \X BOOLEAN)]

\* What "passed" means, from what happened and not from what was reported:
\* some check ran and passed, nothing that ran failed or died, and all of it
\* was done in time.
ReallyPassed(w) ==
    CASE w.via = "realexec" ->
           LET on == {p \in Range(DetectPresets(w.files)) : p = "go" => w.goImage}
           IN  /\ w.disk /\ w.ref # "none" /\ (w.ref = "gone" => w.hashed) /\ w.archive = "good"
               /\ ~w.panics /\ w.timer = "waits" /\ w.late > Len(DetectPresets(w.files))
               /\ \A p \in on : w.box[p].up /\ w.box[p].exit = 0
                                  /\ Range(w.box[p].lines) \subseteq {"pass", "skip", Noise}
               /\ \E p \in on : "pass" \in Range(w.box[p].lines)
      [] w.via = "sim"    -> w.timer = "waits" /\ (w.bias = "pass" \/ (w.bias = "flaky" /\ w.dice.lucky))
      [] w.via = "docker" -> w.timer = "waits" /\ w.exit = 0
      [] w.via = "worker" -> /\ w.sent.status = "succeeded" /\ w.sent.census.passed > 0
                             /\ w.sent.census.failed = 0
=============================================================================
