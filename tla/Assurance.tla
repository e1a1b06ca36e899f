------------------------------ MODULE Assurance ------------------------------
(***************************************************************************)
(* From a submission to a verdict: the rules of the control-plane at work. *)
(* A handler plans a candidate and reads the clusters of its repo, then    *)
(* commits candidate, plan, runs and cluster membership in one             *)
(* transaction; the runs finish in any order, and each result is ruled on, *)
(* routed and may decide the candidate and stand its cluster down.         *)
(*                                                                         *)
(* RunEngine models how runs are dispatched, fenced and cancelled, and     *)
(* knows a result by its route alone.  Here a result is what the worker    *)
(* made of its job (Sandbox) and the rules are the code's own; a queued    *)
(* run of an undecided candidate that is not parked may finish at any      *)
(* time.                                                                   *)
(***************************************************************************)
EXTENDS Planning, Evidence, Clustering, Sandbox

CONSTANTS
    Cands,      \* candidates, numbered
    Casts,      \* the casts of the instance: to each candidate its intent's repo,
                \* risk class and owned surfaces, its changed paths, and what those
                \* of its jobs that finish may meet on a worker
    Work,       \* the works of the instance, by name
    Registry,   \* the active policy records, in registry order
    MaxRetry    \* attempts allowed to an infra-transient failure (2)

NoReport == "none"

ASSUME AssuranceConstants == Cands \subseteq Nat \ {0} /\ IsFiniteSet(Cands) /\ MaxRetry \in Nat
ASSUME WorkTyped == NoReport \notin DOMAIN Work /\ \A name \in DOMAIN Work : IsWork(Work[name])
ASSUME RegistryTyped ==
    /\ DOMAIN Registry = 1..Len(Registry) /\ Len(Registry) \in Nat
    /\ \A i \in DOMAIN Registry : /\ Registry[i].version \in Int /\ Registry[i].id \in Nat
                                  /\ Patterns(Registry[i].scope) \subseteq Texts
\* A cast is a function from candidates to submissions.
ASSUME CastsTyped ==
    \A k \in Casts : \A c \in Cands :
        /\ k[c].risk \in RiskClasses /\ k[c].paths \in Seq(DOMAIN Grams)
        /\ \A j \in DOMAIN k[c].reports : k[c].reports[j] \subseteq DOMAIN Work

VARIABLES
    cast,      \* who submits what
    draft,     \* the handler's assignment as read, before its transaction
    cand,      \* state of each candidate's row
    cluster,   \* representative and relation of each candidate
    plan,      \* policy stamp and required kinds of each candidate's plan
    run,       \* run[c][job name]: its state, attempt and last report
    evidence,  \* evidence[c]: accepted records, [run, attempt, kind]
    decisions, \* verbs rendered on each candidate
    envelope   \* the repair envelope authorized for each candidate

vars == <<cast, draft, cand, cluster, plan, run, evidence, decisions, envelope>>

CandStates == {"absent", "validating", "blocked_representative", "repairing", "eligible",
               "rejected", "superseded"}
Terminal(st) == st \in {"eligible", "rejected", "superseded"}
NoRuns == [j \in {} |-> NoReport]
NoPlan == [policy |-> <<0, 0>>, required |-> {}]

----------------------------------------------------------------------------
(***************************************************************************)
(* Submission                                                              *)
(***************************************************************************)

\* The planner's subject names no actor.
Subject(c) == [repo |-> cast[c].repo, paths |-> Pathset(cast[c].paths), risk |-> cast[c].risk,
               actor |-> EmptyText]
PathsOf == [c \in Cands |-> cast[c].paths]

\* ActiveClustersForRepo: every cluster ever seeded in the repo; none is ever
\* closed, whatever became of its representative.
ActiveClusters(repo) == {c \in Cands : cluster[c].rep = c /\ cast[c].repo = repo}

\* assignCluster, before the transaction.  A store error counts as no cluster.
DraftCandidate(c) ==
    /\ cand[c] = "absent" /\ draft[c] = Unjoined
    /\ Resolve(Subject(c), Registry) # 0
    /\ \E a \in {Assign(cast[c].paths, ActiveClusters(cast[c].repo), PathsOf), Unjoined} :
          draft' = [draft EXCEPT ![c] = IF a = Unjoined THEN [a EXCEPT !.rep = c] ELSE a]
    /\ UNCHANGED <<cast, cand, cluster, plan, run, evidence, decisions, envelope>>

\* SubmitCandidateTx with the cluster projection: a duplicate is parked.
SubmitCandidate(c) ==
    /\ cand[c] = "absent" /\ draft[c] # Unjoined
    /\ cand' = [cand EXCEPT ![c] = IF draft[c].relation = "duplicate_of"
                                   THEN "blocked_representative" ELSE "validating"]
    /\ cluster' = [cluster EXCEPT ![c] = draft[c]]
    /\ LET planned == EnginePlan(Subject(c), Registry)
       IN  /\ plan' = [plan EXCEPT ![c] = [policy |-> planned.policy, required |-> planned.required]]
           /\ run' = [run EXCEPT ![c] = [j \in {j.name : j \in planned.jobs} |->
                                    [state |-> "queued", attempt |-> 1, report |-> NoReport]]]
    /\ UNCHANGED <<cast, draft, evidence, decisions, envelope>>

----------------------------------------------------------------------------
(***************************************************************************)
(* A result.  db gathers what the completion transaction may change.       *)
(***************************************************************************)

Db == [cand |-> cand, run |-> run, evidence |-> evidence, decisions |-> decisions,
       envelope |-> envelope]

\* MarkCandidateStateTx: a no-op from a state that is not listed.
Mark(d, c, st, from) == IF d.cand[c] \in from THEN [d EXCEPT !.cand[c] = st] ELSE d

\* CancelRunsForCandidateTx
CancelRuns(d, c) ==
    [d EXCEPT !.run[c] = [j \in DOMAIN @ |->
        IF @[j].state = "queued" THEN [@[j] EXCEPT !.state = "cancelled"] ELSE @[j]]]

\* propagateSupersession: every member of the winner's cluster that stands
\* down is superseded, the winner's own relation notwithstanding.
Losers(winner) == {m \in Cands : /\ cluster[m].rep = cluster[winner].rep
                                 /\ m # cluster[winner].rep /\ StandsDown(cluster[m].relation)}
PropagateSupersession(d, winner) ==
    LET open == {m \in Losers(winner) : ~Terminal(d.cand[m])}
    IN  [d EXCEPT
           !.cand = [m \in Cands |-> IF m \in open THEN "superseded" ELSE @[m]],
           !.run  = [m \in Cands |-> IF m \in Losers(winner) THEN CancelRuns(d, m).run[m] ELSE @[m]]]

\* renderDecision
RenderDecision(d, c, verb) ==
    LET said == [d EXCEPT !.decisions[c] = @ \cup {verb}]
    IN  CASE verb = "eligible" ->
               PropagateSupersession(Mark(said, c, "eligible", {"validating", "repairing"}), c)
          [] verb = "rejected" -> Mark(said, c, "rejected", {"validating", "repairing"})
          [] OTHER             -> said

Kinds(d, c) == {e.kind : e \in d.evidence[c]}
FailedRequired(d, c) == {j \in DOMAIN d.run[c] : /\ d.run[c][j].state \in {"failed", "timed_out"}
                                                 /\ EvidenceKindForJob(j) \in plan[c].required}

\* maybeRenderEligible
MaybeRenderEligible(d, c) ==
    IF /\ d.decisions[c] = {} /\ FailedRequired(d, c) = {}
       /\ ~Terminal(d.cand[c]) /\ d.cand[c] # "repairing"
       /\ Sufficient(plan[c].required, Kinds(d, c))
    THEN RenderDecision(d, c, "eligible") ELSE d

\* onRunSucceeded
OnRunSucceeded(d, c, j, x) ==
    LET kind   == EvidenceKindForJob(j)
        tries  == {e.attempt : e \in {e \in d.evidence[c] : e.run = j}}
        ruling == EvidenceEvaluate(j, d.run[c][j].attempt, x.census, x.digestsOK,
                                   EvidenceContext(j, d.run[c][j].attempt, tries))
        record == [run |-> j, attempt |-> d.run[c][j].attempt, kind |-> kind]
    IN  MaybeRenderEligible(
            IF kind \in plan[c].required /\ ruling = "accept"
            THEN [d EXCEPT !.evidence[c] = @ \cup {record}] ELSE d, c)

\* authorizeRepairOrDefer.  The gate resolves the compiled-in registry over
\* the intent's surfaces, again without an actor.
AuthorizeOrDefer(d, c, fc) ==
    LET subject == [Subject(c) EXCEPT !.paths = cast[c].surfaces]
        pack    == DefaultRegistry[Resolve(subject, DefaultRegistry)]
        ruling  == AuthorizeRepair(fc, pack, cast[c].surfaces, cast[c].risk)
    IN  IF ruling.granted
        THEN Mark([d EXCEPT !.envelope[c] = @ \cup {ruling}], c, "repairing", {"validating"})
        ELSE RenderDecision(d, c, "deferred")

\* onRunFailed.  Secrets are scrubbed before the excerpt is classified.
Retries(d, c, j, x) ==
    Classify(Redact(x.log), NoForensics).class = "infra_transient" /\ d.run[c][j].attempt < MaxRetry
OnRunFailed(d, c, j, x) ==
    LET fc == Classify(Redact(x.log), NoForensics)
    IN  IF Retries(d, c, j, x)
        THEN [d EXCEPT !.run[c][j].state = "queued", !.run[c][j].attempt = @ + 1]
        ELSE CASE RouteFailure(fc) = "reject" -> RenderDecision(d, c, "rejected")
               [] RouteFailure(fc) = "repair" -> AuthorizeOrDefer(d, c, fc)
               [] OTHER                       -> RenderDecision(d, c, "deferred")

\* What the feed shows of each work once it is completed.
Feed == [name \in DOMAIN Work |-> Reported(Work[name])]

\* The effect transaction of one completion that the fleet accepted.  A run
\* that timed out cannot be retried: the attempt rolls the transaction back.
Complete(c, j, name) ==
    /\ cand[c] \in {"validating", "repairing"} /\ run[c][j].state = "queued"
    /\ Completes(Work[name])
    /\ LET x    == Feed[name]
           done == [Db EXCEPT !.run[c][j].state = x.status, !.run[c][j].report = name]
           d    == IF x.status = "succeeded" THEN OnRunSucceeded(done, c, j, x)
                   ELSE OnRunFailed(done, c, j, x)
       IN  /\ ~(x.status = "timed_out" /\ Retries(Db, c, j, x))
           /\ cand' = d.cand /\ run' = d.run /\ evidence' = d.evidence
           /\ decisions' = d.decisions /\ envelope' = d.envelope
    /\ UNCHANGED <<cast, draft, cluster, plan>>

----------------------------------------------------------------------------
Init ==
    /\ cast \in Casts
    /\ draft = [c \in Cands |-> Unjoined] /\ cluster = [c \in Cands |-> Unjoined]
    /\ cand = [c \in Cands |-> "absent"]
    /\ plan = [c \in Cands |-> NoPlan] /\ run = [c \in Cands |-> NoRuns]
    /\ evidence = [c \in Cands |-> {}] /\ decisions = [c \in Cands |-> {}]
    /\ envelope = [c \in Cands |-> {}]

RunFinishes(c) ==
    \E j \in DOMAIN cast[c].reports \cap DOMAIN run[c] :
        \E name \in cast[c].reports[j] : Complete(c, j, name)

Next == \E c \in Cands :
    \/ DraftCandidate(c)
    \/ SubmitCandidate(c)
    \/ RunFinishes(c)

Spec == Init /\ [][Next]_vars

----------------------------------------------------------------------------
(***************************************************************************)
(* Properties                                                              *)
(***************************************************************************)

\* What a glob means: places in the name cut it into the parts that the
\* pattern's elements stand for, in order.
Cuts(p, s) == {f \in [1..(Len(p) + 1) -> 0..Len(s)] :
                  /\ f[1] = 0 /\ f[Len(p) + 1] = Len(s)
                  /\ \A i \in 1..Len(p) : f[i] <= f[i + 1]}
SegmentMeans(p, s) ==
    \E f \in Cuts(p, s) : \A i \in 1..Len(p) :
        p[i] = "*" \/ SubSeq(s, f[i] + 1, f[i + 1]) = <<p[i]>>
GlobMeans(pat, name) ==
    \E f \in Cuts(pat, name) : \A i \in 1..Len(pat) :
        \/ pat[i] = DoubleStar
        \/ f[i + 1] = f[i] + 1 /\ SegmentMeans(pat[i], name[f[i + 1]])
AnyMeans(pats, name) == \E p \in pats : GlobMeans(p, name)

\* The policies that govern a subject, by the meaning of their selectors, and
\* the order of merit among them.
Governs(rec, s) ==
    /\ rec.status = "active" /\ rec.id # 0 /\ rec.version > 0
    /\ rec.scope.repos = {} \/ AnyMeans(rec.scope.repos, s.repo)
    /\ rec.scope.paths = {} \/ \E p \in s.paths : AnyMeans(rec.scope.paths, p)
    /\ rec.scope.risks = {} \/ s.risk \in rec.scope.risks
    /\ rec.scope.agents = {} \/ AnyMeans(rec.scope.agents, s.actor)
    /\ ~AnyMeans(rec.scope.exclude, s.actor)
Merit(rec) == <<IF rec.scope.paths # {} THEN 2 ELSE IF rec.scope.repos # {} THEN 1 ELSE 0,
                rec.version, rec.id>>
Outranks(m, n) == \E i \in 1..3 : m[i] > n[i] /\ \A k \in 1..(i - 1) : m[k] = n[k]

\* Every plan is stamped with the one policy of highest merit that governs the
\* candidate, whatever the order of the registry: Resolve, matchSpecificity
\* and the two-pointer glob matcher agree with what a glob means.
GovernedByMerit ==
    [][\A c \in Cands : cand[c] = "absent" /\ cand'[c] # "absent" =>
          \E i \in DOMAIN Registry :
              /\ plan'[c].policy = <<Registry[i].id, Registry[i].version>>
              /\ Governs(Registry[i], Subject(c))
              /\ \A k \in DOMAIN Registry : Governs(Registry[k], Subject(c))
                                               => ~Outranks(Merit(Registry[k]), Merit(Registry[i]))]_vars

\* An eligible candidate has, for every kind its policy requires, a run of a
\* job of that kind that really passed, whatever its worker made of exit
\* codes, missing markers, deadlines and missing snapshots (I-01; the "honesty
\* contract" of RealExecProvider, then evidenceEvaluate).
EligibleBacked ==
    \A c \in Cands : cand[c] = "eligible" =>
        \A k \in plan[c].required : \E j \in DOMAIN run[c] :
            /\ EvidenceKindForJob(j) = k /\ run[c][j].state = "succeeded"
            /\ ReallyPassed(Work[run[c][j].report])

\* The plan produces what its policy asks for, and the workers report what
\* passed: once every job of a required kind has really passed and nothing
\* else failed, the candidate is decided.  A critical candidate is the
\* exception, two of its kinds have no job.
CleanPlanDecides ==
    \A c \in Cands :
        ~ /\ cand[c] = "validating" /\ cast[c].risk # "critical" /\ decisions[c] = {}
          /\ \A j \in DOMAIN run[c] :
                /\ run[c][j].state \notin {"failed", "timed_out"}
                /\ EvidenceKindForJob(j) \in plan[c].required =>
                      run[c][j].report # NoReport /\ ReallyPassed(Work[run[c][j].report])

\* A leaked secret or a policy hit that can still be read in the excerpt of a
\* failed run's log once it is scrubbed ends the candidate, whatever else the
\* log matches: it is never retried, repaired or deferred.  Scrubbing may take
\* the hit away with the secret (onRunFailed, redact.String).
LeakRejects ==
    \A c \in Cands : \A j \in DOMAIN run[c] :
        /\ run[c][j].report # NoReport
        /\ LET x == Reported(Work[run[c][j].report])
           IN  x.status # "succeeded" /\ "secret_or_policy_hit" \in Redact(x.log)
        => cand[c] = "rejected"

----------------------------------------------------------------------------
(***************************************************************************)
(* What two of the properties ask of a deployment.  Nothing in the code    *)
(* enforces either.                                                        *)
(***************************************************************************)

\* CleanPlanDecides: below critical risk every record asks for something, and
\* only for kinds that the planner has a job for at any risk and with any
\* trigger.
Plannable == {j.kind : j \in Tier0Jobs \cup Tier1Jobs(FALSE) \cup Tier2Base(FALSE) \cup PolicyJobs}
Servable(recs) ==
    \A i \in DOMAIN recs : \A r \in RiskClasses \ {"critical"} :
        recs[i].required[r] # {} /\ recs[i].required[r] \subseteq Plannable

\* GovernedByMerit: no repo or changed path has a "*" in its name.  Against
\* such a name a "*" of a pattern counts as the literal first, and is not
\* retried as a wildcard.
NoStar(s) == \A j \in 1..Len(s) : s[j] # "*"
Plain(name) == name \in Texts /\ \A j \in 1..Len(name) : NoStar(name[j])
PlainNames == \A k \in Casts : \A c \in Cands :
                 Plain(k[c].repo) /\ \A p \in Pathset(k[c].paths) : Plain(p)

----------------------------------------------------------------------------
(***************************************************************************)
(* What the repository says and the code does not do                       *)
(***************************************************************************)

\* "representative eligible" is what stands a duplicate down, and a duplicate
\* has the path set of its representative.  propagateSupersession runs for any
\* member that renders eligible, and samePathSet compares lengths and tests
\* one inclusion, so it takes <<a, b, b>> for a, b, d.
SupersededByRepresentative ==
    \A c \in Cands : cand[c] = "superseded" =>
        /\ cand[cluster[c].rep] = "eligible"
        /\ Pathset(cast[c].paths) = Pathset(cast[cluster[c].rep].paths)
=============================================================================
