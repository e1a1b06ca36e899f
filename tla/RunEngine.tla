------------------------------ MODULE RunEngine ------------------------------
(***************************************************************************)
(* The control-plane's validation engine (services/control-plane): how the *)
(* runs of a candidate are admitted, dispatched to the fleet, completed,   *)
(* retried and cancelled, and how their results decide the candidate.      *)
(*                                                                         *)
(* Three kinds of thread share the ctrl schema: the scheduler loop (Tick = *)
(* dispatchQueued, then IngestCompletions), the reconciler loop, and API   *)
(* handlers.  db is the schema.  A transaction is one action: each appends *)
(* to the ledger under one advisory lock before it updates a projection,   *)
(* so effect transactions are serial.  What a thread reads before its      *)
(* transaction is a step of its own, because it is stale by then.          *)
(*                                                                         *)
(* The fleet is present by its contract: FencedJob, which Fleet            *)
(* implements.  The control-plane sees a job's accepted result in the feed *)
(* of completions.  The deployment runs one control-plane instance; its    *)
(* candidates here belong to one tenant and one intent.                    *)
(***************************************************************************)
EXTENDS Naturals, Sequences, FiniteSets, SequencesExt

CONSTANTS
    Cands, Runs,
    CandOf,       \* CandOf[r]: the candidate run r validates
    Kind,         \* Kind[r]: the evidence kind its job produces
    Required,     \* kinds the plan requires
    Plan,         \* Plan[r]: 0 for runs of the first plan, n for the n-th replan
    Relation,     \* Relation[c] to its cluster's representative
    Tier, WIPCap, \* Tier[r]; in-flight cap of each tier
    Est,          \* Est[r]: estimated cpu minutes
    Limit,        \* per-tenant-hour ceilings of "cpu" and "conc"
    Minutes,      \* cpu minutes a finished job may report
    Results,      \* what a finished job may look like to the control-plane
    FeedLimit,    \* rows one poll of the completion feed returns (50)
    MaxRetry,     \* attempts allowed to an infra-transient failure (2)
    MaxFeedAttempts, \* poison cap (5)
    MaxRerun,     \* revalidations allowed per candidate
    MaxEpoch,     \* bound: epochs the fleet gives a job
    MaxHour,      \* bound: hour boundaries crossed
    Env           \* which events of the environment happen at all

Counters == {"cpu", "conc"}
AllResults == {"pass", "hollow", "infra", "infra_timeout", "security", "flake",
               "repairable", "unclassified", "cancelled"}
EnvEvents == {"crash", "enqueue_error", "enqueue_refused", "takeover", "ageing", "lease_ttl",
              "closed", "push", "synchronize", "uninstall", "revalidate"}
Relations == {"none", "representative", "duplicate_of", "alternative_of", "composable_with",
              "conflicts_with", "prerequisite_of"}

ASSUME EngineConstants ==
    /\ IsFiniteSet(Runs) /\ CandOf \in [Runs -> Cands] /\ Plan \in [Runs -> Nat] /\ Est \in [Runs -> Nat]
    /\ Relation \in [Cands -> Relations] /\ Limit \in [Counters -> Nat]
    /\ \A r \in Runs : WIPCap[Tier[r]] \in Nat
    /\ Minutes \subseteq Nat /\ Results \subseteq AllResults
    /\ Env \subseteq EnvEvents
    /\ {FeedLimit, MaxRetry, MaxFeedAttempts, MaxRerun, MaxEpoch, MaxHour} \subseteq Nat

VARIABLES
    db,         \* the tables of schema ctrl, a record
    hour,       \* the wall clock's UTC hour
    cell,       \* fleet: the job of each run, as FencedJob sees it
    jobAttempt, \* fleet: attempt the job was enqueued with
    feed,       \* fleet: runs with an accepted result, oldest first
    pc,         \* scheduler: where Tick is
    todo,       \* scheduler: admissions [run, conc] still to dispatch
    inbox,      \* scheduler: feed rows still to ingest
    hand,       \* scheduler: what the item in work was when it was read
    scan,       \* reconciler: stale runs found, still to cancel
    replan      \* revalidate: candidate and prior queued runs as read

fleetVars == <<cell, jobAttempt, feed>>
engineVars == <<pc, todo, inbox, hand>>
vars == <<db, hour, fleetVars, engineVars, scan, replan>>

Job == INSTANCE FencedJob WITH Outcomes <- Results

RunStates == {"absent", "queued", "dispatched", "succeeded", "failed", "timed_out", "cancelled"}
CandStates == {"absent", "submitted", "blocked_representative", "repairing", "eligible",
               "rejected", "superseded", "cancelled"}
Verbs == {"eligible", "rejected", "deferred"}

\* A row of validation_runs.  late: dispatched_at is beyond the stale cutoff.
\* conc records what the dispatch of this run reserved of the concurrency
\* counter and nobody released since; the code keeps no such column.
Row == [state : RunStates, attempt : Nat, fence : Nat, late : BOOLEAN, conc : 0..1]

NoRow == [state |-> "absent", attempt |-> 0, fence |-> 0, late |-> FALSE, conc |-> 0]
NewRow == [NoRow EXCEPT !.state = "queued", !.attempt = 1]
Idle == "idle"
Nothing == <<>>

----------------------------------------------------------------------------
(***************************************************************************)
(* Pure rules                                                              *)
(***************************************************************************)

\* CandidateState.Terminal and the live-candidate predicate of the store.
CandTerminal(st) == st \in {"eligible", "rejected", "superseded", "cancelled"}
Live(st) == st # "absent" /\ ~CandTerminal(st)

\* mapFleetStatus of a result, and the table of routeFailure.
Status(x) == CASE x \in {"pass", "hollow"} -> "succeeded"
               [] x = "infra_timeout"      -> "timed_out"
               [] x = "cancelled"          -> "cancelled"
               [] OTHER                    -> "failed"

Route(x) == CASE x = "security"                       -> "reject"
              [] x = "repairable"                     -> "repair"
              [] x \in {"infra", "infra_timeout"}     -> "retry"
              [] x \in {"flake", "unclassified"}      -> "defer"

\* completionIsDiagnostic: the run cannot advance, or its candidate is decided.
Diagnostic(row, candState) == CandTerminal(candState) \/ row.state # "dispatched"

\* rows a poll of the feed returns: the newest FeedLimit ones, newest first.
FeedPage == [i \in 1..(IF Len(feed) < FeedLimit THEN Len(feed) ELSE FeedLimit) |->
                feed[Len(feed) + 1 - i]]

\* dedupeKey
Key(r) == <<r, cell[r].epoch>>

\* dispatchOne stamps the epoch of the fleet's first claim.
LeaseFence == 1

\* RecordFeedFailureTx answers RowsAffected of its upsert, not the count.
RecordedAttempts == 1

InFlight(d, t) == {r \in Runs : Tier[r] = t /\ d.run[r].state = "dispatched"}

\* Mutant: the batch is admitted as a whole.
AdmitAll(batch, d) == [i \in 1..Len(batch) |-> [run |-> batch[i], conc |-> 1]]

\* One turn of Admit's loop: r is admitted when its WIP slot, its cpu minutes
\* and, for the first run of its candidate, a concurrency slot fit.  What
\* remains of a budget may be negative, so needs are compared by sums.
AdmitRun(acc, r, d) ==
    LET sameCand == {i \in 1..Len(acc.adm) : CandOf[acc.adm[i].run] = CandOf[r]}
        sameTier == {i \in 1..Len(acc.adm) : Tier[acc.adm[i].run] = Tier[r]}
        slots == {i \in 1..Len(acc.adm) : acc.adm[i].conc = 1}
        conc == IF sameCand = {} THEN 1 ELSE 0
    IN IF /\ Cardinality(InFlight(d, Tier[r])) + Cardinality(sameTier) + 1 <= WIPCap[Tier[r]]
          /\ acc.cpu + Est[r] <= Limit["cpu"]
          /\ d.used["conc"] + Cardinality(slots) + conc <= Limit["conc"]
       THEN [adm |-> Append(acc.adm, [run |-> r, conc |-> conc]), cpu |-> acc.cpu + Est[r]]
       ELSE acc

\* Admit: walk the ranked batch.
Admit(batch, d) ==
    LET step[n \in 0..Len(batch)] ==
          IF n = 0 THEN [adm |-> <<>>, cpu |-> d.used["cpu"]] ELSE AdmitRun(step[n - 1], batch[n], d)
    IN step[Len(batch)].adm

----------------------------------------------------------------------------
(***************************************************************************)
(* Store operations: each maps the tables to the tables                    *)
(***************************************************************************)

\* INSERT of the candidate's runs of plan p.
InsertRuns(d, c, p) ==
    [d EXCEPT !.run = [r \in Runs |-> IF CandOf[r] = c /\ Plan[r] = p THEN NewRow ELSE d.run[r]]]

\* SubmitCandidateTx; a duplicate is parked.
SubmitCandidateTx(d, c) ==
    InsertRuns([d EXCEPT !.cand[c] = IF Relation[c] = "duplicate_of"
                                     THEN "blocked_representative" ELSE "submitted"], c, 0)

\* Mutant: the UPDATE has no condition on the state.
MarkAlways(d, c, st, from) == [d EXCEPT !.cand[c] = st]

\* MarkCandidateStateTx: a conditional UPDATE whose row count nobody reads.
Mark(d, c, st, from) == IF d.cand[c] \in from THEN [d EXCEPT !.cand[c] = st] ELSE d

\* UPDATE validation_runs SET state = cancelled WHERE state IN (queued, dispatched).
CancelRuns(d, S) ==
    [d EXCEPT !.run = [r \in Runs |->
        IF r \in S /\ d.run[r].state \in {"queued", "dispatched"}
        THEN [d.run[r] EXCEPT !.state = "cancelled"] ELSE d.run[r]]]

Queued(d, c) == {r \in Runs : CandOf[r] = c /\ d.run[r].state = "queued"}

\* ReserveBudgetsTx: a counter of an earlier hour restarts from the delta.
Reserve(d, delta) ==
    [d EXCEPT !.used = [k \in Counters |->
                          IF delta[k] = 0 THEN d.used[k]
                          ELSE IF d.window[k] < hour THEN delta[k] ELSE d.used[k] + delta[k]],
              !.window = [k \in Counters |-> IF delta[k] = 0 THEN d.window[k] ELSE hour]]
Exhausted(d, delta) == \E k \in Counters : delta[k] > 0 /\ d.used[k] > Limit[k]

\* Mutant: no GREATEST.
ReleaseUnclamped(d, S, cpu) ==
    [d EXCEPT !.used = [k \in Counters |->
                          d.used[k] - (IF k = "cpu" THEN cpu ELSE Cardinality(S))],
              !.run = [r \in Runs |-> IF r \in S THEN [d.run[r] EXCEPT !.conc = 0] ELSE d.run[r]]]

\* ReleaseBudgetsTx for the runs S: GREATEST(0, used - delta), and one
\* concurrency slot each whatever their dispatch reserved.
Release(d, S, cpu) ==
    LET Minus(a, b) == IF a < b THEN 0 ELSE a - b IN
    [d EXCEPT !.used = [k \in Counters |->
                          Minus(d.used[k], IF k = "cpu" THEN cpu ELSE Cardinality(S))],
              !.run = [r \in Runs |-> IF r \in S THEN [d.run[r] EXCEPT !.conc = 0] ELSE d.run[r]]]

\* ActualCPUMinutes: the measured minutes, or the estimate when there are none.
ActualCPUMinutes(r, m) == IF m = 0 THEN Est[r] ELSE m

\* BudgetUsageSnapshot zeroes the counters of earlier hours.
RollOver(d) ==
    [d EXCEPT !.used = [k \in Counters |-> IF d.window[k] < hour THEN 0 ELSE d.used[k]],
              !.window = [k \in Counters |-> hour]]

MarkProcessed(d, key) == [d EXCEPT !.processed = @ \cup {key}]
ClearFeedRetries(d, r) == [d EXCEPT !.retries[r] = 0]

----------------------------------------------------------------------------
(***************************************************************************)
(* Effects of a completion                                                 *)
(***************************************************************************)

Open == {"submitted", "repairing"}

\* Mutant: every decision revokes the lease.
RevokeLeaseAlways(d) == IF d.lease = "granted" THEN [d EXCEPT !.lease = "revoked"] ELSE d

\* maybeRevokeLease: the intent's lease goes with its last live candidate.
MaybeRevokeLease(d) ==
    IF d.lease = "granted" /\ \A c \in Cands : ~Live(d.cand[c])
    THEN [d EXCEPT !.lease = "revoked"] ELSE d

\* The estimates of the runs S together.
Estimates(S) ==
    LET sum[T \in SUBSET S] ==
          IF T = {} THEN 0
          ELSE LET r == CHOOSE r \in T : TRUE IN ActualCPUMinutes(r, 0) + sum[T \ {r}]
    IN sum[S]

\* CancelRunsForCandidateTx of the candidates C: dispatched runs give back
\* their estimate.
CancelRunsForCandidates(d, C) ==
    LET In(st) == {r \in Runs : CandOf[r] \in C /\ d.run[r].state = st}
    IN Release(CancelRuns(d, In("queued") \cup In("dispatched")), In("dispatched"), Estimates(In("dispatched")))

\* propagateSupersession: every duplicate and alternative of the cluster's
\* representative is announced, marked and cancelled, whoever the winner is.
PropagateSupersession(d, winner) ==
    LET losers == {c \in Cands : Relation[c] \in {"duplicate_of", "alternative_of"}
                                 /\ d.cand[c] # "absent"}
        marked == [d EXCEPT
            !.announced = @ \cup losers,
            !.cand = [c \in Cands |-> IF c \in losers /\ Live(d.cand[c])
                                      THEN "superseded" ELSE d.cand[c]]]
    IN IF Relation[winner] = "none" THEN d ELSE CancelRunsForCandidates(marked, losers)

\* renderDecision.  The plan's own state is not modelled: nothing reads it.
RenderDecision(d, c, verb) ==
    LET said == [d EXCEPT !.decisions[c] = Append(@, verb)] IN
    MaybeRevokeLease(
        CASE verb = "eligible" -> PropagateSupersession(Mark(said, c, "eligible", Open), c)
          [] verb = "rejected" -> Mark(said, c, "rejected", Open)
          [] verb = "deferred" -> said)

\* maybeRenderEligible: first decision, no unresolved required failure, no
\* repair pending, candidate live, an accepted record for every required kind.
Sufficient(d, c) ==
    \A k \in Required : \E e \in d.evidence : CandOf[e[1]] = c /\ Kind[e[1]] = k
FailedRequired(d, c) ==
    {r \in Runs : CandOf[r] = c /\ Kind[r] \in Required
                  /\ d.run[r].state \in {"failed", "timed_out"}}
\* Mutant: an earlier decision does not stop it.
RenderEligibleAgain(d, c) ==
    IF /\ FailedRequired(d, c) = {}
       /\ ~CandTerminal(d.cand[c]) /\ d.cand[c] # "repairing"
       /\ Sufficient(d, c)
    THEN RenderDecision(d, c, "eligible") ELSE d

MaybeRenderEligible(d, c) ==
    IF /\ d.decisions[c] = <<>>
       /\ FailedRequired(d, c) = {}
       /\ ~CandTerminal(d.cand[c]) /\ d.cand[c] # "repairing"
       /\ Sufficient(d, c)
    THEN RenderDecision(d, c, "eligible") ELSE d

\* Mutant: a pass without executed tests is evidence.
AcceptHollow(d, r, attempt, x) ==
    MaybeRenderEligible(
        IF Kind[r] \in Required THEN [d EXCEPT !.evidence = @ \cup {<<r, attempt>>}] ELSE d,
        CandOf[r])

\* onRunSucceeded: a record only for a required kind and an executed pass.
OnRunSucceeded(d, r, attempt, x) ==
    MaybeRenderEligible(
        IF Kind[r] \in Required /\ x = "pass"
        THEN [d EXCEPT !.evidence = @ \cup {<<r, attempt>>}] ELSE d, CandOf[r])

\* retryRun: written from the loaded row, whatever the row is by now.
RetryRun(d, r, row) ==
    [d EXCEPT !.run[r].state = "queued", !.run[r].attempt = row.attempt + 1,
              !.run[r].fence = row.fence + 1]

AuthorizeRepair(d, c) == Mark([d EXCEPT !.repair[c] = "authorized"], c, "repairing", {"submitted"})

OnRunFailed(d, r, row, x) ==
    LET c == CandOf[r] IN
    CASE Route(x) = "retry" /\ row.attempt < MaxRetry -> RetryRun(d, r, row)
      [] Route(x) = "reject" -> RenderDecision(d, c, "rejected")
      [] Route(x) = "repair" -> AuthorizeRepair(d, c)
      [] OTHER               -> RenderDecision(d, c, "deferred")

\* run.retry is legal from failed only: retrying a timed-out run is an illegal
\* transition, which rolls the whole transaction back.
Poison(row, x) == x = "infra_timeout" /\ row.attempt < MaxRetry

\* appendCompletedTx: the row is advanced unless it was cancelled meanwhile.
AppendCompleted(d, r, x) ==
    IF d.run[r].state = "cancelled" THEN d
    ELSE [d EXCEPT !.run[r].state = Status(x), !.run[r].fence = cell[r].epoch]

\* The effect transaction of applyCompletion, for the row loaded before it.
Effects(d, r, row, minutes) ==
    LET x == cell[r].result
        done == Release(AppendCompleted(MarkProcessed(d, Key(r)), r, x), {r},
                        ActualCPUMinutes(r, minutes))
    IN ClearFeedRetries(
         CASE Status(x) = "succeeded" -> OnRunSucceeded(done, r, row.attempt, x)
           [] Status(x) = "cancelled" -> done
           [] OTHER -> OnRunFailed(done, r, row, x), r)

----------------------------------------------------------------------------
Init ==
    /\ db = [cand |-> [c \in Cands |-> "absent"], rerun |-> [c \in Cands |-> 0],
             run |-> [r \in Runs |-> NoRow], evidence |-> {},
             decisions |-> [c \in Cands |-> <<>>], repair |-> [c \in Cands |-> "none"],
             announced |-> {}, lease |-> "granted",
             used |-> [k \in Counters |-> 0], window |-> [k \in Counters |-> 0],
             processed |-> {}, retries |-> [r \in Runs |-> 0]]
    /\ hour = 0
    /\ cell = [r \in Runs |-> Job!At("none", 0, "none")]
    /\ jobAttempt = [r \in Runs |-> 0]
    /\ feed = <<>>
    /\ pc = Idle /\ todo = {} /\ inbox = <<>> /\ hand = Nothing
    /\ scan = {}
    /\ replan = Nothing

(***************************************************************************)
(* Scheduler loop: dispatchQueued, then IngestCompletions                  *)
(***************************************************************************)

\* QueuedRuns: queued, and the candidate is neither decided nor parked.
QueuedRuns(d) ==
    {r \in Runs : d.run[r].state = "queued" /\ Live(d.cand[CandOf[r]])
                  /\ d.cand[CandOf[r]] # "blocked_representative"}

\* dispatchQueued up to its loop: read the queue, roll the hour over, admit.
\* The rank is data (risk, cost, age), so the batch comes in any order.
\* Nothing else adds dispatched runs or usage between these reads.
TickBegin ==
    /\ pc = Idle
    /\ db' = IF QueuedRuns(db) = {} THEN db ELSE RollOver(db)
    /\ \E ranked \in SetToSeqs(QueuedRuns(db)) : todo' = ToSet(Admit(ranked, db'))
    /\ pc' = "dispatching"
    /\ UNCHANGED <<hour, fleetVars, inbox, hand, scan, replan>>

\* dispatchOne: the run left the queue since it was admitted.
DispatchSkip(a) ==
    /\ pc = "dispatching" /\ a \in todo
    /\ db.run[a.run].state # "queued"
    /\ todo' = todo \ {a}
    /\ UNCHANGED <<db, hour, fleetVars, pc, inbox, hand, scan, replan>>

\* The fleet's side of Enqueue: a run id it knows is a replay.
Enqueued(r) ==
    IF cell[r].phase # "none" THEN UNCHANGED <<cell, jobAttempt>>
    ELSE /\ cell' = [cell EXCEPT ![r] = Job!At("open", 0, "none")]
         /\ jobAttempt' = [jobAttempt EXCEPT ![r] = db.run[r].attempt]

DispatchEnqueue(a) ==
    /\ pc = "dispatching" /\ a \in todo
    /\ db.run[a.run].state = "queued"
    /\ Enqueued(a.run)
    /\ pc' = "committing" /\ todo' = todo \ {a} /\ hand' = a
    /\ UNCHANGED <<db, hour, feed, inbox, scan, replan>>

\* The fleet refuses the job with a 4xx, which the client takes for success.
EnqueueRefused(a) ==
    /\ "enqueue_refused" \in Env
    /\ pc = "dispatching" /\ a \in todo
    /\ db.run[a.run].state = "queued"
    /\ pc' = "committing" /\ todo' = todo \ {a} /\ hand' = a
    /\ UNCHANGED <<db, hour, fleetVars, inbox, scan, replan>>

\* The call fails or times out; the fleet may have registered the job or not.
EnqueueFails(a) ==
    /\ "enqueue_error" \in Env
    /\ pc = "dispatching" /\ a \in todo
    /\ db.run[a.run].state = "queued"
    /\ Enqueued(a.run) \/ UNCHANGED <<cell, jobAttempt>>
    /\ todo' = todo \ {a}
    /\ UNCHANGED <<db, hour, feed, pc, inbox, hand, scan, replan>>

\* DispatchRunTx with ReserveBudgetsTx: both or neither.
DispatchCommit ==
    LET r == hand.run
        delta == [k \in Counters |-> IF k = "cpu" THEN Est[r] ELSE hand.conc]
        reserved == Reserve(db, delta)
    IN /\ pc = "committing"
       /\ db' = IF db.run[r].state = "queued" /\ ~Exhausted(reserved, delta)
                THEN [reserved EXCEPT !.run[r].state = "dispatched", !.run[r].fence = LeaseFence,
                                      !.run[r].late = FALSE, !.run[r].conc = hand.conc]
                ELSE db
       /\ pc' = "dispatching" /\ hand' = Nothing
       /\ UNCHANGED <<hour, fleetVars, todo, inbox, scan, replan>>

\* IngestCompletions: one page of the feed, less what was processed before.
FeedRead ==
    LET new == {i \in 1..Len(FeedPage) : Key(FeedPage[i]) \notin db.processed} IN
    /\ pc = "dispatching" /\ todo = {}
    /\ \E order \in SetToSeqs(new) :
          /\ \A k, m \in DOMAIN order : k < m => order[k] < order[m]
          /\ inbox' = [k \in DOMAIN order |-> FeedPage[order[k]]]
    /\ pc' = IF inbox' = <<>> THEN Idle ELSE "ingesting"
    /\ UNCHANGED <<db, hour, fleetVars, todo, hand, scan, replan>>

\* applyCompletion's reads: GetRunByID, then CandidateStateByID.
IngestLoad ==
    LET r == Head(inbox) IN
    /\ pc = "ingesting"
    /\ hand' = [run |-> r, row |-> db.run[r], cand |-> db.cand[CandOf[r]]]
    /\ pc' = "applying"
    /\ UNCHANGED <<db, hour, fleetVars, todo, inbox, scan, replan>>

\* applyCompletion's verdict on the completion in hand.
Stale(h) == cell[h.run].epoch # h.row.fence \/ jobAttempt[h.run] # h.row.attempt
Absorbed(d, r) == ClearFeedRetries(MarkProcessed(d, Key(r)), r)
IngestDb(h, minutes) ==
    LET r == h.run IN
    CASE Stale(h) -> Absorbed(db, r)
      [] ~Stale(h) /\ Diagnostic(h.row, h.cand) -> MarkProcessed(db, Key(r))
      [] ~Stale(h) /\ ~Diagnostic(h.row, h.cand) /\ Poison(h.row, cell[r].result) ->
           IF RecordedAttempts >= MaxFeedAttempts THEN Absorbed(db, r)
           ELSE [db EXCEPT !.retries[r] = IF @ < MaxFeedAttempts THEN @ + 1 ELSE @]
      [] OTHER -> IF Key(r) \in db.processed THEN db ELSE Effects(db, r, h.row, minutes)

IngestApply ==
    /\ pc = "applying"
    /\ \E m \in Minutes : db' = IngestDb(hand, m)
    /\ inbox' = Tail(inbox) /\ hand' = Nothing
    /\ pc' = IF Tail(inbox) = <<>> THEN Idle ELSE "ingesting"
    /\ UNCHANGED <<hour, fleetVars, todo, scan, replan>>

\* The process dies between any two steps; only the tables survive.
Crash ==
    /\ "crash" \in Env
    /\ pc # Idle \/ scan # {} \/ replan # Nothing
    /\ pc' = Idle /\ todo' = {} /\ inbox' = <<>> /\ hand' = Nothing
    /\ scan' = {} /\ replan' = Nothing
    /\ UNCHANGED <<db, hour, fleetVars>>

(***************************************************************************)
(* Reconciler loop                                                         *)
(***************************************************************************)

\* CancelStaleDispatchedRuns: its scan, then one transaction per run found.
ReconcileScan ==
    /\ scan = {}
    /\ scan' = {r \in Runs : db.run[r].state = "dispatched" /\ db.run[r].late}
    /\ scan' # {}
    /\ UNCHANGED <<db, hour, fleetVars, engineVars, replan>>

\* Mutant: only runs that went back to the queue are cancelled.
ReconcileQueuedOnly(r) ==
    /\ r \in scan
    /\ db' = IF db.run[r].state = "queued" THEN CancelRuns(db, {r}) ELSE db
    /\ scan' = scan \ {r}
    /\ UNCHANGED <<hour, fleetVars, engineVars, replan>>

\* The cancel call to the fleet that follows carries no lease token, is
\* refused with a 401 and counted as done: the job is not touched.
ReconcileCancel(r) ==
    /\ r \in scan
    /\ db' = IF db.run[r].state \in {"queued", "dispatched"}
             THEN Release(CancelRuns(db, {r}), {r}, ActualCPUMinutes(r, 0)) ELSE db
    /\ scan' = scan \ {r}
    /\ UNCHANGED <<hour, fleetVars, engineVars, replan>>

\* ReleaseLease of a due change-scope lease.
LeaseExpires ==
    /\ "lease_ttl" \in Env
    /\ db.lease = "granted"
    /\ db' = [db EXCEPT !.lease = "expired"]
    /\ UNCHANGED <<hour, fleetVars, engineVars, scan, replan>>

(***************************************************************************)
(* API and webhook handlers                                                *)
(***************************************************************************)

\* Mutant: the queued runs are left in the queue.
RetireKeepsRuns(d, S, st) ==
    [d EXCEPT !.cand = [c \in Cands |-> IF c \in S THEN st ELSE d.cand[c]]]

\* Candidates S leave the live set for st; their queued runs are cancelled,
\* dispatched ones are left to the fence.
Retire(d, S, st) ==
    CancelRuns([d EXCEPT !.cand = [c \in Cands |-> IF c \in S THEN st ELSE d.cand[c]]],
               UNION {Queued(d, c) : c \in S})

\* supersedeCandidateTx of S: announced, and open repairs are aborted.
Supersede(d, S) ==
    [Retire(d, S, "superseded") EXCEPT
        !.announced = @ \cup S,
        !.repair = [c \in Cands |-> IF c \in S /\ d.repair[c] = "authorized"
                                    THEN "aborted" ELSE d.repair[c]]]

LiveCands == {c \in Cands : Live(db.cand[c])}
Handler(d) == db' = d /\ UNCHANGED <<hour, fleetVars, engineVars, scan, replan>>

\* POST candidates, or pr.opened.  A cluster is joined while it exists, and
\* clusters outlive their representative's decision.
Submit(c) ==
    /\ db.cand[c] = "absent"
    /\ Relation[c] \notin {"none", "representative"} =>
          \E p \in Cands : Relation[p] = "representative" /\ db.cand[p] # "absent"
    /\ Handler(SubmitCandidateTx(db, c))

\* pr.synchronize with a fresh head c: it replaces every live candidate.
Synchronize(c) ==
    /\ "synchronize" \in Env
    /\ db.cand[c] = "absent" /\ Relation[c] = "none"
    /\ \E p \in Cands : db.cand[p] # "absent"
    /\ Handler(Supersede(SubmitCandidateTx(db, c), LiveCands))

\* pr.closed
Close ==
    /\ "closed" \in Env
    /\ LiveCands # {}
    /\ Handler(Retire(db, LiveCands, "cancelled"))

\* A push moves the base of the live candidates S.
BaseAdvanced(S) ==
    /\ "push" \in Env
    /\ S # {} /\ S \subseteq LiveCands
    /\ Handler(Supersede(db, S))

\* installation.deleted: found through its granted leases only.
Uninstall ==
    /\ "uninstall" \in Env
    /\ db.lease = "granted"
    /\ Handler([Retire(db, LiveCands, "cancelled") EXCEPT !.lease = "revoked"])

\* POST revalidate: the prior queued runs are read before the append lock.
RevalidateRead(c) ==
    /\ "revalidate" \in Env
    /\ replan = Nothing /\ db.cand[c] # "absent"
    /\ replan' = [cand |-> c, prior |-> Queued(db, c)]
    /\ UNCHANGED <<db, hour, fleetVars, engineVars, scan>>

RevalidateCommit ==
    LET c == replan.cand IN
    /\ replan # Nothing
    /\ db' = IF db.rerun[c] < MaxRerun /\ Live(db.cand[c])
             THEN [CancelRuns(InsertRuns(db, c, db.rerun[c] + 1), replan.prior)
                     EXCEPT !.rerun[c] = @ + 1]
             ELSE db
    /\ replan' = Nothing
    /\ UNCHANGED <<hour, fleetVars, engineVars, scan>>

(***************************************************************************)
(* Fleet and time                                                          *)
(***************************************************************************)

\* A worker claims r's job, the sweep takes it back, or its holder kills it.
FleetMoves(r) ==
    /\ cell[r].epoch < MaxEpoch
    /\ \E p \in {"granted", "open", "closed"} :
         LET d == Job!At(p, cell[r].epoch + 1, "none") IN
         /\ \/ Job!Grant(cell[r], d)
            \/ "takeover" \in Env /\ (Job!Revoke(cell[r], d) \/ Job!Kill(cell[r], d))
         /\ cell' = [cell EXCEPT ![r] = d]
    /\ UNCHANGED <<db, hour, jobAttempt, feed, engineVars, scan, replan>>

\* A worker's result is accepted and shows up in the feed.
FleetAccepts(r, x) ==
    LET d == Job!At("closed", cell[r].epoch, x) IN
    /\ Job!Accept(cell[r], d)
    /\ cell' = [cell EXCEPT ![r] = d]
    /\ feed' = Append(feed, r)
    /\ UNCHANGED <<db, hour, jobAttempt, engineVars, scan, replan>>

\* dispatched_at falls behind the stale cutoff.
RunAges(r) ==
    /\ "ageing" \in Env
    /\ db.run[r].state = "dispatched" /\ ~db.run[r].late
    /\ Handler([db EXCEPT !.run[r].late = TRUE])

HourTurns ==
    /\ hour < MaxHour
    /\ hour' = hour + 1
    /\ UNCHANGED <<db, fleetVars, engineVars, scan, replan>>

----------------------------------------------------------------------------
Scheduler ==
    \/ TickBegin \/ DispatchCommit \/ FeedRead \/ IngestLoad \/ IngestApply
    \/ \E a \in todo : DispatchSkip(a) \/ DispatchEnqueue(a) \/ EnqueueRefused(a) \/ EnqueueFails(a)

Reconciler == ReconcileScan \/ LeaseExpires \/ \E r \in Runs : ReconcileCancel(r)

Api ==
    \/ \E c \in Cands : Submit(c) \/ Synchronize(c) \/ RevalidateRead(c)
    \/ \E S \in SUBSET Cands : BaseAdvanced(S)
    \/ Close \/ Uninstall \/ RevalidateCommit

FleetNext ==
    \E r \in Runs : FleetMoves(r) \/ RunAges(r) \/ \E x \in Results : FleetAccepts(r, x)

Next == Scheduler \/ Reconciler \/ Api \/ FleetNext \/ HourTurns \/ Crash

Spec == Init /\ [][Next]_vars

\* The loops run for ever, time passes, and a crash does not strike every
\* attempt at a step: the steps between two ticks are strongly fair, because a
\* crash disables them.
ReconcilerFairness ==
    /\ SF_vars(ReconcileScan) /\ SF_vars(\E r \in Runs : ReconcileCancel(r))
    /\ WF_vars(\E r \in Runs : RunAges(r))

SchedulerFairness ==
    /\ WF_vars(TickBegin)
    /\ SF_vars(DispatchCommit) /\ SF_vars(FeedRead) /\ SF_vars(IngestLoad) /\ SF_vars(IngestApply)
    /\ SF_vars(\E a \in todo : DispatchSkip(a) \/ DispatchEnqueue(a) \/ EnqueueRefused(a) \/ EnqueueFails(a))

ReconcilerSpec == Spec /\ ReconcilerFairness
FairSpec == ReconcilerSpec /\ SchedulerFairness

(***************************************************************************)
(* Properties                                                              *)
(***************************************************************************)

\* Shape of the state; the counters and row columns are naturals, so a release
\* never drives a counter below zero.
TypeOK ==
    /\ db.cand \in [Cands -> CandStates] /\ db.rerun \in [Cands -> 0..MaxRerun]
    /\ db.run \in [Runs -> Row]
    /\ db.evidence \subseteq Runs \X Nat
    /\ db.decisions \in [Cands -> Seq(Verbs)]
    /\ db.repair \in [Cands -> {"none", "authorized", "aborted"}]
    /\ db.announced \subseteq Cands /\ db.lease \in {"granted", "expired", "revoked"}
    /\ db.used \in [Counters -> Nat] /\ db.window \in [Counters -> 0..MaxHour]
    /\ db.processed \subseteq Runs \X Nat /\ db.retries \in [Runs -> 0..MaxFeedAttempts]
    /\ hour \in 0..MaxHour
    /\ cell \in [Runs -> Job!Cell] /\ jobAttempt \in [Runs -> Nat] /\ feed \in Seq(Runs)
    /\ pc \in {Idle, "dispatching", "committing", "ingesting", "applying"}
    /\ todo \subseteq [run : Runs, conc : 0..1] /\ inbox \in Seq(Runs)
    /\ pc = "committing" => hand \in [run : Runs, conc : 0..1]
    /\ pc = "applying" => hand \in [run : Runs, row : Row, cand : CandStates]
    /\ scan \subseteq Runs
    /\ replan = Nothing \/ replan \in [cand : Cands, prior : SUBSET Runs]

\* Admission of a whole batch against one snapshot, with cancellations,
\* crashes and partial dispatches in between, never puts more runs of a tier in
\* flight than its WIP cap (I-10, scheduler.Admit).
WIPNeverOverrun ==
    \A r \in Runs : Cardinality(InFlight(db, Tier[r])) <= WIPCap[Tier[r]]

\* No run is dispatched for a candidate that is already decided, although
\* admission looked at the candidate several steps earlier and the dispatch
\* transaction does not look at it again (EC-002).
NoWorkForTerminal ==
    [][\A r \in Runs :
          db.run[r].state # "dispatched" /\ db'.run[r].state = "dispatched" =>
             Live(db'.cand[CandOf[r]])]_vars

\* A terminal candidate keeps its state, whichever completion, webhook or
\* revalidation read it while it was live and writes now (I-08).
TerminalCandidateFrozen ==
    [][\A c \in Cands : CandTerminal(db.cand[c]) => db'.cand[c] = db.cand[c]]_vars

\* An eligible verdict is the candidate's only verdict and stays its state:
\* it is rendered once, on a live candidate, and nothing is decided after it.
EligibleIsFinal ==
    \A c \in Cands : "eligible" \in ToSet(db.decisions[c]) =>
        db.decisions[c] = <<"eligible">> /\ db.cand[c] = "eligible"

\* Behind an eligible verdict stands, for every required kind, a run of this
\* candidate whose job the fleet accepted as an executed pass in the epoch of
\* its dispatch (I-01, I-11): not a hollow pass, not a superseded holder.
EligibleEarned ==
    \A c \in Cands : db.cand[c] = "eligible" =>
        \A k \in Required : \E r \in Runs :
            /\ CandOf[r] = c /\ Kind[r] = k
            /\ cell[r].result = "pass" /\ cell[r].epoch = LeaseFence

\* The intent's change-scope lease is revoked only when no live candidate is
\* left to work under it (maybeRevokeLease, applyInstallationDeleted).
LeaseOutlivesWork ==
    [][db.lease = "granted" /\ db'.lease = "revoked" =>
          \A c \in Cands : ~Live(db'.cand[c])]_vars

\* Every dispatched run settles: the fleet answers, or the reconciler gives it
\* up, crashes of the control-plane notwithstanding.
DispatchedSettles ==
    \A r \in Runs : db.run[r].state = "dispatched" ~> db.run[r].state # "dispatched"

(***************************************************************************)
(* What the repository says and the code does not do                       *)
(***************************************************************************)

\* retryRun "re-queues the failed run with attempt++": the attempt the fleet
\* runs is the attempt the control-plane waits for.
RetryReexecutes ==
    \A r \in Runs : db.run[r].state = "dispatched" => jobAttempt[r] = db.run[r].attempt

\* I-06, "release the reservation in the SAME tx as the terminal flip": the
\* concurrency counter never shows more than the runs in flight reserved.  The
\* replan of revalidate cancels prior runs without a release, also one that was
\* dispatched since its queue was read.
NoSlotLeaked ==
    db.used["conc"] <= Cardinality({r \in Runs : db.run[r].state = "dispatched" /\ db.run[r].conc = 1})

\* The feed "re-presents accepted rows forever": every accepted result is
\* processed eventually.  It re-presents the newest page only.
FeedDrains == \A r \in Runs : cell[r].result # "none" ~> Key(r) \in db.processed
=============================================================================
