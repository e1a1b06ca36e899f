# Verification of cisync

cisync decides whether a proposed change (a *candidate*) may enter a merge
train. It plans validation jobs for the candidate, runs them on a fleet of
workers, turns their results into evidence and failures, and renders a decision
that a GitHub connector publishes. This directory holds TLA+ specifications of
the part of the system that carries its correctness, TLC configurations that
check them, and machine-checked proofs. Invariants are cited as I-nn
(`src/docs/INVARIANTS.md`), edge cases as EC-nnn (`src/docs/EDGE_CASES.md`).

## 1. Inventory

| Part | State | Operations | What is hard | What makes it correct |
|---|---|---|---|---|
| `runner-fleet` job table, HTTP protocol | `fleet.execution_jobs`, `fleet.workers` | enqueue, claim, heartbeat, complete, cancel, sweep | late and repeated requests of workers that lost their job; the sweep deletes worker rows claims refer to | one accepted result per run, from the holder of the current fence (I-11); a dead worker's job is taken back |
| `runner-fleet` executor | slots, claims in memory, handle registry | claim, submit, heartbeat, complete, restart | death between any two steps, lease expiry while a job runs | as above; a queued job is claimed |
| `control-plane` scheduler | `ctrl.validation_runs`, budget counters, `processed_events`, `feed_retries` | Tick: admit, dispatch, ingest completions | reads that are stale when the transaction starts; a crash between the fleet call and the commit | WIP caps hold (I-10); no work for decided candidates; results are consumed exactly once (I-12) |
| `control-plane` effects | candidates, evidence, decisions, repairs, clusters | evidence, retry, repair, reject, defer, eligible, supersede | results in any order around retries, replans and verdicts | eligible is earned and final (I-01); terminal candidates do not move (I-08) |
| `control-plane` reconciler | the same tables | expire leases, cancel stale runs | races the scheduler on the same run | runs settle; budgets are conserved (I-06) |
| `control-plane` handlers | candidates, runs, leases, command log | submit, synchronize, close, push, uninstall, revalidate | webhooks against the scheduler's snapshots | the same invariants; idempotent commands |
| `control-plane` ledger, outbox, relay, verifier | `ctrl.ledger_events`, `ctrl.outbox` | append, claim a batch, publish, fail, verify the hash chain | a crash while rows are in delivery | append-only chain (I-07), at-least-once delivery |
| planner, policy, cluster, evidence, failure | none (pure) | plan, resolve, assign, evaluate, classify | boundary cases of the rules | agreement with reference definitions |
| `ingest` | deliveries, seen window | verify, dedupe, store, forward, retry | duplicates across a restart, retry against late answer | each delivery forwarded, effects once |
| `github-connector` | published decisions, pending queue, rate-limit gate, rerun budgets | publish checks, queue, drain, rerun, sweep | duplicates, rate limits, restarts | one check per decision, bounded reruns |
| `apps/web` | setup wizard, event board | reducer steps | resuming | reachable wizard states |

Interaction: `ingest` forwards webhooks to the control-plane's handlers; the
scheduler enqueues jobs at the fleet over HTTP and polls its feed of accepted
results; every control-plane transaction appends to the ledger, whose outbox the
relay delivers to the connector. The deployment runs one control-plane
instance (`src/platform/deploy/aws/terraform/modules/ecs/tasks_control_plane.tf`),
and every ledger append takes one advisory lock, so effect transactions are
serial; what a thread read before its transaction is not.

## 2. Modules

| Module | Models |
|---|---|
| `FencedJob` | abstract: the fleet's promise about each run. Granted to one holder at a time, each grant and each revocation is a new epoch, at most one result, in the epoch then granted |
| `Fleet`, `MCFleet`, `FleetProofs` | the job table, executor slots, external workers, sweeper, leases, restart; their TLC instances; their theorems |
| `RunEngine`, `MCRunEngine`, `RunEngineProofs` | scheduler, effects, budgets, reconciler and handlers over the ctrl schema; the fleet appears through `FencedJob` |
| `Relay`, `RelayProofs` | ledger with hash chain and checkpoints, verifier, outbox, the relay's two drainers |
| `Connector`, `ConnectorProofs` | the github-connector: the three envelopes, write gate, pending queue, drainer, tracker, sweeper, rerun guardrails |
| `Publishing`, `MCPublishing`, `PublishingProofs` | `Relay` composed with `Connector` through the connector publisher; the TLC instances of both, with the relay or with any clients |
| `Ingest` | the webhook edge: handlers, replay window, delivery rows, retry worker, audit markers, restart |
| `Webhooks` | the control-plane's delivery endpoint: normalisation, idempotency, effects on one pull request |
| `Edge`, `MCEdge`, `EdgeProofs` | `Ingest` composed with `Webhooks` through HTTP requests that time out and go on |
| `Leases`, `MCLeases`, `LeasesProofs` | intents and change-scope leases, command log, token bucket, with the locks their transactions take |
| `Policy`, `Planning` | policy resolution with its globs; tiers, triggers, surfaces and kinds of a plan |
| `Evidence`, `Clustering` | evaluation of reports, sufficiency, failure classification, repair contracts; similarity, assignment, supersession |
| `Sandbox` | one job on a worker: the three providers, the executor's timer, the completion gate, the feed's view of a result |
| `Assurance`, `MCAssurance`, `AssuranceProofs` | the five rule modules at work: submissions, results, routes, verdicts; their TLC instance; their theorems, with the lemmas about the rule modules |

Where the code has an empty string (no id, no status, no conclusion) the modules
from `Connector` to `Leases` write `"-"`.

### Fleet

One row of `execution_jobs` is one index of `status, fence, attempt, accepted,
claimedBy, beat, lease`; `order` is `created_at` order. `result` is a history
variable: who completed the row, with which fence. `held[w]` is what worker
`w` believes it holds; for an external worker it is never forgotten, which is
how requests that are repeated or arrive late are modelled. Each SQL statement
or transaction is one action: `Enqueue`, `ClaimRows` (in `SlotClaim` after
`SlotRegister`, and in `RemoteClaim`), `CompleteRow`, `Cancel`, the two statements
of a heartbeat (`HeartbeatRow`, then `HeartbeatWorker`, which refreshes whoever
`claimed_by` names by then), and the sweep's two statements `RequeueStale` and `PurgeStaleWorkers`, between
which anything may happen. `AuthorizedSlot` and `AuthorizedRemote` are the two
lease gates, which differ. Time is three actions (a heartbeat, a worker row, a
lease becomes old). A restarted process names its slots afresh; the model reuses
the names with an absent worker row. A slot whose registration fails ends
(`SlotDies`) and is missing until the next restart. `Cancel` follows the handler and the memory
store. The Postgres statement passes an argument (`$2`) that its text does not
use, which Postgres refuses for want of a type; under it `Cancel` never happens,
which is a subset of the behaviours checked.

### RunEngine

`db` is the ctrl schema: candidates, runs, evidence, decisions, repairs, the
intent's lease, budget counters with their hour, processed keys, feed retries.
Store operations map `db` to `db` and compose, so that a transaction is one
action that applies them in the code's order. The scheduler's position is `pc`:
`TickBegin` (queue read, hour roll-over, `Admit`), for each admission
`DispatchSkip`, `EnqueueFails`, or `DispatchEnqueue` or `EnqueueRefused` (a 4xx,
which `FleetClient.Enqueue` takes for success) and then `DispatchCommit`, then
`FeedRead`, and for each row `IngestLoad` then `IngestApply`. `hand`, `scan` and
`replan` hold what the scheduler, the reconciler and the revalidate handler read
before their transactions. `Crash` loses all of these. `FleetMoves` and
`FleetAccepts` take steps of `FencedJob`, which `Fleet` is proved to implement.

Data is abstracted to what the effects tell apart: a result is a class (`pass`,
`hollow` for a pass without executed tests, the failure classes of
`routeFailure`, `cancelled`), the rank of a batch is any order, a candidate's place in its
cluster is a constant. `Row.conc` is a history column: what the dispatch of a run
reserved of the concurrency counter and no transaction released since.

Behaviours the code has and the model keeps: `Mark` ignores the row count of its
conditional update; `RetryRun` writes from the loaded row; `Release` gives back
one concurrency slot for each completed run though only the first run of a
candidate in a batch reserved one; `RecordedAttempts` is the row count of an
upsert; `ReconcileCancel` and supersession do not reach the fleet, because
`FleetClient.Cancel` sends no lease token and takes the 401 for an answer.

### Relay, Connector, Publishing

Row i of the outbox is the row of ledger entry i, and a hash is the tuple of
what it digests. `ClaimOutboxBatch` is one transaction; the rows of the batch
are then handled one by one (`hand`), each ending in `MarkPublished` or
`MarkFailed`, between which the process may die or the UPDATE fail. In
`Connector` every write to GitHub goes through one pipeline that handlers,
sweeper and drainer share: read a snapshot of the record, acquire a token, call,
save. The publisher is resolved before the token is taken, and for a drained write
after it (`Resolving`): without an installation the write is a dry run
(`DryWrite`), without a client it fails (`ResolveFails`). A queued write's key is
candidate and status; a revision stands for its candidate (`KeyOf`). `github` is
what GitHub holds, `strays` the check runs whose id was lost
with the answer. In `Publishing` drainer t is client t of the connector: the
relay's timeout cancels the handler's context and the outcome of the row is the
handler's answer. Each of the two also has a specification of its own, which says
nothing of the other: in `RelaySpec` the handler of `decision.rendered` answers
anything (`SomeAnswer`), in `ConnectorSpec` any client posts any envelope and
leaves when it likes (`ClientStep`).

### Ingest, Webhooks, Edge

`hop[a]` is the request that handler, worker or marker sender `a` has open at the
control-plane; after a client timeout it goes on as a stray whose answer nobody
reads. An answer is accepted, unavailable (503, a transport error, a timeout) or
rejected (any other code: `Refused`). The row of a delivery is written without looking at it, as the code does,
so that the two forwarders of one row overwrite each other. `Webhooks` is one
transaction per delivery (it begins with the append lock): dedupe by
`processed_events`, normalisation, and the effects on intents, leases,
candidates and suspensions.

### Leases

Transactions are split at every lock they take: the advisory lock of the ledger
and the row lock of a lease. A blocked statement re-evaluates its condition
when the lock is free (READ COMMITTED), and a deadlock is resolved by aborting
one of the two, as PostgreSQL does.

### Policy, Planning, Evidence, Clustering, Sandbox, Assurance

The rules are operators. A path is a sequence of segments and a segment a
sequence of literals and `"*"`, so that the glob matchers, with their
backtracking, are the code's: the loop of `matchOneSegment` is a recursive
function of its four variables `<<pi, si, star, mark>>`, defined at every four
naturals. A log is a set of pairs of a classification rule it matches and whether
the match is inside text that `redact.String` replaces; the rules are tried on what
`Redact` leaves. Trigrams are sets:
those inside each path, and those at the seams of the paths that `JoinPaths` puts
side by side (`Neighbours`). The checks of a job are a function from places (a
line of a preset, or the place that the fallback check gets) to verdicts, since
only their counts matter. A *work* in `Sandbox` is what a job meets (lines its
containers print, exit codes, deadlines, a missing or torn snapshot, a full disk,
a panic) and `Reported` what the control-plane reads of it in the end;
`ReallyPassed` says, independently of the parsing, whether its checks passed.
`Assurance` submits candidates (the cluster is read before the transaction) and
lets their runs finish in any order with any work of the instance's table.

Two of its properties ask something of a deployment that no code enforces, stated
at the end of `Assurance` and checked of the instance. `Servable`: below critical
risk each policy requires something, and only kinds some job produces; otherwise
`CleanPlanDecides` fails for the reason it fails at critical risk. `PlainNames`: no
repo or changed path has a `*` in its name; the matcher tries a `*` of the pattern
as the literal first (`glob.go:43`) and does not come back to it as a wildcard, so
that `*a` does not match the name `*ba`.

## 3. Runs

| Run | Result | Shows |
|---|---|---|
| `fleet` | pass | `ExclusiveEpoch`, `OnlyHolderAccepts`, `ClaimsBehindFence`, `AcceptedIffResult`, `ImplementsFencedJob`; `AbandonedIsReaped`, `QueuedIsClaimed` |
| `engine` | pass | `TypeOK`, `WIPNeverOverrun`, `EligibleIsFinal`, `EligibleEarned`, `NoWorkForTerminal`, `TerminalCandidateFrozen`, `LeaseOutlivesWork`; `DispatchedSettles` |
| `publishing` | pass | `LedgerSound`, `NoDoubleClaim`, `PublishedWasRecorded`, `ConclusionJustified`, `TrackedIsVisible`; `RowsSettle`, `OpenIsClosed`, `PendingDrains` |
| `edge` | pass | `ExactlyOnce`, `ReplayContained`, `ForwardedIsProcessed`, `OneLivePerHead`; `StoredSettles` |
| `leases` | pass | `FirstEndDecides`; `RequestsEnd` |
| `assurance` | pass | `EligibleBacked`, `CleanPlanDecides`, `LeakRejects`, `GovernedByMerit` |
| `fleet_reclaim` | violation | `ReclaimedCompletable` |
| `engine_retry` | violation | `RetryReexecutes` |
| `engine_slot` | violation | `NoSlotLeaked` |
| `engine_feed` | violation | `FeedDrains` |
| `rerun_cap` | violation | `RerunCapKept` |
| `assurance_supersede` | violation | `SupersededByRepresentative` |

Each property is stated in words above its definition. Each one that a passing run
checks has a mutant of the code's own logic that breaks it (definitions marked
"Mutant", next to the definition they vary).

Bounds.

* `fleet` (119,552 states): one run, two slots and a remote worker, so that each
  takes over from another; two enqueue attempts, one revocation (`MaxFence` stops a
  job from ageing at that fence). Queues of several runs are covered by the proofs,
  which have no bounds.
* In `engine`, `publishing` and `edge` the initial state chooses a *cast*: who and
  what takes part in the behaviour. What one cast leaves out another has, and the
  properties are about all of them.
* `engine` (232,124 states): two candidates for one WIP slot, with webhooks,
  reconciler, crashes and two epochs, so that the fleet may take a job back once; a
  representative with a gate-only first run and a replanned run of the required
  kind, its duplicate, and a revalidation; one candidate whose job ends in every
  class of result, with lease expiry, uninstall, failing and refused enqueues and
  one turn of the hour. The three violation runs of the module have the smallest
  cast that shows the case: one failing job, one replan, two results with a feed
  page of one row.
* `publishing` (259,540 states): a decision and a validation request, appended in
  one transaction or two, a checkpoint every second entry, two drainers, two
  attempts, two tokens, crashes and database errors of the relay at any point and
  one fault of the connector; then, without the relay, a revision that starts new,
  in progress or decided, with the rerun budget unused or used up and the bucket
  full or empty: two handlers with the drainer of the queue, one handler with the
  sweeper, and one envelope among sweeper and drainer, which run for ever, under
  the other rerun policy. `rerun_cap` has the two handlers post a rerun each.
* `edge` (412,457 states): a cast says which deliveries GitHub posts, how many
  requests it makes and which clocks run: two GUIDs of equal content or one GUID twice, racing;
  the same with an expiring replay window; opened, synchronize and closed out of
  order; a push and an uninstall while the scheduler decides; a payload that
  redaction refuses, with signature failures. One fault in each.
* `leases`: two clients, two leases, a key that is used twice and one whose body
  is invalid, a bucket of one token, two renewals, releases or uninstalls.
* `assurance`: four casts of three submissions (a high-risk change with a near
  duplicate and a conflicting one; every work of the table on a low-risk change;
  three submissions of one fix; a submission that lists a path twice beside one of
  as many paths), over a registry of the two compiled-in packs and
  four more that overlap them. `assurance_supersede` has a cast of its own: a
  representative, its duplicate, and a conflicting member that is done first.

Fairness. `Fleet`: slots loop, a provider ends every job by its deadline, the
sweeper ticks, time passes. A claim is tried at every poll with a freshly
inserted worker row, so it is strongly fair: the sweep may defeat it, not every
time. `RunEngine`: in `engine` only the reconciler is fair and time passes
(`ReconcilerFairness`), which is all `DispatchedSettles` needs, strongly because a
crash disables its steps and the next process takes them up again; `engine_feed` adds
the scheduler's loop, so that its violation is not for want of a tick.
`MCPublishing`: where the relay, or sweeper and drainer, take part, they and the
handlers are goroutines that go on, back-offs elapse, the bucket refills, a retry
becomes due. `Edge`: requests, worker, marker sender and clocks go on; one weak
fairness condition suffices because a behaviour has finitely many steps. GitHub,
failures and crashes are never fair. `Leases`: transaction steps are strongly
fair, because PostgreSQL queues the waiters of a lock in order, so a waiter
cannot be overtaken for ever.

## 4. Disagreements between code and documents

Each violation run checks one sentence of the repository (quoted in
`PROJECT.json`).

* `fleet_reclaim`: the embedded executor binds the lease's fence, always 1, to
  the claimed fence, so a job that was swept once can never be completed by a
  slot; the lease comment says that a reclaimed job remains completable.
* `engine_retry`: a retry is enqueued under the same run id, which the fleet
  answers as a replay; attempt 2 never executes, and the run is dispatched until
  the reconciler gives it up.
* `engine_slot`: a replan cancels, without a release, a run that was dispatched
  after it read the queue (`replan.go:67`, `:104`); the slot stays reserved until the
  hour turns, against I-06.
* `engine_feed`: `TerminalAccepted` returns the newest rows, consumed or not, so with
  more accepted rows than a page an unconsumed older one is not presented again,
  where `completions_poison.go:57` says that the feed re-presents rows for ever.
* `rerun_cap`: two reruns pass `Allow` before either reaches `Record`, so the cap of
  `budget.go:37` ("ever") is overrun. `ConnectorBudget` proves by how much.
* `assurance_supersede`: `propagateSupersession` runs for any member that renders
  eligible, where its own comment, `supersede.go:33` and the domain model speak of the
  representative: a duplicate is stood down for a winner that conflicts with it, while
  its representative is undecided. The same property fails a second way, in the cast
  `Twice` of `assurance`: `samePathSet` "reports set equality of two path slices"
  (`assign.go:147`) and compares lengths and one inclusion, so `a, b, b` counts as a
  duplicate of `a, b, d`. `SupersededIsDuplicate` proves what is left.

The same model shows the following, which no run keeps:

* a crash between `Enqueue` and the dispatch transaction: the result arrives
  while the run is queued, is absorbed as stale, and the re-dispatched run waits
  for nothing (EC-029);
* the result of a reclaimed job carries epoch 3, the run expects 1: it is
  discarded (EC-042);
* the poison cap is never reached, since `RecordFeedFailureTx` answers 1 every
  time; an infra failure that timed out fails its transaction on every tick;
* `retryRun` has no condition on the run's state and can bring back a run the
  reconciler cancelled meanwhile (I-08);
* more candidates than the limit may be in flight: each completion releases a
  slot whether its run reserved one or not, and the hour resets the counter
  under running work (I-10);
* a winning alternative is announced as superseded with the losers;
* a duplicate submitted after its representative was decided is parked for good;
* a replan leaves dispatched runs of the previous plan running;
* the reconciler and a completion that raced it both release a run's
  reservation (EC-030, I-06, `EDGE_CASES.md:61`); the clamp at zero hides it;
* a job the fleet refuses with a 4xx is dispatched all the same and waits for the
  reconciler (`fleet_client.go:113`);
* a completion checked while its candidate was live rejects it after it was
  cancelled: the state does not change, but a decision is appended (I-08,
  `completion_guards.go:9`).

In the modules about publishing and the edge:

* outbox rows of a relay that died stay in `delivering`: `ReclaimStuckDelivering`
  (`relay_queue.go:86`) has no caller (`ARCHITECTURE.md:72`). `RowsSettle` names
  that case;
* a queued in_progress write drains over a check that was completed directly
  meanwhile; the sweeper, which read a check as open, overwrites with neutral the
  decision that a handler saved since (`stalled.go:78`), which `ConclusionJustified`
  allows; a pending key is candidate and status, so a second decision queued
  behind the first collapses into it; a create whose answer was lost, or that was
  queued, leaves a second check run for the revision;
* a rerun's key is consumed before the lookup that may answer 503, so the
  redelivery is taken for a replay (`flow_rerun.go:32`); a resolve error is
  treated as dry-run and counts as delivered (`router.go:181`); no code in the
  repository sends lifecycle or rerun envelopes;
* content is remembered before its row is stored: when the insert fails, the
  redelivery is flagged as a suspect and its effects are dropped; a saturated
  handler answers "deduplicated" to a delivery it never stored
  (`github_hook_handler.go:82`); rows that spent their attempts are left "for
  reconciler pickup" (`worker.go:21`), and nothing picks them up;
* pushes that arrive after the pull request closed create work (EC-002);
  synchronize does not look at the suspension of the repository.

In the modules about leases and rules:

* a renewal never records its Idempotency-Key; a release or expiry appends a
  terminal event also when the row was no longer granted; concurrent requests
  with one key create two intents (EC-018); the token bucket is read without a
  lock and grants more than it holds;
* two kinds a critical risk class requires have no job that produces them, so
  such a candidate is never eligible; the payments pack asks for an actor, which
  the planner's subject does not name, so it never matches;
* a duplicate is parked behind a representative that is already dead; any earlier
  decision on a candidate, a deferral included, keeps it from becoming eligible;
* a log is scrubbed before it is classified (`failures_route.go:24`), and
  `kvSecretPattern` (`redact.go:24`) replaces a secret together with the word that
  the leak rule looks for (`classify.go:41`): "secret: hunter2 detected" is no leak
  any more and is deferred, repaired or retried. `LeakRejects` is therefore about
  what the scrubbed log still shows;
* a failure of an external worker is always unclassified, since its completion
  carries no log; of any log only the first 4096 bytes are classified.

## 5. Proofs

Everything below is proved for every value of the constants that satisfies the
modules' named assumptions: any number of runs, candidates, clients, drainers,
deliveries and leases, any bounds. The assumptions say that bounds are naturals
(capacities at least 1, as the code's defaults are), that runs, revisions, clients
and GUIDs are finite sets (rows of a table), that names which stand for different
threads differ, and that lookup tables are functions on their keys; for
`Assurance`, that works, policies and submissions have the types of their Go
structs.

| Module | Theorems |
|---|---|
| `FleetProofs` | `TypeOK`, `ExclusiveEpoch`, `ClaimsBehindFence`, `AcceptedIffResult`, `OnlyHolderAccepts`; the table implements `FencedJob` |
| `RunEngineProofs` | `TypeOK`, `WIPNeverOverrun`, `HeldSlots`, `EligibleIsFinal`, `EligibleEarned`, `TerminalCandidateFrozen`, `NoWorkForTerminal`, `LeaseOutlivesWork`; the fleet in it is a `FencedJob` |
| `EdgeProofs` | `ExactlyOnce`, `ReplayContained`, `ForwardedIsProcessed`, `OneLivePerHead` |
| `LeasesProofs` | `FirstEndDecides` |
| `RelayProofs` | `LedgerSound`, `NoDoubleClaim`, `RelayTypeOK` |
| `ConnectorProofs` | `RunIdsReal`, `ConclusionJustified`, `TrackedIsVisible`, `RerunOverrunBounded` |
| `PublishingProofs` | `PublishedWasRecorded`; the composition implements `RelaySpec` and `ConnectorSpec`, so that it has the properties of both |
| `AssuranceProofs` | `EligibleBacked`, `LeakRejects`, `SupersededInCluster`; `CleanPlanDecides` for a `Servable` registry, which the compiled-in one is shown to be; `GovernedByMerit` for `PlainNames` |

None of these properties is inductive alone. Each module states an inductive
invariant, which TLC checked on the runs' instances before it was proved, and
shows it preserved action by action; the properties follow from it.

**Fleet** (`IInv`). That no two workers share an epoch needs that every claim is at
or behind the row's fence, so that a new claim, at `fence + 1`, is new; that needs
that a queued or cancelled row is strictly ahead of every claim, which is what the
sweep and cancel buy by bumping the fence; and a completed row must be known to be
accepted, so that nothing is accepted twice. `OnlyHolderAccepts` says of every
accepted row that its result was sent under the row's epoch, by the worker that
`claimed_by` names, if it still names one; it needs that `claimed_by` never names
anyone but the holder of the current epoch (`HolderNamed`). The refinement maps a row to its cell
(`absent`, `queued`, `running`, terminal to `none`, `open`, `granted`, `closed`)
and shows each action to be a `Move` of some runs and a stutter of the others.

**RunEngine** (`EngineIInv`). A transaction is a chain of store operations, so the
proof goes operation by operation. `TablesOK` is what each of them keeps: a row
belongs to a plan its candidate has had, a dispatched run has the fence of the first
claim and a candidate that was started (`RowsOK`); the slots of runs that nobody
released cover the counter (`SlotsOK`); an eligible verdict stands alone
(`VerdictsOK`); evidence was accepted by the fleet as an executed pass in the first
epoch (`EvidenceOK`). The rest is about stale reads. `SchedulerOK`: an admitted run
that is still queued has an open candidate, because whatever closes a candidate
takes its runs off the queue in the same transaction (`Dispatchable`); this is why a
dispatch that never looks at the candidate puts no work of a decided one in flight.
In flight and admitted runs of a tier together are within its cap, because only the
dispatch adds to the first and takes from the second. `HandOK`: the candidate of a
completion in hand that was undecided when read is not eligible now, since only the
scheduler, which holds it, renders that verdict. What other threads may do to the
tables under the scheduler's feet is `Handled`, the conjunction of `Moves` (no
decided candidate changes, no run but by dispatch goes in flight), `Calm` (admitted
runs stay dispatchable, nobody becomes eligible) and `Lapses` (the lease); `Stepped`
is what every step does, and the three action properties are its conjuncts.
`NoSlotLeaked` does not hold (section 4); `EngineHeldSlots` is what remains true.

**Edge** (`EdgeIInv`). `ExactlyOnce` follows from the position of each request:
what a hop will do is decided under the append lock by `processed_events`. That a
forwarded row was processed needs that an answer of success on a connection, stray
or not, is sent after the commit. `ReplayContained` needs that content in the
window, in a request or in a row was added before it was forwarded.

**Leases** (`LeaseIInv`). A transaction between its UPDATE and its commit holds the
row lock, and one that has appended holds the append lock; with who holds which lock
it is known what row and ledger an open transaction will leave. `FirstEndDecides` is
then about committed state only.

**Relay** (`RelayIInv`). A row in a drainer's hand is `delivering` and in no other
hand. The hash chain is a recursive function over the events of a transaction;
what it computes is proved by induction on how many of them are appended, and that
the checkpoints are those of all multiples passed by arithmetic.

**Connector** (`ConnIInv`). Every run id in a snapshot, a work item or a queued write
is real; GitHub only grows, so ids stay real. `TrackedIsVisible` needs that, as long
as nothing failed, each writer in the pipeline either still has its revision visible
or is about to save it. `RerunOverrunBounded`, what remains of the rerun cap, counts the
handlers between `Allow` and `Record`. `RunIdsReal` speaks of several revisions and is
proved only.

**Publishing** (`PubIInv`). The request of drainer t is about the row t has in hand;
an answer below 500 to a decision is given only with the decision recorded. The two
refinements hide one half: the connector is some handler (it answers at most once for
each row), the relay is some client.

**Assurance** (`AssuranceInv`). A completion is one transaction that rewrites a row,
may add evidence, render verdicts and stand a cluster down, so what holds of the
tables is stated of the record `d` that passes through these operators and is kept
by each of them. `Outcomes`: a row's state is what its last report said, and a run
back in the queue had not succeeded. `Backed` and `Counted` tie evidence to runs in
both directions: what was accepted stands for a run that really passed, and a run of
a required kind that really passed was accepted. `LeakFree`: a leaking row belongs
to a rejected candidate, which needs that its queue is never worked again.
`StoodDown` and `Placed` give a superseded candidate an eligible cluster mate and the
relation that `RelationTo` computed from the paths; what `Assign` puts in a cluster
shares a path with it, so the relation can only be `duplicate_of`.
The lemmas beneath are about the rules themselves. `CountedIsReal` and
`RealIsReported` take a work through bundle, presets, containers, markers, exit
codes, timer and completion gate: what counts as evidence really passed, and what
really passed is reported so that it counts. `LeakIsRejected` is that the
first rule of the table wins on the scrubbed log. `ResolveWins` follows the scan of `Resolve`. `PlanCovers`
finds, for each required kind, its job in the plan, widened or not; with `SettledInv`
(a drafted candidate has a policy; a candidate not yet submitted has no cluster) and
`DecidingInv` (an undecided candidate lacks evidence or has a required run that
failed) it gives `CleanPlanDecides`.
`GlobMatches` is the longest: `MatchGlob` answers as `GlobMeans` defines it. A match
is a chain of places in the name, one step for each element of the pattern
(`Chain`). The loop of `matchOneSegment` is always somewhere `OnTheWay`: since its
last star it matched literals only, from `mark` on; and if the whole can be matched
at all, it can be matched from here or from a later try of that star (`Hope`), so
dropping the earlier stars loses nothing. The proof is an induction on how far
`mark`, and then the pattern, are from their ends. That the function the loop is
modelled by exists at all, its domain being infinite, is shown with a least fixed
point (`WalkFixed`).

Induction. The provers cannot instantiate the library's induction rules, which take
an operator. Where a definition is recursive (`Chained`, `Admit`, `Estimates`, `Resolve`,
`MatchOneSegment`, `MatchSegments`) the
proofs use induction in the form of a set of naturals that contains 0 and is closed
under successor, itself proved from the well-foundedness of the finite subsets of a
set, and prove the recursive function to exist before they use its equation.

Only model-checked: liveness (`DispatchedSettles`, `RowsSettle`,
`OpenIsClosed`, `PendingDrains`, `StoredSettles`, `RequestsEnd`, `AbandonedIsReaped`,
`QueuedIsClaimed`), since fairness and `ENABLED` are out of the provers' reach; and
the six runs that expect a violation. Every safety property that a passing run
checks has a theorem.

## 6. Not modelled

Listed with reasons under "components" in `PROJECT.json`: rank arithmetic
(floating point), authentication and signatures (cryptography), the audit log,
rendering (strings), the materializer (files), read-only views,
the connector's sticky comment (best effort, after the check is published), the
web dashboard, deployment. Of modelled components: the artifacts table, pruning
of audit rows, validation of request fields.

## 7. Plan

1. Done: `FencedJob`, `Fleet`, `FleetProofs`, `RunEngine` with their runs.
2. Done: `Relay`, `Connector`, `Publishing`; `Ingest`, `Webhooks`, `Edge`;
   `Leases`; the rule modules, `Sandbox` and `Assurance`.
3. Done: theorems of `Fleet`, `RunEngine`, `Edge`, `Leases`, `Relay`, `Connector`
   and `Publishing`.
4. Done: theorems of `Assurance`, with the lemmas about `Sandbox`, `Policy`,
   `Planning`, `Evidence` and `Clustering` that they rest on.
5. Open: the hazards of `PROJECT.json` that have no property.
