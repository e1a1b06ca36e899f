-------------------------------- MODULE Fleet --------------------------------
(***************************************************************************)
(* The execution plane of cisync (services/runner-fleet): the job table    *)
(* fleet.execution_jobs, the workers that claim jobs from it, the fence    *)
(* token ("epoch") that gates every mutation, the stale-job sweeper and    *)
(* the registry of provider handles.                                       *)
(*                                                                         *)
(* Two kinds of worker exist.  Slots are the goroutines of the embedded    *)
(* executor: each claims one job, runs it and completes it in process,     *)
(* behind authorizeInternal.  Remotes are external workers that use the    *)
(* HTTP protocol behind authorizeJobMutation, may hold several jobs, may   *)
(* resend any request, and may act on a claim long after it was revoked.   *)
(*                                                                         *)
(* One execution_jobs row is one index of the functions status, fence,     *)
(* attempt, accepted, result, beat and lease.  Every action is one SQL     *)
(* statement or transaction, which is where the code is atomic.            *)
(***************************************************************************)
EXTENDS Naturals, Sequences, FiniteSets

CONSTANTS
    Runs,        \* run ids
    Slots,       \* executor slots of the fleet process
    Remotes,     \* external workers
    Outcomes,    \* terminal statuses a worker may report
    MaxAttempt,  \* bound: largest attempt number ever enqueued
    MaxFence,    \* bound: heartbeats of a job stop ageing at this fence
    MaxClaim     \* bound on the batch an external worker claims (32 in the code)

Workers == Slots \cup Remotes

ASSUME WorkersAssumption == Slots \cap Remotes = {}
ASSUME OutcomesAssumption == Outcomes \subseteq {"succeeded", "failed", "timed_out"}
ASSUME BoundsAssumption == MaxAttempt \in Nat /\ MaxFence \in Nat /\ MaxClaim \in Nat

VARIABLES
    status,     \* execution_jobs.status; "absent" when there is no row
    fence,      \* execution_jobs.fence_token
    attempt,    \* execution_jobs.attempt
    accepted,   \* execution_jobs.accepted
    result,     \* execution_jobs.result_ref: whose result it is, and from which epoch
    claimedBy,  \* execution_jobs.claimed_by, a foreign key into fleet.workers
    beat,       \* last_heartbeat against the sweep threshold: fresh or stale
    lease,      \* the row's lease token: live, or past its exp
    order,      \* rows in created_at order
    held,       \* held[w]: the claims [run, fence] a worker has in memory
    phase,      \* phase[s]: where slot s is in loop/runJob
    handle,     \* Registry.handles: the slot whose provider handle is filed
    beating,    \* runs whose Heartbeat is between its two statements
    registered, \* fleet.workers: absent, or a row with fresh/stale heartbeat
    sweeping    \* RequeueStale is between its two statements

jobVars == <<status, fence, attempt, accepted, result, claimedBy, beat, lease, order>>
slotVars == <<phase, handle, beating>>
vars == <<jobVars, held, slotVars, registered, sweeping>>

Statuses == {"absent", "queued", "running", "cancelled"} \cup Outcomes
Phases == {"boot", "idle", "claiming", "claimed", "polling", "dead"}
Claims == [run : Runs, fence : Nat]
NoOne == "none"
NoResult == [by |-> NoOne, fence |-> 0]

\* The fence the control-plane writes into every job lease it mints.
LeaseFence == 1

(***************************************************************************)
(* Helper formulae                                                         *)
(***************************************************************************)

\* domain.Terminal
Terminal(st) == st \in {"succeeded", "failed", "timed_out", "cancelled"}

\* The row the conditional UPDATEs of Heartbeat and Complete would match.
IsCurrent(c) == status[c.run] = "running" /\ fence[c.run] = c.fence

\* authorizeJobMutation: run and attempt of the stored lease are those of the
\* row it was enqueued with, so only its expiry is left to decide.
AuthorizedRemote(r) == status[r] # "absent" /\ lease[r] = "live"

\* authorizeInternal also binds the lease's fence to the claimed one.
AuthorizedSlot(c) == lease[c.run] = "live" /\ c.fence = LeaseFence

Older(q, r) == \E i, j \in 1..Len(order) : i < j /\ order[i] = q /\ order[j] = r

\* SELECT ... WHERE status = queued ORDER BY created_at LIMIT n: the oldest
\* queued rows, at most n of them.
OldestQueued(n) ==
    {S \in SUBSET {r \in Runs : status[r] = "queued"} :
        /\ Cardinality(S) \in 1..n
        /\ \A r \in S, q \in Runs : status[q] = "queued" /\ Older(q, r) => q \in S}

----------------------------------------------------------------------------
Init ==
    /\ status = [r \in Runs |-> "absent"]
    /\ fence = [r \in Runs |-> 0]
    /\ attempt = [r \in Runs |-> 0]
    /\ accepted = [r \in Runs |-> FALSE]
    /\ result = [r \in Runs |-> NoResult]
    /\ claimedBy = [r \in Runs |-> NoOne]
    /\ beat = [r \in Runs |-> "fresh"]
    /\ lease = [r \in Runs |-> "live"]
    /\ order = <<>>
    /\ held = [w \in Workers |-> {}]
    /\ phase = [s \in Slots |-> "boot"]
    /\ handle = [r \in Runs |-> NoOne]
    /\ beating = {}
    /\ registered = [w \in Workers |-> "absent"]
    /\ sweeping = FALSE

(***************************************************************************)
(* Job table operations                                                    *)
(***************************************************************************)

\* Mutant: a terminal row is reopened for the next attempt.
EnqueueReopens(r, a) ==
    /\ IF status[r] = "absent" \/ Terminal(status[r])
       THEN /\ status' = [status EXCEPT ![r] = "queued"]
            /\ attempt' = [attempt EXCEPT ![r] = a]
            /\ order' = Append(SelectSeq(order, LAMBDA q : q # r), r)
       ELSE UNCHANGED <<status, attempt, order>>
    /\ UNCHANGED <<fence, accepted, result, claimedBy, beat, lease, held, slotVars, registered, sweeping>>

\* POST /internal/fleet/jobs.  A run_id that already has a row is answered as
\* a replay, whatever its attempt, and nothing is written.
Enqueue(r, a) ==
    /\ IF status[r] = "absent"
       THEN /\ status' = [status EXCEPT ![r] = "queued"]
            /\ attempt' = [attempt EXCEPT ![r] = a]
            /\ order' = Append(order, r)
       ELSE UNCHANGED <<status, attempt, order>>
    /\ UNCHANGED <<fence, accepted, result, claimedBy, beat, lease, held, slotVars, registered, sweeping>>

\* Mutant: the claim stamps the lease's fence instead of the next epoch.
ClaimRowsLeaseFence(w, S) ==
    /\ status' = [r \in Runs |-> IF r \in S THEN "running" ELSE status[r]]
    /\ fence' = [r \in Runs |-> IF r \in S THEN LeaseFence ELSE fence[r]]
    /\ claimedBy' = [r \in Runs |-> IF r \in S THEN w ELSE claimedBy[r]]
    /\ beat' = [r \in Runs |-> IF r \in S THEN "fresh" ELSE beat[r]]
    /\ held' = [held EXCEPT ![w] = @ \cup {[run |-> r, fence |-> LeaseFence] : r \in S}]
    /\ UNCHANGED <<attempt, accepted, result, lease, order>>

\* The claim statement: queued -> running, one more epoch, for a batch S.
ClaimRows(w, S) ==
    /\ status' = [r \in Runs |-> IF r \in S THEN "running" ELSE status[r]]
    /\ fence' = [r \in Runs |-> IF r \in S THEN fence[r] + 1 ELSE fence[r]]
    /\ claimedBy' = [r \in Runs |-> IF r \in S THEN w ELSE claimedBy[r]]
    /\ beat' = [r \in Runs |-> IF r \in S THEN "fresh" ELSE beat[r]]
    /\ held' = [held EXCEPT ![w] = @ \cup {[run |-> r, fence |-> fence[r] + 1] : r \in S}]
    /\ UNCHANGED <<attempt, accepted, result, lease, order>>

\* Mutant: the fence is not part of the UPDATE's WHERE.
CompleteRowUnfenced(w, c, o) ==
    /\ IF status[c.run] = "running" /\ ~accepted[c.run]
       THEN /\ status' = [status EXCEPT ![c.run] = o]
            /\ accepted' = [accepted EXCEPT ![c.run] = TRUE]
            /\ result' = [result EXCEPT ![c.run] = [by |-> w, fence |-> c.fence]]
       ELSE UNCHANGED <<status, accepted, result>>
    /\ UNCHANGED <<fence, attempt, claimedBy, beat, lease, order>>

\* UPDATE ... SET status, accepted, result_ref WHERE running AND fence AND NOT
\* accepted, for a request of worker w.
CompleteRow(w, c, o) ==
    /\ IF IsCurrent(c) /\ ~accepted[c.run]
       THEN /\ status' = [status EXCEPT ![c.run] = o]
            /\ accepted' = [accepted EXCEPT ![c.run] = TRUE]
            /\ result' = [result EXCEPT ![c.run] = [by |-> w, fence |-> c.fence]]
       ELSE UNCHANGED <<status, accepted, result>>
    /\ UNCHANGED <<fence, attempt, claimedBy, beat, lease, order>>

\* First statement of Heartbeat: UPDATE last_heartbeat WHERE running AND fence.
HeartbeatRow(c) ==
    /\ IsCurrent(c)
    /\ beat' = [beat EXCEPT ![c.run] = "fresh"]
    /\ beating' = beating \cup {c.run}
    /\ UNCHANGED <<status, fence, attempt, accepted, result, claimedBy, lease, order, held, phase, handle, registered, sweeping>>

\* Its second statement refreshes the worker row that claimed_by names by now,
\* if it names one: the job may have changed hands since the first.
HeartbeatWorker(r) ==
    /\ r \in beating
    /\ registered' = [w \in Workers |-> IF claimedBy[r] = w /\ registered[w] # "absent"
                                        THEN "fresh" ELSE registered[w]]
    /\ beating' = beating \ {r}
    /\ UNCHANGED <<jobVars, held, phase, handle, sweeping>>

\* Mutant: a late cancel also hits finished rows.
CancelTerminal(r) ==
    /\ AuthorizedRemote(r)
    /\ status[r] # "cancelled"
    /\ status' = [status EXCEPT ![r] = "cancelled"]
    /\ fence' = [fence EXCEPT ![r] = @ + 1]
    /\ UNCHANGED <<attempt, accepted, result, claimedBy, beat, lease, order, held, slotVars, registered, sweeping>>

\* POST .../cancel by a holder of the lease: terminal rows are left alone, any
\* other is cancelled under a new epoch.
Cancel(r) ==
    /\ AuthorizedRemote(r)
    /\ ~Terminal(status[r])
    /\ status' = [status EXCEPT ![r] = "cancelled"]
    /\ fence' = [fence EXCEPT ![r] = @ + 1]
    /\ UNCHANGED <<attempt, accepted, result, claimedBy, beat, lease, order, held, slotVars, registered, sweeping>>

\* Mutants: the sweep keeps the epoch; the sweep skips rows whose worker is
\* already purged.
RequeueStaleSameEpoch ==
    LET stale == {r \in Runs : status[r] = "running" /\ beat[r] = "stale"} IN
    /\ ~sweeping
    /\ status' = [r \in Runs |-> IF r \in stale THEN "queued" ELSE status[r]]
    /\ claimedBy' = [r \in Runs |-> IF r \in stale THEN NoOne ELSE claimedBy[r]]
    /\ sweeping' = TRUE
    /\ UNCHANGED <<fence, attempt, accepted, result, beat, lease, order, held, slotVars, registered>>

RequeueStaleOwned ==
    LET stale == {r \in Runs : /\ status[r] = "running" /\ beat[r] = "stale"
                               /\ claimedBy[r] # NoOne} IN
    /\ ~sweeping
    /\ status' = [r \in Runs |-> IF r \in stale THEN "queued" ELSE status[r]]
    /\ fence' = [r \in Runs |-> IF r \in stale THEN fence[r] + 1 ELSE fence[r]]
    /\ claimedBy' = [r \in Runs |-> IF r \in stale THEN NoOne ELSE claimedBy[r]]
    /\ sweeping' = TRUE
    /\ UNCHANGED <<attempt, accepted, result, beat, lease, order, held, slotVars, registered>>

\* First statement of RequeueStale: every stale running job goes back to the
\* queue under a new epoch.  Workers that held it are not told.
RequeueStale ==
    LET stale == {r \in Runs : status[r] = "running" /\ beat[r] = "stale"} IN
    /\ ~sweeping
    /\ status' = [r \in Runs |-> IF r \in stale THEN "queued" ELSE status[r]]
    /\ fence' = [r \in Runs |-> IF r \in stale THEN fence[r] + 1 ELSE fence[r]]
    /\ claimedBy' = [r \in Runs |-> IF r \in stale THEN NoOne ELSE claimedBy[r]]
    /\ sweeping' = TRUE
    /\ UNCHANGED <<attempt, accepted, result, beat, lease, order, held, slotVars, registered>>

\* Its second statement: rows of workers that stopped heartbeating go, and
\* claimed_by is set null where it named one (ON DELETE SET NULL).
PurgeStaleWorkers ==
    LET gone == {w \in Workers : registered[w] = "stale"} IN
    /\ sweeping
    /\ registered' = [w \in Workers |-> IF w \in gone THEN "absent" ELSE registered[w]]
    /\ claimedBy' = [r \in Runs |-> IF claimedBy[r] \in gone THEN NoOne ELSE claimedBy[r]]
    /\ sweeping' = FALSE
    /\ UNCHANGED <<status, fence, attempt, accepted, result, beat, lease, order, held, slotVars>>

(***************************************************************************)
(* Embedded executor: Run, loop, runJob                                    *)
(***************************************************************************)

\* Mutant: the worker row is inserted when the slot starts and never again.
SlotRegisterOnce(s) ==
    /\ phase[s] \in {"boot", "idle"}
    /\ registered' = [registered EXCEPT ![s] = IF phase[s] = "boot" THEN "fresh" ELSE @]
    /\ phase' = [phase EXCEPT ![s] = "claiming"]
    /\ UNCHANGED <<jobVars, held, handle, beating, sweeping>>

\* EnsureWorker when the slot starts, and the ON CONFLICT DO NOTHING
\* registration at the head of every ClaimJobs call.
SlotRegister(s) ==
    /\ phase[s] \in {"boot", "idle"}
    /\ registered' = [registered EXCEPT ![s] =
                        IF phase[s] = "boot" \/ @ = "absent" THEN "fresh" ELSE @]
    /\ phase' = [phase EXCEPT ![s] = "claiming"]
    /\ UNCHANGED <<jobVars, held, handle, beating, sweeping>>

\* EnsureWorker fails when the slot starts: the goroutine returns, and the
\* process goes on with one slot less.
SlotDies(s) ==
    /\ phase[s] = "boot"
    /\ phase' = [phase EXCEPT ![s] = "dead"]
    /\ UNCHANGED <<jobVars, held, handle, beating, registered, sweeping>>

\* The claim transaction.  claimed_by references fleet.workers, so it fails
\* when the sweep removed the worker's row meanwhile; an empty queue or an
\* error sends the slot round its loop.
SlotClaim(s) ==
    /\ phase[s] = "claiming"
    /\ \/ /\ registered[s] # "absent"
          /\ \E S \in OldestQueued(1) : ClaimRows(s, S)
          /\ phase' = [phase EXCEPT ![s] = "claimed"]
       \/ /\ registered[s] = "absent" \/ OldestQueued(1) = {}
          /\ phase' = [phase EXCEPT ![s] = "idle"]
          /\ UNCHANGED <<jobVars, held>>
    /\ UNCHANGED <<handle, beating, registered, sweeping>>

\* provider.Submit accepted the job: its handle is filed under the run id.
SlotSubmit(s, c) ==
    /\ phase[s] = "claimed" /\ c \in held[s]
    /\ handle' = [handle EXCEPT ![c.run] = s]
    /\ phase' = [phase EXCEPT ![s] = "polling"]
    /\ UNCHANGED <<jobVars, held, beating, registered, sweeping>>

\* heartbeatOnce, from the job's ticker goroutine.
SlotHeartbeat(s, c) ==
    /\ phase[s] = "polling" /\ c \in held[s]
    /\ AuthorizedSlot(c)
    /\ HeartbeatRow(c)

\* completeInternal and the deferred Unregister.  A failed Submit reaches it
\* without a filed handle, as an infra failure.  Whatever Complete answers,
\* the slot drops the job.
SlotComplete(s, c, o) ==
    /\ phase[s] \in {"claimed", "polling"} /\ c \in held[s]
    /\ phase[s] = "claimed" => o = "failed"
    /\ IF AuthorizedSlot(c)
       THEN CompleteRow(s, c, o)
       ELSE UNCHANGED jobVars
    /\ handle' = IF phase[s] = "polling" THEN [handle EXCEPT ![c.run] = NoOne] ELSE handle
    /\ held' = [held EXCEPT ![s] = {}]
    /\ phase' = [phase EXCEPT ![s] = "idle"]
    /\ UNCHANGED <<beating, registered, sweeping>>

\* The fleet process dies and restarts: slots, their claims and the handle
\* registry are memory, the tables are not.  A new process names its slots
\* afresh, so the old worker rows only ever age.
Restart ==
    /\ \E s \in Slots : phase[s] # "boot"
    /\ phase' = [s \in Slots |-> "boot"]
    /\ held' = [w \in Workers |-> IF w \in Slots THEN {} ELSE held[w]]
    /\ handle' = [r \in Runs |-> NoOne]
    /\ beating' = {}
    /\ registered' = [w \in Workers |-> IF w \in Slots THEN "absent" ELSE registered[w]]
    /\ sweeping' = FALSE
    /\ UNCHANGED jobVars

(***************************************************************************)
(* External workers: the HTTP protocol                                     *)
(***************************************************************************)

\* POST .../claim: EnsureWorker, then the claim.  Nothing runs in between
\* that could remove a row that was just refreshed.
RemoteClaim(w, S) ==
    /\ S \in OldestQueued(MaxClaim)
    /\ ClaimRows(w, S)
    /\ registered' = [registered EXCEPT ![w] = "fresh"]
    /\ UNCHANGED <<slotVars, sweeping>>

RemoteHeartbeat(w, c) ==
    /\ c \in held[w]
    /\ AuthorizedRemote(c.run)
    /\ HeartbeatRow(c)

\* POST .../complete.  The worker keeps its claim: it may send this again.
RemoteComplete(w, c, o) ==
    /\ c \in held[w]
    /\ AuthorizedRemote(c.run)
    /\ CompleteRow(w, c, o)
    /\ UNCHANGED <<held, slotVars, registered, sweeping>>

(***************************************************************************)
(* Time                                                                    *)
(***************************************************************************)

\* The sweep threshold passes without a heartbeat of the job.
BeatAges(r) ==
    /\ status[r] = "running" /\ beat[r] = "fresh"
    /\ fence[r] < MaxFence
    /\ beat' = [beat EXCEPT ![r] = "stale"]
    /\ UNCHANGED <<status, fence, attempt, accepted, result, claimedBy, lease, order, held, slotVars, registered, sweeping>>

WorkerAges(w) ==
    /\ registered[w] = "fresh"
    /\ registered' = [registered EXCEPT ![w] = "stale"]
    /\ UNCHANGED <<jobVars, held, slotVars, sweeping>>

\* The lease minted at dispatch passes its exp (60 minutes at most).
LeaseExpires(r) ==
    /\ status[r] # "absent" /\ lease[r] = "live"
    /\ lease' = [lease EXCEPT ![r] = "expired"]
    /\ UNCHANGED <<status, fence, attempt, accepted, result, claimedBy, beat, order, held, slotVars, registered, sweeping>>

----------------------------------------------------------------------------
SlotNext(s) ==
    \/ SlotRegister(s) \/ SlotDies(s)
    \/ SlotClaim(s)
    \/ \E c \in held[s] :
         \/ SlotSubmit(s, c)
         \/ SlotHeartbeat(s, c)
         \/ \E o \in Outcomes : SlotComplete(s, c, o)

RemoteNext(w) ==
    \/ \E S \in SUBSET Runs : RemoteClaim(w, S)
    \/ \E c \in held[w] :
         \/ RemoteHeartbeat(w, c)
         \/ \E o \in Outcomes : RemoteComplete(w, c, o)

TableNext ==
    \/ \E r \in Runs, a \in 1..MaxAttempt : Enqueue(r, a)
    \/ \E r \in Runs : Cancel(r) \/ BeatAges(r) \/ LeaseExpires(r) \/ HeartbeatWorker(r)
    \/ RequeueStale
    \/ PurgeStaleWorkers

Next ==
    \/ TableNext
    \/ \E s \in Slots : SlotNext(s)
    \/ \E w \in Remotes : RemoteNext(w)
    \/ \E w \in Workers : WorkerAges(w)
    \/ Restart

Spec == Init /\ [][Next]_vars

\* Slots loop for ever and every job they run ends by its deadline timer, the
\* sweeper ticks, and time passes.  A claim is retried at every poll with a
\* freshly inserted worker row whenever the sweep took the old one, so it is
\* not defeated each time: strong fairness.  Nor does a slot's first
\* registration fail at every restart.
Fairness ==
    /\ WF_vars(RequeueStale) /\ WF_vars(PurgeStaleWorkers)
    /\ \A r \in Runs : WF_vars(BeatAges(r))
    /\ \A s \in Slots :
         /\ SF_vars(SlotRegister(s))
         /\ SF_vars(SlotClaim(s) /\ phase'[s] = "claimed")
         /\ WF_vars(SlotClaim(s))
         /\ WF_vars(\E c \in held[s], o \in Outcomes : SlotComplete(s, c, o))

FairSpec == Spec /\ Fairness

(***************************************************************************)
(* Properties                                                              *)
(***************************************************************************)

TypeOK ==
    /\ status \in [Runs -> Statuses]
    /\ fence \in [Runs -> Nat]
    /\ attempt \in [Runs -> 0..MaxAttempt]
    /\ accepted \in [Runs -> BOOLEAN]
    /\ result \in [Runs -> [by : Workers \cup {NoOne}, fence : Nat]]
    /\ claimedBy \in [Runs -> Workers \cup {NoOne}]
    /\ beat \in [Runs -> {"fresh", "stale"}]
    /\ lease \in [Runs -> {"live", "expired"}]
    /\ order \in Seq(Runs)
    /\ held \in [Workers -> SUBSET Claims]
    /\ phase \in [Slots -> Phases]
    /\ beating \subseteq Runs
    /\ handle \in [Runs -> Slots \cup {NoOne}]
    /\ registered \in [Workers -> {"absent", "fresh", "stale"}]
    /\ sweeping \in BOOLEAN

\* Two workers never hold the same epoch of one run, however claims,
\* requeues, restarts and late requests interleave: whoever matches the
\* fence gate of Complete is the only one who can.
ExclusiveEpoch ==
    \A w, v \in Workers : \A c \in held[w], d \in held[v] :
        c.run = d.run /\ c.fence = d.fence => w = v

\* No claim a worker carries is from the future, and a queued job's epoch is
\* newer than every claim ever handed out: a requeue or a cancel revokes.
ClaimsBehindFence ==
    \A w \in Workers : \A c \in held[w] :
        /\ c.fence <= fence[c.run]
        /\ status[c.run] \in {"queued", "cancelled"} => c.fence < fence[c.run]

\* accepted is set exactly on rows with a worker's result: the feed the
\* control-plane polls holds neither cancelled jobs nor unfinished ones.
AcceptedIffResult ==
    \A r \in Runs : accepted[r] <=> status[r] \in Outcomes

\* The result a job ends with is that of the worker whose claim was current
\* (I-11): it was sent under the epoch the row closed with, and the row's own
\* record of who it was granted to names its sender, unless the sweep purged
\* that worker.  A late completion of an earlier holder never stands in for
\* the next one's, although the next holder is alive and running the job.
OnlyHolderAccepts ==
    \A r \in Runs : accepted[r] =>
        /\ result[r].fence = fence[r]
        /\ claimedBy[r] \in {result[r].by, NoOne}

\* The table implements the one-decision-per-run contract of FencedJob: a
\* job is granted, revoked, killed or decided, every change of holder costs an
\* epoch, and a closed job never moves again.
Promise == INSTANCE FencedJob WITH
    cell <- [r \in Runs |->
               [phase  |-> CASE status[r] = "absent"  -> "none"
                             [] status[r] = "queued"  -> "open"
                             [] status[r] = "running" -> "granted"
                             [] OTHER                 -> "closed",
                epoch  |-> fence[r],
                result |-> IF accepted[r] THEN status[r] ELSE "none"]]
ImplementsFencedJob == Promise!Spec

\* A running job that no live worker holds any more is taken back by the
\* sweep: a silent death of its worker does not lose it (EC-042).
Abandoned(r) ==
    /\ status[r] = "running" /\ fence[r] < MaxFence
    /\ \A w \in Workers : [run |-> r, fence |-> fence[r]] \notin held[w]
AbandonedIsReaped == \A r \in Runs : Abandoned(r) ~> ~Abandoned(r)

\* A queued job leaves the queue although the sweep keeps deleting the worker
\* rows that claims depend on (the stall described in ClaimJobs), as long as a
\* slot of the process got past its first registration.
QueuedIsClaimed ==
    \A r \in Runs : status[r] = "queued" ~>
        status[r] # "queued" \/ \A s \in Slots : phase[s] = "dead"

\* The lease comment: a reclaimed job remains completable by whichever worker
\* holds the newer epoch under the same (unexpired) dispatch lease.
ReclaimedCompletable ==
    \A s \in Slots : \A c \in held[s] :
        IsCurrent(c) /\ lease[c.run] = "live" => AuthorizedSlot(c)
=============================================================================
