----------------------------- MODULE MCRunEngine -----------------------------
(***************************************************************************)
(* TLC instances of RunEngine.  A cast says which candidates, events,      *)
(* results, epochs and hours take part in a behaviour; what a cast leaves  *)
(* out never happens in it.  A cast whose behaviours must be fair has      *)
(* "ageing": the fairness asks it of the clock.                            *)
(***************************************************************************)
EXTENDS RunEngine, TLC

CONSTANT Casts

VARIABLE cast     \* the cast of this behaviour

\* Candidates: a and its duplicate b, and n outside any cluster.  "a2" is the
\* replan of a.  Every run is of tier 1 and costs one minute; a1 is a gate-only
\* job, the others produce the one required kind.
Owner == [r \in Runs |-> IF r \in {"a1", "a2"} THEN "a" ELSE IF r = "b1" THEN "b" ELSE "n"]
Clustered == [c \in Cands |-> IF c = "a" THEN "representative" ELSE IF c = "b" THEN "duplicate_of" ELSE "none"]
Replans == [r \in Runs |-> IF r = "a2" THEN 1 ELSE 0]
GateFirst == [r \in Runs |-> IF r = "a1" THEN "gate" ELSE "unit"]
UnitRequired == {"unit"}
AllTiersOne == [r \in Runs |-> 1]
OneEach == [r \in Runs |-> 1]
CapOne == <<1>>
CapTwo == <<2>>
Roomy == [cpu |-> 9, conc |-> 9]

\* Two candidates race webhooks, the reconciler, crashes and a job taken over.
Race == [cands |-> {"a", "n"}, results |-> {"pass", "infra"}, epochs |-> 2, hours |-> 0,
         events |-> {"closed", "push", "synchronize", "ageing", "crash", "takeover"}]
\* A cluster is decided while its representative is planned again.
Decide == [cands |-> {"a", "b"}, results |-> {"pass", "hollow", "flake"}, epochs |-> 1, hours |-> 0,
           events |-> {"revalidate", "ageing"}]
\* Every way a job ends, in two hours, while leases end and enqueueing fails.
Ends == [cands |-> {"n"}, results |-> AllResults, epochs |-> 1, hours |-> 1,
         events |-> {"uninstall", "lease_ttl", "enqueue_error", "enqueue_refused", "ageing"}]
PassingCasts == {Race, Decide, Ends}

\* One failed job; a replanned candidate; two results and a page of one.
Failing == [cands |-> {"n"}, results |-> {"infra"}, epochs |-> 1, hours |-> 0, events |-> {}]
Replanning == [cands |-> {"a"}, results |-> {"pass"}, epochs |-> 1, hours |-> 0, events |-> {"revalidate"}]
Finishing == [cands |-> {"a", "n"}, results |-> {"pass"}, epochs |-> 1, hours |-> 0, events |-> {"ageing"}]
FailingCast == {Failing}
ReplanningCast == {Replanning}
FinishingCast == {Finishing}

In(event) == event \in cast.events
Steps ==
    \/ TickBegin \/ DispatchCommit \/ FeedRead \/ IngestLoad \/ IngestApply
    \/ \E a \in todo : DispatchSkip(a) \/ DispatchEnqueue(a)
    \/ In("enqueue_refused") /\ \E a \in todo : EnqueueRefused(a)
    \/ In("enqueue_error") /\ \E a \in todo : EnqueueFails(a)
    \/ In("crash") /\ Crash
    \/ ReconcileScan
    \/ \E r \in Runs : ReconcileCancel(r)
    \/ In("lease_ttl") /\ LeaseExpires
    \/ \E c \in cast.cands : Submit(c)
    \/ In("synchronize") /\ \E c \in cast.cands : Synchronize(c)
    \/ In("closed") /\ Close
    \/ In("push") /\ \E S \in SUBSET Cands : BaseAdvanced(S)
    \/ In("uninstall") /\ Uninstall
    \/ In("revalidate") /\ \E c \in cast.cands : RevalidateRead(c)
    \/ RevalidateCommit
    \/ \E r \in Runs : cell[r].epoch < cast.epochs /\ (In("takeover") \/ cell[r].phase = "open") /\ FleetMoves(r)
    \/ \E r \in Runs : \E x \in cast.results : FleetAccepts(r, x)
    \/ In("ageing") /\ \E r \in Runs : RunAges(r)
    \/ hour < cast.hours /\ HourTurns

CastInit == Init /\ cast \in Casts
CastNext == Steps /\ UNCHANGED cast
CastSpec == CastInit /\ [][CastNext]_<<vars, cast>> /\ ReconcilerFairness
FairCastSpec == CastSpec /\ SchedulerFairness
=============================================================================
