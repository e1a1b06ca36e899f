---- MODULE MCPublishing ----
(***************************************************************************)
(* TLC instances of Publishing.  A cast says who takes part in a behaviour:*)
(* either the relay, which posts what it drains, or clients that post any  *)
(* envelope, in any order and more than once, each waiting for its answer. *)
(***************************************************************************)
EXTENDS Publishing

CONSTANT Casts

VARIABLES posts,    \* envelopes clients posted so far
          cast      \* the cast of this behaviour
mcVars == <<pubVars, posts, cast>>

MCType == [d1 |-> "decision.rendered", q1 |-> "validation.requested"]
MCVerb == [d1 |-> "eligible_for_merge_train", d2 |-> "rejected"]
MCRevOf == [d1 |-> "v1"]
MCEnvelopes == [kind : {"decision"}, rev : Revs, id : {"d1", "d2"}]
                 \cup [kind : {"lifecycle"}, rev : Revs, id : {"in_progress", "completed"}]
                 \cup [kind : {"rerun_requested"}, rev : Revs, id : {"k1", "k2"}]

\* The relay's two drainers; two handlers racing each other and the drainer of
\* the queue; a handler racing the sweeper; one envelope among sweeper and
\* drainer, which then run for ever.
Everyone == {"r1", "r2", "sweeper", "drainer"}
Draining == [relay |-> TRUE, who |-> Everyone, posts |-> 0, faults |-> 1, policy |-> Policy, ids |-> {}]
Racing == [relay |-> FALSE, who |-> {"r1", "r2", "drainer"}, posts |-> 2, faults |-> 0, policy |-> Policy,
           ids |-> {"d2", "in_progress", "k1"}]
Sweeping == [relay |-> FALSE, who |-> {"r1", "sweeper"}, posts |-> 2, faults |-> 1, policy |-> Policy,
             ids |-> {"d2", "in_progress", "completed", "k1"}]
Living == [relay |-> FALSE, who |-> {"r1", "sweeper", "drainer"}, posts |-> 1, faults |-> 1,
           policy |-> "replay_cached", ids |-> {"in_progress", "k1"}]
PassingCasts == {Draining, Racing, Sweeping, Living}
Rerunning == [Racing EXCEPT !.ids = {"k1", "k2"}]
RerunningCast == {Rerunning}

\* A revision that is new, in progress, or decided, with its check run.
Prior == {NoRec,
          [NoRec EXCEPT !.run = 1, !.phase = "in_progress"],
          [run |-> 1, phase |-> "completed", concl |-> "success", dec |-> "d1", last |-> "d1"]}

\* Clients find the connector in any of these states.
ClientInit ==
    /\ RelayInit
    /\ \E r \in Prior :
          /\ rec = [v \in Revs |-> r]
          /\ github = IF r = NoRec THEN <<>>
                      ELSE <<[rev |-> CHOOSE v \in Revs : TRUE, status |-> r.phase]>>
          /\ recorded = {r.dec} \ {"-"}
    /\ tokens \in {0, Cap}
    /\ pending = <<>> /\ strays = {} /\ seen = {} /\ hourly = 0
    /\ \E reruns \in {0, MaxPerCandidate} : spent = [v \in Revs |-> reruns]
    /\ job = [w \in Writers |-> Idle] /\ todo = [w \in Loops |-> <<>>] /\ faults = 0

Init == posts = 0 /\ cast \in Casts /\ IF cast.relay THEN PubInit ELSE ClientInit

Aside == UNCHANGED <<ledgerVars, relayVars, posts, cast>>
Recording == recorded' = recorded \cup ({rec'[v].dec : v \in Revs} \ {"-"})

Post(t, e) == /\ ~cast.relay /\ t \in cast.who /\ posts < cast.posts /\ e.id \in cast.ids
              /\ Receive(t, e) /\ posts' = posts + 1
              /\ UNCHANGED <<ledgerVars, relayVars, recorded, cast>>
Answered(t) == ~cast.relay /\ At(t, "answered") /\ Leave({t}) /\ Aside /\ UNCHANGED recorded

Serve(t) == (HandlerStep(t, cast.policy) \/ WriterStep(t)) /\ Aside /\ Recording
Work(w) == (WriterStep(w) \/ NextItem(w)) /\ Aside /\ Recording
Sweep == "sweeper" \in cast.who /\ SweepTick /\ Aside /\ Recording
Drain == "drainer" \in cast.who /\ DrainTick /\ Aside /\ Recording
Tokens == (\E n \in 1..Cap : Refill(n)) /\ Aside /\ Recording
Retries == (\E i \in 1..Len(pending) : RetryDue(i)) /\ Aside /\ Recording
Hours == HourTurns /\ Aside /\ Recording
Crash == ConnectorCrash /\ Aside /\ Recording

Relaying == cast.relay /\ UNCHANGED <<posts, cast>>
Appends == Relaying /\ (SomeTransaction \/ VerifyRunOnce) /\ UNCHANGED <<connVars, recorded>>
Backoff == Relaying /\ (\E i \in 1..Len(outbox) : BackoffElapses(i)) /\ UNCHANGED <<connVars, recorded>>
Relay(t) ==
    /\ Relaying /\ UNCHANGED recorded
    /\ \/ (ClaimOutboxBatch(t) \/ HandleLocally(t) \/ MarkPublished(t) \/ MarkFailed(t)) /\ UNCHANGED connVars
       \/ DrainerStep(t)
Breaks == Relaying /\ UNCHANGED recorded
          /\ (ControlPlaneCrash \/ \E t \in Drainers : MarkErrors(t) /\ UNCHANGED connVars)

Next ==
    /\ \/ \E t \in Posters : Answered(t) \/ Serve(t) \/ Relay(t) \/ \E e \in Envelopes : Post(t, e)
       \/ \E w \in Loops : Work(w)
       \/ Sweep \/ Drain \/ Tokens \/ Retries \/ Hours \/ Crash
       \/ Appends \/ Backoff \/ Breaks
    /\ faults' <= cast.faults

\* Relay, loops, handlers and clocks go on for ever where they all take part;
\* faults, new events and new posts need not happen.
Forever == Loops \subseteq cast.who
Fairness ==
    /\ \A t \in Posters : WF_mcVars(Forever /\ Serve(t)) /\ WF_mcVars(Relay(t))
    /\ \A w \in Loops : WF_mcVars(Forever /\ Work(w))
    /\ WF_mcVars(Forever /\ Sweep) /\ WF_mcVars(Forever /\ Drain)
    /\ WF_mcVars(Forever /\ Retries) /\ WF_mcVars(Backoff)
    /\ WF_mcVars(Forever /\ Refill(Cap - tokens) /\ Aside /\ Recording)
Spec == Init /\ [][Next]_mcVars /\ Fairness

\* "a required check can never stay yellow forever", as the tracker sees it:
\* where sweeper and drainer run, an open record is completed, by its decision
\* or by the sweeper.
OpenIsClosed ==
    \A v \in Revs : Forever /\ rec[v].phase \in Open ~> rec[v].phase = "completed"

\* Where sweeper and drainer run, every queued write leaves the queue, whatever
\* failed before.
PendingDrains ==
    \A k \in Revs \X (Open \cup {"completed"}) : Forever /\ k \in Keys ~> k \notin Keys
====
