----------------------------- MODULE Publishing ------------------------------
(***************************************************************************)
(* From a rendered decision to its check: the relay (Relay) drains the     *)
(* outbox of the control-plane and its handler of decision.rendered posts  *)
(* the decision to the github-connector (Connector).  Drainer t is client  *)
(* thread t of the connector.                                              *)
(***************************************************************************)
EXTENDS Relay, Connector

CONSTANT RevOf \* RevOf[e]: the candidate revision that decision e is about

VARIABLE recorded \* decisions the tracker has held so far

pubVars == <<ledgerVars, relayVars, connVars, recorded>>

IsDecision(e) == Type[e] = "decision.rendered"
Envelope(e) == [kind |-> "decision", rev |-> RevOf[e], id |-> e]

ASSUME PublishingConstants ==
    /\ Drainers = Posters
    /\ \A e \in Events : IsDecision(e) => e \in DOMAIN Verb /\ Envelope(e) \in Envelopes

\* ConsumeRendered reads event, candidate and intent, then posts.
PostDecision(t) ==
    /\ AtHandlers(t) /\ IsDecision(Item(t)) /\ At(t, "idle")
    /\ Receive(t, Envelope(Item(t)))
    /\ UNCHANGED <<ledgerVars, relayVars>>

\* One of those reads fails.
ReadsFail(t) ==
    /\ "db_error" \in Faults
    /\ AtHandlers(t) /\ IsDecision(Item(t)) /\ At(t, "idle")
    /\ HandlerReturns(t, "error")
    /\ UNCHANGED <<ledgerVars, outbox, processed, hand, connVars>>

\* Mutant: every answer but 503 counts as delivered.
OutcomeOfSome(code) == IF code = 503 THEN "error" ELSE "ok"

\* Above 499 the row is retried; another refusal is logged and dropped.
OutcomeOf(code) == IF code >= 500 THEN "error" ELSE "ok"

TakeAnswer(t) ==
    /\ At(t, "answered")
    /\ HandlerReturns(t, OutcomeOf(job[t].code))
    /\ Leave({t}) /\ UNCHANGED <<ledgerVars, outbox, processed, hand>>

\* The control-plane dies; its requests are cancelled where they are.
ControlPlaneCrash ==
    /\ RelayCrash /\ Leave(Drainers)

DrainerStep(t) == PostDecision(t) \/ ReadsFail(t) \/ TakeAnswer(t)
CrossStep == ControlPlaneCrash \/ \E t \in Drainers : DrainerStep(t)

PubInit == RelayInit /\ ConnectorInit /\ recorded = {}
PubNext ==
    /\ \/ RelayStep /\ UNCHANGED connVars
       \/ ConnectorStep /\ UNCHANGED <<ledgerVars, relayVars>>
       \/ CrossStep
    /\ recorded' = recorded \cup ({rec'[v].dec : v \in Revs} \ {"-"})

\* Goroutines, handlers and clocks go on; faults and new events need not.
PubFairness ==
    /\ WF_pubVars((\E i \in 1..Len(outbox) : BackoffElapses(i)) /\ PubNext)
    /\ \A t \in Drainers :
          /\ WF_pubVars((ClaimOutboxBatch(t) \/ HandleLocally(t) \/ MarkPublished(t) \/ MarkFailed(t)
                           \/ DrainerStep(t)) /\ PubNext)
          /\ WF_pubVars((HandlerStep(t, Policy) \/ WriterStep(t)) /\ PubNext)

PubSpec == PubInit /\ [][PubNext]_pubVars /\ PubFairness

----------------------------------------------------------------------------
(***************************************************************************)
(* Properties                                                              *)
(***************************************************************************)

\* An outbox row is published only after its effect is there: the connector
\* has recorded the decision, or refused it for good, and validation.requested
\* is marked processed.  No timeout, crash, failed read or lost answer on the
\* way makes the relay believe otherwise (drainOnce, ConsumeRendered,
\* serveDecision).
PublishedWasRecorded ==
    \A i \in 1..Len(outbox) : outbox[i].status = "published" =>
        LET e == outbox[i].event IN
        /\ IsDecision(e) => e \in recorded \/ ~Valid(Envelope(e))
        /\ Type[e] = "validation.requested" => e \in processed

\* Every row comes to rest: published, parked after MaxAttempts, or, after a
\* crash or a failed UPDATE in the middle of a batch, left in delivering.
\* Only that last case loses it (ReclaimStuckDelivering has no caller).
RowsSettle ==
    \A i \in 1..Cardinality(Events) :
        i <= Len(outbox) ~> i <= Len(outbox) /\ (outbox[i].status \in {"published", "failed"} \/ Orphaned(i))
=============================================================================
