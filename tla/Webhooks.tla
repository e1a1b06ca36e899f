------------------------------ MODULE Webhooks -------------------------------
(***************************************************************************)
(* The control-plane's delivery endpoint (api/delivery_*.go): normalising  *)
(* a forwarded delivery and applying its effects exactly once.             *)
(*                                                                         *)
(* One pull request of one repository.  The effects' transaction begins    *)
(* with an append to the ledger, whose advisory lock it holds to its       *)
(* commit, so it is one step.  Runs, evidence and repair tasks of a        *)
(* candidate are RunEngine's.                                              *)
(***************************************************************************)
EXTENDS Naturals, Sequences

VARIABLES
    processed,  \* ctrl.processed_events of consumer "delivery-normalizer"
    commands,   \* ctrl.command_log of this endpoint
    anchors,    \* ext_delivery_id of every delivery.accepted, in ledger order
    marked,     \* marker ids with a row in ctrl.security_audit
    intent,     \* an intent is bound to the pull request
    lease,      \* its change-scope lease
    candidates, \* ctrl.candidates of the intent, oldest first
    suspended   \* the repository is in ctrl.repo_suspensions

prVars == <<intent, lease, candidates, suspended>>
hookVars == <<processed, commands, anchors, marked, prVars>>

LeaseStates == {"none", "granted", "expired", "revoked"}
Gone == {"superseded", "cancelled"}
CandidateStates == Gone \cup {"live", "eligible", "rejected"}

\* event_kind and payload to the kind whose effects apply; "-" parks.
NormalizeDelivery(c) ==
    CASE c.event = "pull_request" /\ c.action \in {"opened", "reopened"} -> "pr.opened"
      [] c.event = "pull_request" /\ c.action = "synchronize" -> "pr.synchronize"
      [] c.event = "pull_request" /\ c.action = "closed" -> "pr.closed"
      [] c.event = "push" -> IF c.tracked /\ ~c.deleted THEN "push.base_advanced" ELSE "push.branch"
      [] c.event = "installation" /\ c.action = "created" -> "installation.created"
      [] c.event = "installation" /\ c.action = "deleted" -> "installation.deleted"
      [] c.event = "installation" /\ c.action = "new_permissions_accepted"
            -> "installation.permissions_changed"
      [] c.event = "check_run" /\ c.action = "rerequested" -> "check_run.rerequested"
      [] OTHER -> "-"

----------------------------------------------------------------------------
(***************************************************************************)
(* Candidates of the pull request                                          *)
(***************************************************************************)

\* CandidateHeadStateTx
Known(head) == \E i \in 1..Len(candidates) : candidates[i].head = head
LiveHead(head) ==
    \E i \in 1..Len(candidates) : candidates[i].head = head /\ candidates[i].state \notin Gone

\* Mutant: a candidate is submitted whether or not its head is live.
SubmittedAnyway(c) == Append(candidates, [head |-> c.head, base |-> c.base, state |-> "live"])

\* A live head is a replay, a gone one is submitted again.
Submitted(c) ==
    IF LiveHead(c.head) THEN candidates
    ELSE Append(candidates, [head |-> c.head, base |-> c.base, state |-> "live"])

\* The live ones of which end in state.
Ended(which, state) ==
    [i \in DOMAIN candidates |->
        IF i \in which /\ candidates[i].state = "live" THEN [candidates[i] EXCEPT !.state = state]
                                                      ELSE candidates[i]]

\* A suspended repository gets nothing; the intent is found or created.
ApplyPROpened(c) ==
    IF suspended THEN UNCHANGED prVars
    ELSE /\ intent' = TRUE
         /\ lease' = IF intent THEN lease ELSE "granted"
         /\ candidates' = Submitted(c)
         /\ UNCHANGED suspended

\* A known head is a replay or stale; a new one supersedes what is live.
ApplyPRSynchronize(c) ==
    IF ~intent \/ Known(c.head) THEN UNCHANGED prVars
    ELSE /\ candidates' = Append(Ended(DOMAIN candidates, "superseded"),
                                 [head |-> c.head, base |-> c.base, state |-> "live"])
         /\ UNCHANGED <<intent, lease, suspended>>

ApplyPRClosed(c) ==
    /\ candidates' = IF intent THEN Ended(DOMAIN candidates, "cancelled") ELSE candidates
    /\ UNCHANGED <<intent, lease, suspended>>

ApplyPushBaseAdvanced(c) ==
    /\ candidates' = Ended({i \in DOMAIN candidates : candidates[i].base = c.base}, "superseded")
    /\ UNCHANGED <<intent, lease, suspended>>

\* Work is found through leases that are still granted.
ApplyInstallationDeleted(c) ==
    /\ lease' = IF lease = "granted" THEN "revoked" ELSE lease
    /\ candidates' = IF lease = "granted" THEN Ended(DOMAIN candidates, "cancelled") ELSE candidates
    /\ suspended' = TRUE
    /\ UNCHANGED intent

ApplyDeliveryEffects(c) ==
    LET kind == NormalizeDelivery(c) IN
    CASE kind = "pr.opened" -> ApplyPROpened(c)
      [] kind = "pr.synchronize" -> ApplyPRSynchronize(c)
      [] kind = "pr.closed" -> ApplyPRClosed(c)
      [] kind = "push.base_advanced" -> ApplyPushBaseAdvanced(c)
      [] kind = "installation.deleted" -> ApplyInstallationDeleted(c)
      [] OTHER -> UNCHANGED prVars

----------------------------------------------------------------------------
(***************************************************************************)
(* The endpoint                                                            *)
(***************************************************************************)

\* Mutant: the insert into processed_events is not looked at.
MarkProcessedAlways(id) == TRUE

\* MarkProcessedTx: the insert took effect.
MarkProcessed(id) == id \notin processed

\* A signature-failure marker only leaves its audit row.
ApplyQuarantineMarker(env) ==
    marked' = Append(marked, env.id) /\ UNCHANGED <<anchors, prVars>>

\* A suspected replay leaves nothing but the guards.
ApplyDuplicateSuspect(env) == UNCHANGED <<marked, anchors, prVars>>

Accept(env, c) ==
    anchors' = Append(anchors, env.guid) /\ ApplyDeliveryEffects(c) /\ UNCHANGED marked

\* The transaction of handleDelivery.
DeliveryTx(env, c) ==
    IF ~MarkProcessed(env.id) THEN UNCHANGED hookVars
    ELSE /\ processed' = processed \cup {env.id}
         /\ commands' = commands \cup {env.id}
         /\ IF env.marker THEN ApplyQuarantineMarker(env)
            ELSE IF env.suspect THEN ApplyDuplicateSuspect(env)
            ELSE Accept(env, c)

\* The scheduler decides a live candidate; the lease's TTL passes.
Decided(i, verdict) ==
    /\ i \in 1..Len(candidates) /\ candidates[i].state = "live"
    /\ candidates' = [candidates EXCEPT ![i].state = verdict]
    /\ UNCHANGED <<processed, commands, anchors, marked, intent, lease, suspended>>
LeaseExpires ==
    /\ lease = "granted" /\ lease' = "expired"
    /\ UNCHANGED <<processed, commands, anchors, marked, intent, candidates, suspended>>

HookInit ==
    /\ processed = {} /\ commands = {} /\ anchors = <<>> /\ marked = <<>>
    /\ intent = FALSE /\ lease = "none" /\ candidates = <<>> /\ suspended = FALSE
=============================================================================
