-------------------------------- MODULE Edge ---------------------------------
(***************************************************************************)
(* From GitHub's POST to the control-plane's projections: Ingest forwards  *)
(* to Webhooks over HTTP.                                                  *)
(***************************************************************************)
EXTENDS Ingest, Webhooks, Functions

CONSTANT Casts \* who takes part in a behaviour, and how often

VARIABLES posts,  \* requests GitHub has made so far
          forgot, \* classes that have left the replay window
          cast    \* the cast of this behaviour

edgeVars == <<ingestVars, hookVars, posts, forgot, cast>>

Step(a, pc, result) == [hop EXCEPT ![a].pc = pc, ![a].result = result]
UnchangedBut == UNCHANGED <<rowVars, inflight, seen, req, worker, markers>>

\* The cached answer, unless another body was recorded under the id: then,
\* and for an unknown id, the transaction decides.
LookupCommand(a) ==
    /\ hop[a].pc = "arrived"
    /\ \/ hop[a].env.id \in commands /\ hop' = Step(a, "answered", "accepted")
       \/ hop' = Step(a, "tx", "-")
    /\ UnchangedBut /\ UNCHANGED <<faults, hookVars>>

ExecTx(a) ==
    /\ hop[a].pc = "tx"
    /\ DeliveryTx(hop[a].env, Content[hop[a].env.guid])
    /\ hop' = Step(a, "answered", "accepted")
    /\ UnchangedBut /\ UNCHANGED faults

\* The transaction rolls back, or the control-plane cannot be reached: 503
\* or a transport error.
HandlingFails(a) ==
    /\ hop[a].pc \in {"arrived", "tx"} /\ Fail
    /\ hop' = Step(a, "answered", "unavailable")
    /\ UnchangedBut /\ UNCHANGED hookVars

\* The handler refuses before it looks anything up, with another code: its
\* HMAC secret differs, the body cannot be read.
Refused(a) ==
    /\ hop[a].pc = "arrived" /\ Fail
    /\ hop' = Step(a, "answered", "rejected")
    /\ UnchangedBut /\ UNCHANGED hookVars

\* The client's ten seconds are over; its request may still be executed.
ClientTimeout(a) ==
    /\ hop[a].pc \in {"arrived", "tx"} /\ Fail
    /\ \/ hop' = Step(a, "answered", "unavailable")
       \/ /\ hop["stray"] = NoHop
          /\ hop' = [Step(a, "answered", "unavailable") EXCEPT !["stray"] = hop[a]]
    /\ UnchangedBut /\ UNCHANGED hookVars

\* Nobody reads a stray's answer.
StrayEnds ==
    /\ Answered("stray") /\ hop' = Closed("stray")
    /\ UnchangedBut /\ UNCHANGED <<faults, hookVars>>

\* GitHub posts a delivery, or posts it again; or a signature does not
\* verify.
Post(h, g) ==
    /\ g \in cast.guids /\ h \in cast.requests /\ posts < cast.posts
    /\ ServeHTTP(h, g)
    /\ posts' = posts + 1
BadSignature(g) == g \in cast.guids /\ audited < cast.badsig /\ Reject(g)

EdgeInit ==
    /\ IngestInit /\ HookInit
    /\ posts = 0 /\ forgot = {} /\ cast \in Casts

HopStep(a) == LookupCommand(a) \/ ExecTx(a) \/ HandlingFails(a) \/ Refused(a)
Elsewhere ==
    /\ cast.scheduler
    /\ LeaseExpires \/ \E i \in 1..Len(candidates), v \in {"eligible", "rejected"} : Decided(i, v)
Expiry == cast.expiry /\ \E i \in 1..SeenMax : SeenExpires(i)
FreshIn(s) == {s[i].class : i \in {j \in 1..Len(s) : s[j].fresh}}
EdgeNext ==
    /\ \/ \E h \in Handlers, g \in Guids : Post(h, g) /\ UNCHANGED hookVars
       \/ /\ \/ (IngestStep \/ Expiry \/ \E g \in Guids : BadSignature(g)) /\ UNCHANGED hookVars
             \/ \E a \in Hops : HopStep(a)
             \/ \E a \in Senders : ClientTimeout(a)
             \/ StrayEnds
             \/ Elsewhere /\ UNCHANGED ingestVars
          /\ UNCHANGED posts
    /\ forgot' = forgot \cup (FreshIn(seen) \ FreshIn(seen'))
    /\ UNCHANGED cast

\* Requests, goroutines and clocks go on; failures and GitHub need not.  A
\* behaviour makes finitely many of these steps, so fairness to their
\* disjunction is enough.
Progress ==
    \/ \E h \in Handlers : InsertDelivery(h) \/ RecordOutcome(h)
    \/ WorkerStep \/ MarkerStep \/ StrayEnds
    \/ \E a \in Hops : LookupCommand(a) \/ ExecTx(a)
    \/ \E g \in Guids : Age(g)
EdgeFairness == WF_edgeVars(Progress /\ EdgeNext)

EdgeSpec == EdgeInit /\ [][EdgeNext]_edgeVars /\ EdgeFairness

----------------------------------------------------------------------------
(***************************************************************************)
(* Properties                                                              *)
(***************************************************************************)

\* I-12: whatever is redelivered, retried, timed out or executed by a request
\* nobody waits for any more, a delivery has its effects at most once, and a
\* signature failure one audit row (MarkProcessedTx).
ExactlyOnce == IsInjective(anchors) /\ IsInjective(marked)

\* Content already forwarded under one GUID has no effects under another
\* while the replay window remembers it (SeenOrAdd, applyDuplicateSuspect).
ReplayContained ==
    \A i, j \in 1..Len(anchors) :
        i # j /\ Content[anchors[i]] = Content[anchors[j]] => Content[anchors[i]] \in forgot

\* A row says forwarded only if the control-plane has committed it
\* (recordOutcome, processOne: both write without looking at the row).
ForwardedIsProcessed ==
    \A g \in Guids : rows[g].status = "forwarded" => <<g>> \in processed

\* One head of a pull request is never validated twice at a time, whatever
\* the order in which its deliveries come in (submitWebhookCandidateTx).
OneLivePerHead ==
    \A i, j \in 1..Len(candidates) :
        /\ candidates[i].head = candidates[j].head
        /\ {candidates[i].state, candidates[j].state} \cap Gone = {}
        => i = j

\* In the end every stored delivery is forwarded, or was tried until its
\* attempts were spent: neither the race of worker and request nor a lost
\* UPDATE leaves it behind (DueDeliveries, processOne).
StoredSettles ==
    <>[](\A g \in Guids :
            rows[g].status # "absent" => rows[g].status = "forwarded" \/ rows[g].attempts >= MaxAttempts)
=============================================================================
