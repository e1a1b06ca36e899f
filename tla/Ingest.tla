------------------------------- MODULE Ingest --------------------------------
(***************************************************************************)
(* The webhook edge (services/ingest): the handler that verifies, de-      *)
(* duplicates, stores and forwards a GitHub delivery, the replay window,   *)
(* the retry worker and the sender of signature-failure markers.           *)
(*                                                                         *)
(* hop[a] is the POST /internal/ctrl/deliveries that a has open.  A class  *)
(* hash is the content it digests: two GUIDs with equal content have equal *)
(* classes.                                                                *)
(***************************************************************************)
EXTENDS Naturals, Sequences, FiniteSets, SequencesExt

CONSTANTS
    Guids,           \* X-GitHub-Delivery values
    Content,         \* Content[g]: event kind, repository and payload
    Unredactable,    \* deliveries whose payload RedactPayload refuses
    Handlers,        \* concurrent requests of the webhook route
    MaxInflight,     \* requests past acquire at one time (64)
    SeenMax,         \* entries of the replay window (100000)
    MarkerBuffer,    \* markers waiting to be sent (256)
    MaxAttempts,     \* attempts after which a row is no longer due
    AttemptsPerScan, \* sends of one row in one scan (3)
    MaxFaults        \* bound: failures in one behaviour

ASSUME IngestConstants ==
    /\ IsFiniteSet(Guids) /\ Guids \subseteq DOMAIN Content /\ Unredactable \subseteq Guids
    /\ {MaxInflight, SeenMax, MarkerBuffer, MaxAttempts, AttemptsPerScan} \subseteq Nat \ {0}
    /\ MaxFaults \in Nat
    /\ Handlers \cap {"worker", "markers", "stray"} = {}

VARIABLES
    rows,     \* ingest.deliveries with sig_ok, by GUID
    audited,  \* quarantine rows (sig_ok=false) inserted
    inflight, \* GUIDs past acquire
    seen,     \* the replay window, most recently used first
    req,      \* req[h]: where request h is in ServeHTTP
    worker,   \* the retry worker: rows of this scan and sends of the first
    markers,  \* the marker channel
    hop,      \* requests open at the control-plane
    faults    \* failures so far

rowVars == <<rows, audited>>
ingestVars == <<rowVars, inflight, seen, req, worker, markers, hop, faults>>

Senders == Handlers \cup {"worker", "markers"}
Hops == Senders \cup {"stray"} \* a stray's client is gone
NoHop == [pc |-> "none", env |-> [id |-> <<>>, guid |-> "-", suspect |-> FALSE, marker |-> FALSE], result |-> "-"]
IdleReq == [pc |-> "idle", guid |-> "-", suspect |-> FALSE]
IdleWorker == [pc |-> "idle", batch |-> <<>>, tries |-> 0]
Absent == [status |-> "absent", attempts |-> 0, suspect |-> FALSE, due |-> FALSE, nr |-> 0]

Fail == faults < MaxFaults /\ faults' = faults + 1
Opened(env) == [pc |-> "arrived", env |-> env, result |-> "-"]
Answered(a) == hop[a].pc = "answered"
Closed(a) == [hop EXCEPT ![a] = NoHop]

----------------------------------------------------------------------------
(***************************************************************************)
(* The webhook handler                                                     *)
(***************************************************************************)

\* Class g was seen inside the window.
Hit(g) == \E i \in 1..Len(seen) : seen[i].class = Content[g] /\ seen[i].fresh

\* Mutant: a hit is not refreshed and a miss not recorded.
SeenOrAddForgets(g) == seen

\* A hit moves to the front with a new stamp, an expired entry is inserted
\* anew, and the oldest entries beyond the bound go.
SeenOrAdd(g) ==
    LET at == {i \in 1..Len(seen) : seen[i].class = Content[g]}
        others == IF at = {} THEN seen ELSE RemoveAt(seen, CHOOSE i \in at : TRUE)
        all == <<[class |-> Content[g], fresh |-> TRUE]>> \o others
    IN  SubSeq(all, 1, IF Len(all) > SeenMax THEN SeenMax ELSE Len(all))

Acquirable(g) == Cardinality(inflight) < MaxInflight /\ g \notin inflight

\* A correctly signed request.
ServeHTTP(h, g) ==
    /\ req[h].pc = "idle"
    /\ IF Acquirable(g)
          THEN /\ inflight' = inflight \cup {g}
               /\ seen' = SeenOrAdd(g)
               /\ req' = [req EXCEPT ![h] = [pc |-> "insert", guid |-> g, suspect |-> Hit(g)]]
          ELSE UNCHANGED <<inflight, seen, req>> \* 202 deduplicated
    /\ UNCHANGED <<rowVars, worker, markers, hop, faults>>

Release(h) == /\ inflight' = inflight \ {req[h].guid}
              /\ req' = [req EXCEPT ![h] = IdleReq]

Envelope(g, suspect) == [id |-> <<g>>, guid |-> g, suspect |-> suspect, marker |-> FALSE]

\* The unique index decides; a stored delivery is forwarded at once.
InsertDelivery(h) ==
    LET g == req[h].guid IN
    /\ req[h].pc = "insert"
    /\ IF rows[g].status # "absent"
          THEN Release(h) /\ UNCHANGED <<rows, hop>> \* 202 deduplicated
          ELSE /\ rows' = [rows EXCEPT ![g] =
                     [Absent EXCEPT !.status = IF req[h].suspect THEN "duplicate_suspect" ELSE "pending",
                                    !.suspect = req[h].suspect,
                                    !.nr = 1 + Cardinality({x \in Guids : rows[x].status # "absent"})]]
               /\ req' = [req EXCEPT ![h].pc = "forward"]
               /\ hop' = IF g \in Unredactable
                            THEN [hop EXCEPT ![h] = [NoHop EXCEPT !.pc = "answered", !.result = "rejected"]]
                            ELSE [hop EXCEPT ![h] = Opened(Envelope(g, req[h].suspect))]
               /\ UNCHANGED inflight
    /\ UNCHANGED <<audited, seen, worker, markers, faults>>

\* 503: GitHub may redeliver.
InsertFails(h) ==
    /\ req[h].pc = "insert" /\ Fail /\ Release(h)
    /\ UNCHANGED <<rowVars, seen, worker, markers, hop>>

\* UPDATE ... WHERE id: whatever the row says by now.
UpdateForwardState(g, status, attempts) ==
    rows' = [rows EXCEPT ![g].status = status, ![g].attempts = attempts, ![g].due = FALSE]

\* Mutant: a 503 counts as delivered.
StatusAfterAny(result) == IF result = "rejected" THEN "forward_failed" ELSE "forwarded"

StatusAfter(result) ==
    CASE result = "accepted" -> "forwarded"
      [] result = "unavailable" -> "pending"
      [] OTHER -> "forward_failed"

\* The outcome of the one forward of this request, and its reply.
RecordOutcome(h) ==
    LET g == req[h].guid  res == hop[h].result IN
    /\ req[h].pc = "forward" /\ Answered(h)
    /\ \/ UpdateForwardState(g, StatusAfter(res), IF res = "accepted" THEN 0 ELSE 1) /\ UNCHANGED faults
       \/ Fail /\ UNCHANGED rows \* logged only
    /\ Release(h) /\ hop' = Closed(h)
    /\ UNCHANGED <<audited, seen, worker, markers>>

----------------------------------------------------------------------------
(***************************************************************************)
(* Signature failures                                                      *)
(***************************************************************************)

\* A bad signature: an audit row that never takes the GUID's place, and a
\* marker under an id of its own; a full channel drops its oldest.
Reject(g) ==
    LET n == audited + 1
        env == [id |-> <<g, n>>, guid |-> g, suspect |-> FALSE, marker |-> TRUE]
        kept == IF Len(markers) = MarkerBuffer THEN Tail(markers) ELSE markers
    IN  /\ audited' = n
        /\ markers' = Append(kept, env)
        /\ UNCHANGED <<rows, inflight, seen, req, worker, hop, faults>>

SendMarker ==
    /\ markers # <<>> /\ hop["markers"] = NoHop
    /\ hop' = [hop EXCEPT !["markers"] = Opened(Head(markers))]
    /\ markers' = Tail(markers)
    /\ UNCHANGED <<rowVars, inflight, seen, req, worker, faults>>

\* Sent once, whatever the answer.
MarkerAnswered ==
    /\ Answered("markers") /\ hop' = Closed("markers")
    /\ UNCHANGED <<rowVars, inflight, seen, req, worker, markers, faults>>

----------------------------------------------------------------------------
(***************************************************************************)
(* The retry worker                                                        *)
(***************************************************************************)

\* Mutant: rows inserted as duplicate suspects are not retried.
DueButSuspects(g) == /\ rows[g].status \in {"pending", "forward_failed"}
                     /\ rows[g].attempts < MaxAttempts /\ rows[g].due

Due(g) == /\ rows[g].status \in {"pending", "forward_failed", "duplicate_suspect"}
          /\ rows[g].attempts < MaxAttempts /\ rows[g].due

\* Thirty seconds have passed since the last attempt on g, or its receipt.
Age(g) ==
    /\ rows[g].status \notin {"absent", "forwarded"} /\ rows[g].attempts < MaxAttempts /\ ~rows[g].due
    /\ rows' = [rows EXCEPT ![g].due = TRUE]
    /\ UNCHANGED <<audited, inflight, seen, req, worker, markers, hop, faults>>

\* Due rows as they are now, oldest first.
DueDeliveries ==
    {batch \in SetToSeqs({[guid |-> g, row |-> rows[g]] : g \in {x \in Guids : Due(x)}}) :
        \A i, j \in DOMAIN batch : i < j => batch[i].row.nr <= batch[j].row.nr}

ScanOnce ==
    /\ worker.pc = "idle"
    /\ \E batch \in DueDeliveries :
          /\ batch # <<>>
          /\ worker' = [pc |-> "send", batch |-> batch, tries |-> 0]
    /\ UNCHANGED <<rowVars, inflight, seen, req, markers, hop, faults>>

WorkerSend ==
    LET d == Head(worker.batch) IN
    /\ worker.pc = "send"
    /\ worker' = [worker EXCEPT !.pc = "wait", !.tries = @ + 1]
    /\ hop' = IF d.guid \in Unredactable
                 THEN [hop EXCEPT !["worker"] = [NoHop EXCEPT !.pc = "answered", !.result = "rejected"]]
                 ELSE [hop EXCEPT !["worker"] = Opened(Envelope(d.guid, d.row.suspect))]
    /\ UNCHANGED <<rowVars, inflight, seen, req, markers, faults>>

AttemptsAfter(d) == d.row.attempts + AttemptsPerScan

NextDelivery ==
    LET rest == Tail(worker.batch) IN
    worker' = IF rest = <<>> THEN IdleWorker ELSE [pc |-> "send", batch |-> rest, tries |-> 0]

\* Another try while unavailable, or the outcome is written.
WorkerAnswered ==
    LET d == Head(worker.batch)
        res == hop["worker"].result
        n == AttemptsAfter(d)
        status == IF res = "unavailable" /\ n >= MaxAttempts THEN "forward_failed" ELSE StatusAfter(res)
    IN  /\ worker.pc = "wait" /\ Answered("worker")
        /\ hop' = Closed("worker")
        /\ \/ /\ res = "unavailable" /\ worker.tries < AttemptsPerScan
              /\ worker' = [worker EXCEPT !.pc = "send"]
              /\ UNCHANGED <<rows, faults>>
           \/ /\ res # "unavailable" \/ worker.tries = AttemptsPerScan
              /\ NextDelivery
              /\ \/ UpdateForwardState(d.guid, status, n) /\ UNCHANGED faults
                 \/ Fail /\ UNCHANGED rows
        /\ UNCHANGED <<audited, inflight, seen, req, markers>>

----------------------------------------------------------------------------

\* 24 hours without a hit.
SeenExpires(i) ==
    /\ i \in 1..Len(seen) /\ seen[i].fresh
    /\ seen' = [seen EXCEPT ![i].fresh = FALSE]
    /\ UNCHANGED <<rowVars, inflight, req, worker, markers, hop, faults>>

\* The request of a dead or impatient client is lost or, one at a time,
\* goes on at the control-plane.
Abandoned(gone) ==
    \E keep \in SUBSET {a \in gone : hop[a].pc \notin {"none", "answered"}} :
        /\ Cardinality(keep) <= (IF hop["stray"] = NoHop THEN 1 ELSE 0)
        /\ hop' = [a \in Hops |-> IF a = "stray" /\ keep # {} THEN hop[CHOOSE k \in keep : TRUE]
                                  ELSE IF a \in gone THEN NoHop ELSE hop[a]]

\* Memory goes: requests, window, marker channel, the worker's batch.
IngestCrash ==
    /\ Fail /\ Abandoned(Senders)
    /\ inflight' = {} /\ seen' = <<>> /\ markers' = <<>>
    /\ req' = [h \in Handlers |-> IdleReq] /\ worker' = IdleWorker
    /\ UNCHANGED rowVars

IngestInit ==
    /\ rows = [g \in Guids |-> Absent] /\ audited = 0
    /\ inflight = {} /\ seen = <<>> /\ markers = <<>>
    /\ req = [h \in Handlers |-> IdleReq] /\ worker = IdleWorker
    /\ hop = [a \in Hops |-> NoHop]
    /\ faults = 0

RequestStep(h) == InsertDelivery(h) \/ InsertFails(h) \/ RecordOutcome(h)
WorkerStep == ScanOnce \/ WorkerSend \/ WorkerAnswered
MarkerStep == SendMarker \/ MarkerAnswered
IngestStep ==
    \/ \E h \in Handlers : RequestStep(h)
    \/ WorkerStep \/ MarkerStep
    \/ \E g \in Guids : Age(g)
    \/ IngestCrash
=============================================================================
