----------------------------- MODULE EdgeProofs ------------------------------
(***************************************************************************)
(* Theorems about Edge for any deliveries, handlers, bounds and casts.     *)
(*                                                                         *)
(* What connects the ends: an envelope that is open or under way carries   *)
(* the id of the row its sender holds, an accepted answer means that this  *)
(* id is in processed_events, and so does an entry of the ledger.  For the *)
(* replay window: content that went out unsuspected is remembered, or was  *)
(* forgotten after that.                                                   *)
(***************************************************************************)
EXTENDS Edge, TLAPS, SequenceTheorems, FiniteSetTheorems

Ids == {<<>>} \cup {<<g>> : g \in Guids} \cup {<<g, n>> : g \in Guids, n \in Nat}
Env == [id : Ids, guid : Guids \cup {"-"}, suspect : BOOLEAN, marker : BOOLEAN]
Hop == [pc : {"none", "arrived", "tx", "answered"}, env : Env,
        result : {"-", "accepted", "unavailable", "rejected"}]
Row == [status : {"absent", "pending", "duplicate_suspect", "forwarded", "forward_failed"},
        attempts : Nat, suspect : BOOLEAN, due : BOOLEAN,
        nr : {0} \cup {1 + Cardinality(S) : S \in SUBSET Guids}]
DueRow == [guid : Guids, row : Row]
Request == [pc : {"idle", "insert", "forward"}, guid : Guids \cup {"-"}, suspect : BOOLEAN]
Contents == {Content[g] : g \in Guids}
Candidate == [head : {c.head : c \in Contents}, base : {c.base : c \in Contents}, state : CandidateStates]

IngestTypeOK ==
    /\ rows \in [Guids -> Row] /\ audited \in Nat
    /\ seen \in Seq([class : Contents, fresh : BOOLEAN])
    /\ req \in [Handlers -> Request]
    /\ worker \in [pc : {"idle", "send", "wait"}, batch : Seq(DueRow), tries : Nat]
    /\ markers \in Seq(Env)
    /\ hop \in [Hops -> Hop]

HookTypeOK ==
    /\ anchors \in Seq(Guids) /\ marked \in Seq(Ids)
    /\ candidates \in Seq(Candidate)

\* A request the control-plane may still execute is a marker's or that of a
\* stored row, with its id; an accepted one is in processed_events.
HopsOK ==
    /\ \A a \in Hops :
          /\ hop[a].pc \in {"arrived", "tx"} /\ ~hop[a].env.marker =>
                /\ hop[a].env.guid \in Guids /\ hop[a].env.id = <<hop[a].env.guid>>
                /\ rows[hop[a].env.guid].status # "absent"
                /\ hop[a].env.suspect = rows[hop[a].env.guid].suspect
          /\ hop[a].pc = "answered" /\ hop[a].result = "accepted" => hop[a].env.id \in processed
    /\ \A i \in DOMAIN markers : markers[i].marker
    /\ commands \subseteq processed

\* The envelope a sender has open is that of the row it will write to.
Carries(a, g) == \/ hop[a].env.id = <<g>>
                 \/ hop[a].pc = "answered" /\ hop[a].result = "rejected"

\* The rows of a scan are stored and were suspected, or not, as they are now.
BatchOK ==
    \A i \in DOMAIN worker.batch :
        /\ rows[worker.batch[i].guid].status # "absent"
        /\ worker.batch[i].row.suspect = rows[worker.batch[i].guid].suspect

SendersOK ==
    /\ \A h \in Handlers :
          /\ req[h].pc # "idle" => req[h].guid \in Guids
          /\ req[h].pc = "forward" => Carries(h, req[h].guid) /\ rows[req[h].guid].status # "absent"
    /\ worker.pc # "idle" => worker.batch # <<>>
    /\ worker.pc = "wait" => Carries("worker", Head(worker.batch).guid)
    /\ BatchOK

\* Whatever left a trace in the ledger or the audit table is processed.
TracesOK ==
    /\ \A i \in DOMAIN anchors :
          /\ <<anchors[i]>> \in processed
          /\ rows[anchors[i]].status # "absent" /\ ~rows[anchors[i]].suspect
    /\ \A i \in DOMAIN marked : marked[i] \in processed

\* g went out, or is about to, without being suspected.
Unsuspected(g) ==
    \/ rows[g].status # "absent" /\ ~rows[g].suspect
    \/ \E h \in Handlers : req[h].pc = "insert" /\ req[h].guid = g /\ ~req[h].suspect

WindowOK ==
    /\ \A g \in Guids : Unsuspected(g) => Content[g] \in FreshIn(seen) \cup forgot
    /\ \A g, k \in Guids : g # k /\ Content[g] = Content[k] /\ Unsuspected(g) /\ Unsuspected(k)
                              => Content[g] \in forgot

EdgeIInv ==
    /\ IngestTypeOK /\ HookTypeOK
    /\ HopsOK /\ SendersOK /\ TracesOK /\ WindowOK
    /\ ExactlyOnce /\ ForwardedIsProcessed /\ OneLivePerHead

----------------------------------------------------------------------------

\* Constants of the types.
LEMMA IdleTyped ==
    /\ NoHop \in Hop /\ NoHop.pc = "none"
    /\ IdleReq \in Request /\ IdleReq.pc = "idle"
    /\ Absent \in Row /\ Absent.status = "absent"
    /\ IdleWorker \in [pc : {"idle", "send", "wait"}, batch : Seq(DueRow), tries : Nat]
<1>1. NoHop \in Hop /\ NoHop.pc = "none"
  BY DEF NoHop, Hop, Env, Ids
<1>2. IdleReq \in Request /\ IdleReq.pc = "idle"
  BY DEF IdleReq, Request
<1>3. Absent \in Row /\ Absent.status = "absent"
  BY DEF Absent, Row
<1>4. IdleWorker \in [pc : {"idle", "send", "wait"}, batch : Seq(DueRow), tries : Nat]
  BY DEF IdleWorker
<1> QED
  BY <1>1, <1>2, <1>3, <1>4

\* Handlers, worker and marker sender have a connection each.
LEMMA HopNames ==
    /\ \A h \in Handlers : h \in Senders /\ h # "worker" /\ h # "markers" /\ h # "stray"
    /\ Senders \subseteq Hops /\ "stray" \in Hops /\ "stray" \notin Senders
    /\ "worker" \in Senders /\ "markers" \in Senders
BY IngestConstants DEF Senders, Hops

\* Rows once stored stay, with their suspicion.
RowsGrow ==
    \A g \in Guids : rows[g].status # "absent" =>
        rows'[g].status # "absent" /\ rows'[g].suspect = rows[g].suspect

Forgetting == forgot' = forgot \cup (FreshIn(seen) \ FreshIn(seen'))

\* Rows that grow do not disturb a scan.
LEMMA BatchKept ==
    ASSUME IngestTypeOK, SendersOK, RowsGrow, UNCHANGED worker
    PROVE  BatchOK'
<1> SUFFICES ASSUME NEW i \in DOMAIN worker.batch
             PROVE  /\ rows'[worker.batch[i].guid].status # "absent"
                    /\ worker.batch[i].row.suspect = rows'[worker.batch[i].guid].suspect
  BY DEF BatchOK
<1>1. worker.batch[i].guid \in Guids
  <2>1. worker.batch \in Seq(DueRow)
    BY DEF IngestTypeOK
  <2>2. worker.batch[i] \in DueRow
    BY <2>1
  <2> QED
    BY <2>2 DEF DueRow
<1>2. rows[worker.batch[i].guid].status # "absent" /\ worker.batch[i].row.suspect = rows[worker.batch[i].guid].suspect
  BY DEF SendersOK, BatchOK
<1> QED
  BY <1>1, <1>2 DEF RowsGrow

\* The initial state.
LEMMA EdgeInitInv == EdgeInit => EdgeIInv
<1> SUFFICES ASSUME EdgeInit PROVE EdgeIInv
    OBVIOUS
<1> USE IdleTyped DEF EdgeInit, IngestInit, HookInit
<1>1. IngestTypeOK
  BY DEF IngestTypeOK
<1>2. HookTypeOK
  BY DEF HookTypeOK
<1>3. HopsOK
  BY DEF HopsOK
<1>4. SendersOK
  BY DEF SendersOK, IdleWorker, BatchOK
<1>5. TracesOK
  BY DEF TracesOK
<1>6. WindowOK
  BY DEF WindowOK, Unsuspected
<1>7. ExactlyOnce
  BY DEF ExactlyOnce, IsInjective
<1>8. ForwardedIsProcessed
  BY DEF ForwardedIsProcessed
<1>9. OneLivePerHead
  BY DEF OneLivePerHead
<1> QED
  BY <1>1, <1>2, <1>3, <1>4, <1>5, <1>6, <1>7, <1>8, <1>9 DEF EdgeIInv

\* Content leaves the window only to be counted as forgotten, so a step
\* that sends nothing new out unsuspected keeps WindowOK.
LEMMA WindowQuiet ==
    ASSUME WindowOK, Forgetting, \A g \in Guids : Unsuspected(g)' => Unsuspected(g)
    PROVE  WindowOK'
BY DEF WindowOK, Forgetting

\* A step of Ingest: what it has to show.
LEMMA IngestQuiet ==
    ASSUME EdgeIInv, UNCHANGED hookVars, Forgetting, RowsGrow,
           IngestTypeOK', HopsOK', SendersOK', ForwardedIsProcessed', WindowOK'
    PROVE  EdgeIInv'
<1>1. UNCHANGED <<processed, anchors, marked, candidates>>
  BY DEF hookVars, prVars
<1>2. HookTypeOK'
  BY <1>1 DEF EdgeIInv, HookTypeOK
<1>3. TracesOK'
  BY <1>1, SMTT(30) DEF EdgeIInv, TracesOK, RowsGrow, HookTypeOK
<1>4. ExactlyOnce'
  BY <1>1 DEF EdgeIInv, ExactlyOnce
<1>5. OneLivePerHead'
  BY <1>1 DEF EdgeIInv, OneLivePerHead
<1> QED
  BY <1>2, <1>3, <1>4, <1>5 DEF EdgeIInv

\* A request that moves on keeps its envelope.
LEMMA StepHop ==
    ASSUME hop \in [Hops -> Hop], NEW a \in Hops,
           NEW pc \in {"none", "arrived", "tx", "answered"},
           NEW result \in {"-", "accepted", "unavailable", "rejected"}
    PROVE  \E new \in Hop :
              /\ Step(a, pc, result) = [hop EXCEPT ![a] = new]
              /\ new.pc = pc /\ new.env = hop[a].env /\ new.result = result
<1> DEFINE new == [hop[a] EXCEPT !.pc = pc, !.result = result]
<1>1. hop[a] \in Hop
  OBVIOUS
<1>2. new \in Hop /\ new.pc = pc /\ new.env = hop[a].env /\ new.result = result
  BY <1>1 DEF Hop
<1>3. Step(a, pc, result) = [hop EXCEPT ![a] = new]
  BY DEF Step
<1> QED
  BY <1>2, <1>3

\* What a step on connections leaves of Ingest's part of the invariant.
IngestPart == IngestTypeOK /\ HopsOK /\ SendersOK /\ ForwardedIsProcessed /\ WindowOK

\* Steps of the control-plane's side: connections move, ids are processed.
LEMMA HopMoves ==
    ASSUME EdgeIInv, UNCHANGED <<rows, audited, seen, req, worker, markers>>, Forgetting,
           processed \subseteq processed', commands' \subseteq processed',
           hop' \in [Hops -> Hop],
           \A a \in Handlers \cup {"worker"} :
              /\ hop'[a].env = hop[a].env
              /\ hop[a].pc = "answered" => hop'[a] = hop[a],
           \A a \in Hops :
              /\ hop'[a].pc \in {"arrived", "tx"} =>
                    \E b \in Hops : hop[b].pc \in {"arrived", "tx"} /\ hop'[a].env = hop[b].env
              /\ hop'[a].pc = "answered" /\ hop'[a].result = "accepted" => hop'[a].env.id \in processed'
    PROVE  IngestPart'
<1>1. IngestTypeOK'
  BY DEF EdgeIInv, IngestTypeOK
<1>2. HopsOK'
  BY DEF EdgeIInv, HopsOK
<1>3. SendersOK'
  BY DEF EdgeIInv, SendersOK, Carries, BatchOK
<1>4. ForwardedIsProcessed'
  BY DEF EdgeIInv, ForwardedIsProcessed
<1>5. WindowOK'
  BY WindowQuiet DEF EdgeIInv, Unsuspected
<1> QED
  BY <1>1, <1>2, <1>3, <1>4, <1>5 DEF IngestPart

\* One of them moves.
LEMMA OneHopMoves ==
    ASSUME EdgeIInv, UNCHANGED <<rows, audited, seen, req, worker, markers>>, Forgetting,
           processed \subseteq processed', commands' \subseteq processed',
           NEW a \in Hops, hop[a].pc \in {"arrived", "tx"},
           NEW pc \in {"tx", "answered"}, NEW result \in {"-", "accepted", "unavailable", "rejected"},
           hop' = Step(a, pc, result),
           pc = "answered" /\ result = "accepted" => hop[a].env.id \in processed'
    PROVE  IngestPart'
<1>1. hop \in [Hops -> Hop] /\ \A b \in Hops : hop[b].pc = "answered" /\ hop[b].result = "accepted" => hop[b].env.id \in processed
  BY DEF EdgeIInv, IngestTypeOK, HopsOK
<1>2. PICK new \in Hop : /\ hop' = [hop EXCEPT ![a] = new]
                         /\ new.pc = pc /\ new.env = hop[a].env /\ new.result = result
  BY <1>1, StepHop
<1>3. hop' \in [Hops -> Hop] /\ hop'[a] = new /\ \A b \in Hops : b # a => hop'[b] = hop[b]
  BY <1>1, <1>2
<1>4. ASSUME NEW b \in Handlers \cup {"worker"}
      PROVE  hop'[b].env = hop[b].env /\ (hop[b].pc = "answered" => hop'[b] = hop[b])
  BY <1>2, <1>3, HopNames
<1>5. ASSUME NEW b \in Hops
      PROVE  /\ hop'[b].pc \in {"arrived", "tx"} =>
                    \E d \in Hops : hop[d].pc \in {"arrived", "tx"} /\ hop'[b].env = hop[d].env
             /\ hop'[b].pc = "answered" /\ hop'[b].result = "accepted" => hop'[b].env.id \in processed'
  <2>1. CASE b = a
    BY <2>1, <1>2, <1>3
  <2>2. CASE b # a
    BY <2>2, <1>1, <1>3
  <2> QED
    BY <2>1, <2>2
<1> QED
  BY <1>3, <1>4, <1>5, HopMoves

\* The rest of the invariant when the control-plane's tables do not change.
LEMMA HookQuiet ==
    ASSUME EdgeIInv, UNCHANGED hookVars, Forgetting, UNCHANGED rows, IngestPart'
    PROVE  EdgeIInv'
BY IngestQuiet DEF RowsGrow, IngestPart

\* Looking up the command, failing, timing out, a stray's end.
LEMMA ConnectionKeeps ==
    ASSUME EdgeIInv, Forgetting,
           \/ \E a \in Hops : LookupCommand(a) \/ HandlingFails(a) \/ Refused(a)
           \/ \E a \in Senders : ClientTimeout(a)
           \/ StrayEnds
    PROVE  EdgeIInv'
<1>a. SUFFICES IngestPart' /\ UNCHANGED <<hookVars, rows>>
  BY HookQuiet
<1>b. UNCHANGED hookVars => processed \subseteq processed' /\ commands' \subseteq processed' /\ processed' = processed
  BY DEF EdgeIInv, HopsOK, hookVars
<1>0. hop \in [Hops -> Hop] /\ \A a \in Hops : hop[a].pc = "answered" /\ hop[a].result = "accepted" => hop[a].env.id \in processed
  BY DEF EdgeIInv, IngestTypeOK, HopsOK
<1>1. ASSUME NEW a \in Hops, LookupCommand(a) PROVE IngestPart' /\ UNCHANGED <<hookVars, rows>>
  <2>1. UNCHANGED <<rows, audited, seen, req, worker, markers, hookVars>> /\ hop[a].pc = "arrived"
    BY <1>1 DEF LookupCommand, UnchangedBut, rowVars
  <2>2. CASE hop[a].env.id \in commands /\ hop' = Step(a, "answered", "accepted")
    <3>1. hop[a].env.id \in processed
      BY <2>2 DEF EdgeIInv, HopsOK
    <3> QED
      BY <2>1, <2>2, <3>1, <1>b, OneHopMoves
  <2>3. CASE hop' = Step(a, "tx", "-")
    BY <2>1, <2>3, <1>b, OneHopMoves
  <2> QED
    BY <1>1, <2>2, <2>3 DEF LookupCommand
<1>2. ASSUME NEW a \in Hops, HandlingFails(a) \/ Refused(a) PROVE IngestPart' /\ UNCHANGED <<hookVars, rows>>
  <2>1. /\ UNCHANGED <<rows, audited, seen, req, worker, markers, hookVars>> /\ hop[a].pc \in {"arrived", "tx"}
        /\ hop' = Step(a, "answered", "unavailable") \/ hop' = Step(a, "answered", "rejected")
    BY <1>2 DEF HandlingFails, Refused, UnchangedBut, rowVars
  <2> QED
    BY <2>1, <1>b, OneHopMoves
<1>3. ASSUME NEW a \in Senders, ClientTimeout(a) PROVE IngestPart' /\ UNCHANGED <<hookVars, rows>>
  <2>1. UNCHANGED <<rows, audited, seen, req, worker, markers, hookVars>> /\ hop[a].pc \in {"arrived", "tx"} /\ a \in Hops /\ a # "stray"
    BY <1>3, HopNames DEF ClientTimeout, UnchangedBut, rowVars
  <2>2. CASE hop' = Step(a, "answered", "unavailable")
    BY <2>1, <2>2, <1>b, OneHopMoves
  <2>3. CASE hop' = [Step(a, "answered", "unavailable") EXCEPT !["stray"] = hop[a]]
    <3>0. PICK new \in Hop : /\ Step(a, "answered", "unavailable") = [hop EXCEPT ![a] = new]
                             /\ new.pc = "answered" /\ new.env = hop[a].env /\ new.result = "unavailable"
      BY <1>0, <2>1, StepHop
    <3>1. /\ hop' \in [Hops -> Hop] /\ hop'["stray"] = hop[a] /\ hop'[a] = new
          /\ \A b \in Hops \ {a, "stray"} : hop'[b] = hop[b]
      BY <1>0, <2>1, <2>3, <3>0, HopNames
    <3>2. ASSUME NEW b \in Handlers \cup {"worker"}
          PROVE  hop'[b].env = hop[b].env /\ (hop[b].pc = "answered" => hop'[b] = hop[b])
      BY <2>1, <3>0, <3>1, HopNames
    <3>3. ASSUME NEW b \in Hops
          PROVE  /\ hop'[b].pc \in {"arrived", "tx"} =>
                        \E d \in Hops : hop[d].pc \in {"arrived", "tx"} /\ hop'[b].env = hop[d].env
                 /\ hop'[b].pc = "answered" /\ hop'[b].result = "accepted" => hop'[b].env.id \in processed
      BY <1>0, <2>1, <3>0, <3>1
    <3> QED
      BY <2>1, <3>1, <3>2, <3>3, <1>b, HopMoves
  <2> QED
    BY <1>3, <2>2, <2>3 DEF ClientTimeout
<1>4. ASSUME StrayEnds PROVE IngestPart' /\ UNCHANGED <<hookVars, rows>>
  <2>1. /\ UNCHANGED <<rows, audited, seen, req, worker, markers, hookVars>>
        /\ hop' = [hop EXCEPT !["stray"] = NoHop]
    BY <1>4 DEF StrayEnds, UnchangedBut, rowVars, Closed
  <2> QED
    BY <1>0, <2>1, <1>b, HopNames, IdleTyped, HopMoves
<1> QED
  BY <1>1, <1>2, <1>3, <1>4

\* Ending candidates keeps their heads and brings none back.
LEMMA EndedKeeps ==
    ASSUME candidates \in Seq(Candidate), NEW which, NEW state \in Gone
    PROVE  /\ Ended(which, state) \in Seq(Candidate) /\ Len(Ended(which, state)) = Len(candidates)
           /\ \A i \in 1..Len(candidates) :
                 /\ Ended(which, state)[i].head = candidates[i].head
                 /\ Ended(which, state)[i].state \notin Gone => candidates[i].state \notin Gone
<1>1. PICK n \in Nat : n = Len(candidates) /\ DOMAIN candidates = 1..n
  OBVIOUS
<1>2. ASSUME NEW i \in 1..n
      PROVE  /\ Ended(which, state)[i] \in Candidate /\ Ended(which, state)[i].head = candidates[i].head
             /\ Ended(which, state)[i].state \notin Gone => candidates[i].state \notin Gone
  <2>1. candidates[i] \in Candidate
    BY <1>1
  <2>2. Ended(which, state)[i] = IF i \in which /\ candidates[i].state = "live"
                                   THEN [candidates[i] EXCEPT !.state = state] ELSE candidates[i]
    BY <1>1 DEF Ended
  <2> QED
    BY <2>1, <2>2 DEF Candidate, CandidateStates
<1>3. Ended(which, state) \in [1..n -> Candidate]
  BY <1>1, <1>2 DEF Ended
<1> QED
  BY <1>1, <1>2, <1>3

\* What a transaction leaves of the candidates.
LEMMA EffectsKeep ==
    ASSUME HookTypeOK, OneLivePerHead, NEW c \in Contents, ApplyDeliveryEffects(c)
    PROVE  candidates' \in Seq(Candidate) /\ OneLivePerHead'
<1> DEFINE new == [head |-> c.head, base |-> c.base, state |-> "live"]
<1>0. candidates \in Seq(Candidate) /\ new \in Candidate /\ new.head = c.head
  BY DEF HookTypeOK, Candidate, CandidateStates
<1> HIDE DEF new
<1>1. \/ \E state \in Gone : \E which : candidates' = Ended(which, state)
      \/ UNCHANGED candidates
      \/ candidates' = Submitted(c)
      \/ ~Known(c.head) /\ candidates' = Append(Ended(DOMAIN candidates, "superseded"), new)
  <2>1. ApplyPROpened(c) \/ ApplyPRSynchronize(c) \/ ApplyPRClosed(c) \/ ApplyPushBaseAdvanced(c)
        \/ ApplyInstallationDeleted(c) \/ UNCHANGED prVars
    BY DEF ApplyDeliveryEffects
  <2> QED
    BY <2>1 DEF ApplyPROpened, ApplyPRSynchronize, ApplyPRClosed, ApplyPushBaseAdvanced,
                ApplyInstallationDeleted, prVars, Gone, new
<1>2. CASE \E state \in Gone : \E which : candidates' = Ended(which, state)
  <2>0. PICK state \in Gone : \E which : candidates' = Ended(which, state)
    BY <1>2
  <2>1. PICK which : candidates' = Ended(which, state)
    BY <2>0
  <2>2. /\ candidates' \in Seq(Candidate) /\ Len(candidates') = Len(candidates)
        /\ \A i \in 1..Len(candidates) :
              /\ candidates'[i].head = candidates[i].head
              /\ candidates'[i].state \notin Gone => candidates[i].state \notin Gone
    BY <2>1, <1>0, EndedKeeps
  <2> QED
    BY <2>2 DEF OneLivePerHead
<1>3. CASE UNCHANGED candidates
  BY <1>3, <1>0 DEF OneLivePerHead
<1>4. CASE candidates' = Submitted(c) /\ candidates' # candidates
  <2>1. candidates' = Append(candidates, new) /\ ~LiveHead(c.head)
    BY <1>4 DEF Submitted, new
  <2>2. PICK n \in Nat : n = Len(candidates)
    BY <1>0
  <2>3. /\ candidates' \in Seq(Candidate) /\ Len(candidates') = n + 1 /\ candidates'[n + 1] = new
        /\ \A i \in 1..n : candidates'[i] = candidates[i]
    BY <1>0, <2>1, <2>2
  <2>4. \A i \in 1..n : candidates[i].head = c.head => candidates[i].state \in Gone
    BY <2>1, <2>2 DEF LiveHead
  <2> QED
    BY <1>0, <2>2, <2>3, <2>4 DEF OneLivePerHead
<1>5. CASE ~Known(c.head) /\ candidates' = Append(Ended(DOMAIN candidates, "superseded"), new)
  <2> DEFINE ended == Ended(DOMAIN candidates, "superseded")
  <2>1. /\ ended \in Seq(Candidate) /\ Len(ended) = Len(candidates)
        /\ \A i \in 1..Len(candidates) :
              /\ ended[i].head = candidates[i].head
              /\ ended[i].state \notin Gone => candidates[i].state \notin Gone
    BY <1>0, EndedKeeps DEF Gone
  <2> HIDE DEF ended
  <2>2. PICK n \in Nat : n = Len(candidates) /\ n = Len(ended)
    BY <1>0, <2>1
  <2>3. /\ candidates' \in Seq(Candidate) /\ Len(candidates') = n + 1 /\ candidates'[n + 1] = new
        /\ \A i \in 1..n : candidates'[i] = ended[i]
    BY <1>0, <1>5, <2>1, <2>2 DEF ended
  <2>4. \A i \in 1..n : ended[i].head # c.head
    BY <1>5, <2>1, <2>2 DEF Known
  <2> QED
    BY <1>0, <2>1, <2>2, <2>3, <2>4, SMTT(30) DEF OneLivePerHead
<1> QED
  BY <1>1, <1>2, <1>3, <1>4, <1>5

\* The transaction: a new id leaves its one trace, a known one none.
LEMMA TxKeeps ==
    ASSUME EdgeIInv, Forgetting, NEW a \in Hops, ExecTx(a)
    PROVE  EdgeIInv'
<1> DEFINE env == hop[a].env
<1>0. /\ UNCHANGED <<rows, audited, seen, req, worker, markers>> /\ hop[a].pc = "tx"
      /\ hop' = Step(a, "answered", "accepted") /\ DeliveryTx(env, Content[env.guid])
  BY DEF ExecTx, UnchangedBut, rowVars
<1>1. CASE env.id \in processed
  <2>1. UNCHANGED hookVars
    BY <1>0, <1>1 DEF DeliveryTx, MarkProcessed
  <2>2. processed' = processed /\ commands' \subseteq processed'
    BY <2>1 DEF hookVars, EdgeIInv, HopsOK
  <2> QED
    BY <1>0, <1>1, <2>1, <2>2, OneHopMoves, HookQuiet
<1>2. CASE env.id \notin processed
  <2>1. /\ processed' = processed \cup {env.id} /\ commands' = commands \cup {env.id}
        /\ IF env.marker THEN ApplyQuarantineMarker(env)
           ELSE IF env.suspect THEN ApplyDuplicateSuspect(env)
           ELSE Accept(env, Content[env.guid])
    BY <1>0, <1>2 DEF DeliveryTx, MarkProcessed
  <2>2. IngestPart'
    <3>1. processed \subseteq processed' /\ commands' \subseteq processed' /\ env.id \in processed'
      BY <2>1 DEF EdgeIInv, HopsOK
    <3> QED
      BY <1>0, <3>1, OneHopMoves
  <2>3. /\ anchors \in Seq(Guids) /\ marked \in Seq(Ids) /\ candidates \in Seq(Candidate)
        /\ ExactlyOnce /\ OneLivePerHead /\ TracesOK /\ env \in Env
    BY DEF EdgeIInv, HookTypeOK, IngestTypeOK, Hop
  <2>4. CASE env.marker
    <3>1. marked' = Append(marked, env.id) /\ UNCHANGED <<anchors, candidates>>
      BY <2>1, <2>4 DEF ApplyQuarantineMarker, prVars
    <3>2. env.id \in Ids
      BY <2>3 DEF Env
    <3>3. PICK n \in Nat : n = Len(marked)
      BY <2>3
    <3>4. /\ marked' \in Seq(Ids) /\ DOMAIN marked' = 1..(n + 1) /\ marked'[n + 1] = env.id
          /\ DOMAIN marked = 1..n /\ \A i \in 1..n : marked'[i] = marked[i]
      BY <2>3, <3>1, <3>2, <3>3
    <3>5. HookTypeOK'
      BY <2>3, <3>1, <3>4 DEF HookTypeOK
    <3>6. TracesOK'
      <4>1. \A i \in 1..n : marked[i] \in processed
        BY <2>3, <3>4 DEF TracesOK
      <4> QED
        BY <1>0, <2>1, <2>3, <3>1, <3>4, <4>1 DEF TracesOK
    <3>7. ExactlyOnce'
      <4>1. \A i \in 1..n : marked'[i] # env.id
        BY <1>2, <2>3, <3>4 DEF TracesOK
      <4>2. IsInjective(marked')
        BY <2>3, <3>4, <4>1 DEF ExactlyOnce, IsInjective
      <4> QED
        BY <2>3, <3>1, <4>2 DEF ExactlyOnce
    <3>8. OneLivePerHead'
      BY <2>3, <3>1 DEF OneLivePerHead
    <3> QED
      BY <2>2, <3>5, <3>6, <3>7, <3>8 DEF EdgeIInv, IngestPart
  <2>5. CASE ~env.marker /\ env.suspect
    <3>1. UNCHANGED <<anchors, marked, candidates>>
      BY <2>1, <2>5 DEF ApplyDuplicateSuspect, prVars
    <3>2. TracesOK'
      BY <1>0, <2>1, <2>3, <3>1 DEF TracesOK
    <3>3. HookTypeOK' /\ ExactlyOnce' /\ OneLivePerHead'
      BY <2>3, <3>1 DEF HookTypeOK, ExactlyOnce, OneLivePerHead
    <3> QED
      BY <2>2, <3>2, <3>3 DEF EdgeIInv, IngestPart
  <2>6. CASE ~env.marker /\ ~env.suspect
    <3>1. anchors' = Append(anchors, env.guid) /\ ApplyDeliveryEffects(Content[env.guid]) /\ UNCHANGED marked
      BY <2>1, <2>6 DEF Accept
    <3>2. PICK g \in Guids : g = env.guid /\ env.id = <<g>> /\ rows[g].status # "absent" /\ ~rows[g].suspect
      BY <1>0, <2>6 DEF EdgeIInv, HopsOK
    <3>3. PICK n \in Nat : n = Len(anchors)
      BY <2>3
    <3>4. /\ anchors' \in Seq(Guids) /\ DOMAIN anchors' = 1..(n + 1) /\ anchors'[n + 1] = g
          /\ DOMAIN anchors = 1..n /\ \A i \in 1..n : anchors'[i] = anchors[i]
      BY <2>3, <3>1, <3>2, <3>3
    <3>5. candidates' \in Seq(Candidate) /\ OneLivePerHead'
      BY <3>1, <3>2, EffectsKeep DEF EdgeIInv, Contents
    <3>6. HookTypeOK'
      BY <2>3, <3>1, <3>4, <3>5 DEF HookTypeOK
    <3>7. TracesOK'
      <4>1. \A i \in 1..n : <<anchors[i]>> \in processed /\ rows[anchors[i]].status # "absent" /\ ~rows[anchors[i]].suspect
        BY <2>3, <3>4 DEF TracesOK
      <4>2. \A i \in 1..(n + 1) : i \in 1..n \/ i = n + 1
        OBVIOUS
      <4>3. <<g>> \in processed'
        BY <2>1, <3>2
      <4>4. \A i \in DOMAIN marked' : marked'[i] \in processed'
        BY <2>1, <2>3, <3>1 DEF TracesOK
      <4> QED
        BY <1>0, <2>1, <3>2, <3>4, <4>1, <4>2, <4>3, <4>4 DEF TracesOK
    <3>8. ExactlyOnce'
      <4>1. \A i \in 1..n : anchors'[i] # g
        BY <1>2, <2>3, <3>2, <3>4, SMTT(30) DEF TracesOK
      <4>2. IsInjective(anchors')
        BY <2>3, <3>4, <4>1 DEF ExactlyOnce, IsInjective
      <4> QED
        BY <2>3, <3>1, <4>2 DEF ExactlyOnce
    <3> QED
      BY <2>2, <3>5, <3>6, <3>7, <3>8 DEF EdgeIInv, IngestPart
  <2> QED
    BY <2>4, <2>5, <2>6
<1> QED
  BY <1>1, <1>2

----------------------------------------------------------------------------

Entry == [class : Contents, fresh : BOOLEAN]

\* The window after a request: a bounded sequence that begins with its class.
LEMMA SeenOrAddKeeps ==
    ASSUME seen \in Seq(Entry), NEW g \in Guids
    PROVE  SeenOrAdd(g) \in Seq(Entry) /\ Content[g] \in FreshIn(SeenOrAdd(g))
<1> DEFINE at == {i \in 1..Len(seen) : seen[i].class = Content[g]}
           others == IF at = {} THEN seen ELSE RemoveAt(seen, CHOOSE i \in at : TRUE)
           new == [class |-> Content[g], fresh |-> TRUE]
           all == <<new>> \o others
           m == IF Len(all) > SeenMax THEN SeenMax ELSE Len(all)
<1>1. others \in Seq(Entry)
  <2>1. CASE at = {}
    BY <2>1
  <2>2. CASE at # {}
    <3>1. PICK i \in 1..Len(seen) : i = CHOOSE j \in at : TRUE
      BY <2>2
    <3>2. SubSeq(seen, 1, i - 1) \in Seq(Entry) /\ SubSeq(seen, i + 1, Len(seen)) \in Seq(Entry)
      OBVIOUS
    <3> QED
      BY <2>2, <3>1, <3>2 DEF RemoveAt
  <2> QED
    BY <2>1, <2>2
<1> HIDE DEF others
<1>2. new \in Entry /\ new.class = Content[g] /\ new.fresh
  BY DEF Entry, Contents
<1> HIDE DEF new
<1>3. all \in Seq(Entry) /\ Len(all) >= 1 /\ all[1] = new
  BY <1>1, <1>2
<1> HIDE DEF all
<1>4. m \in 1..Len(all)
  <2>1. SeenMax \in Nat \ {0}
    BY IngestConstants
  <2> QED
    BY <1>3, <2>1
<1> HIDE DEF m
<1>5. SubSeq(all, 1, m) \in Seq(Entry) /\ Len(SubSeq(all, 1, m)) = m /\ SubSeq(all, 1, m)[1] = new
  BY <1>3, <1>4
<1>6. SeenOrAdd(g) = SubSeq(all, 1, m)
  BY DEF SeenOrAdd, m, all, new, others
<1>7. 1 \in 1..Len(SeenOrAdd(g)) /\ SeenOrAdd(g)[1] = new
  BY <1>4, <1>5, <1>6
<1> QED
  BY <1>2, <1>5, <1>6, <1>7 DEF FreshIn

\* A request comes in: content that is not in the window now is forgotten
\* or new, and is in the window afterwards.
LEMMA PostKeeps ==
    ASSUME EdgeIInv, UNCHANGED hookVars, Forgetting, NEW h \in Handlers, NEW g \in Guids, ServeHTTP(h, g)
    PROVE  EdgeIInv'
<1>0. UNCHANGED <<rows, audited, worker, markers, hop, processed, commands>>
  BY DEF ServeHTTP, rowVars, hookVars
<1>1. CASE UNCHANGED <<inflight, seen, req>>
  <2>1. IngestPart'
    <3>1. IngestTypeOK'
      BY <1>0, <1>1 DEF EdgeIInv, IngestTypeOK
    <3>2. HopsOK' /\ SendersOK' /\ ForwardedIsProcessed'
      BY <1>0, <1>1 DEF EdgeIInv, HopsOK, SendersOK, Carries, BatchOK, ForwardedIsProcessed
    <3>3. WindowOK'
      BY <1>0, <1>1, WindowQuiet DEF EdgeIInv, Unsuspected
    <3> QED
      BY <3>1, <3>2, <3>3 DEF IngestPart
  <2> QED
    BY <1>0, <2>1, HookQuiet
<1>2. CASE /\ seen' = SeenOrAdd(g) /\ req[h].pc = "idle"
           /\ req' = [req EXCEPT ![h] = [pc |-> "insert", guid |-> g, suspect |-> Hit(g)]]
  <2> DEFINE new == [pc |-> "insert", guid |-> g, suspect |-> Hit(g)]
  <2>0. seen \in Seq(Entry)
    BY DEF EdgeIInv, IngestTypeOK, Entry
  <2>1. new \in Request /\ new.pc = "insert" /\ new.guid = g /\ (new.suspect <=> Hit(g))
    <3>1. Hit(g) \in BOOLEAN
      BY DEF Hit
    <3> HIDE DEF Hit
    <3> QED
      BY <3>1 DEF Request
  <2> HIDE DEF new
  <2>2. req' = [req EXCEPT ![h] = new]
    BY <1>2 DEF new
  <2>3. IngestTypeOK'
    <3>1. req' \in [Handlers -> Request]
      BY <2>1, <2>2 DEF EdgeIInv, IngestTypeOK
    <3>2. seen' \in Seq([class : Contents, fresh : BOOLEAN])
      BY <1>2, <2>0, SeenOrAddKeeps DEF Entry
    <3> QED
      BY <1>0, <3>1, <3>2 DEF EdgeIInv, IngestTypeOK
  <2>4. HopsOK' /\ ForwardedIsProcessed'
    BY <1>0 DEF EdgeIInv, HopsOK, ForwardedIsProcessed
  <2>5. SendersOK'
    BY <1>0, <2>1, <2>2 DEF EdgeIInv, SendersOK, Carries, BatchOK, IngestTypeOK
  <2>6. Hit(g) <=> Content[g] \in FreshIn(seen)
    BY DEF Hit, FreshIn
  <2>7. ASSUME NEW k \in Guids, Unsuspected(k)'
        PROVE  Unsuspected(k) \/ (k = g /\ Content[g] \notin FreshIn(seen))
    BY <1>0, <2>1, <2>2, <2>6, <2>7 DEF Unsuspected, EdgeIInv, IngestTypeOK
  <2>8. WindowOK'
    <3>1. Content[g] \in FreshIn(seen')
      BY <1>2, <2>0, SeenOrAddKeeps
    <3>2. ASSUME NEW k \in Guids, Unsuspected(k)' PROVE Content[k] \in FreshIn(seen') \cup forgot'
      <4>1. CASE k = g
        BY <3>1, <4>1
      <4>2. CASE Unsuspected(k)
        BY <4>2 DEF EdgeIInv, WindowOK, Forgetting
      <4> QED
        BY <2>7, <3>2, <4>1, <4>2
    <3>3. ASSUME NEW j \in Guids, NEW k \in Guids, j # k, Content[j] = Content[k], Unsuspected(j)', Unsuspected(k)'
          PROVE  Content[j] \in forgot'
      <4>1. CASE Unsuspected(j) /\ Unsuspected(k)
        BY <3>3, <4>1 DEF EdgeIInv, WindowOK, Forgetting
      <4>2. CASE j = g /\ Content[g] \notin FreshIn(seen) /\ Unsuspected(k)
        BY <3>3, <4>2 DEF EdgeIInv, WindowOK, Forgetting
      <4>3. CASE k = g /\ Content[g] \notin FreshIn(seen) /\ Unsuspected(j)
        BY <3>3, <4>3 DEF EdgeIInv, WindowOK, Forgetting
      <4> QED
        BY <2>7, <3>3, <4>1, <4>2, <4>3
    <3> QED
      BY <3>2, <3>3 DEF WindowOK
  <2> QED
    BY <1>0, <2>3, <2>4, <2>5, <2>8, HookQuiet DEF IngestPart
<1> QED
  BY <1>1, <1>2 DEF ServeHTTP

\* Closing the connection of a sender.
LEMMA CloseHop ==
    ASSUME EdgeIInv, NEW a \in Hops, hop' = Closed(a)
    PROVE  /\ hop' \in [Hops -> Hop] /\ hop'[a].pc = "none"
           /\ \A b \in Hops : b # a => hop'[b] = hop[b]
BY IdleTyped DEF Closed, EdgeIInv, IngestTypeOK

\* The request's handler ends and stores nothing.
LEMMA ReleaseKeeps ==
    ASSUME EdgeIInv, UNCHANGED hookVars, Forgetting, NEW h \in Handlers, Release(h),
           UNCHANGED <<rows, audited, seen, worker, markers, hop>>
    PROVE  EdgeIInv'
<1>1. req' = [req EXCEPT ![h] = IdleReq] /\ req' \in [Handlers -> Request]
  BY IdleTyped DEF Release, EdgeIInv, IngestTypeOK
<1>2. UNCHANGED <<processed, commands>>
  BY DEF hookVars
<1>3. IngestTypeOK'
  BY <1>1 DEF EdgeIInv, IngestTypeOK
<1>4. HopsOK' /\ ForwardedIsProcessed'
  BY <1>2 DEF EdgeIInv, HopsOK, ForwardedIsProcessed
<1>5. \A k \in Handlers : req'[k].pc = "idle" \/ req'[k] = req[k]
  BY <1>1, IdleTyped DEF EdgeIInv, IngestTypeOK
<1>6. SendersOK'
  BY <1>5 DEF EdgeIInv, SendersOK, Carries, BatchOK
<1>7. WindowOK'
  <2>1. \A g \in Guids : Unsuspected(g)' => Unsuspected(g)
    BY <1>5 DEF Unsuspected
  <2> QED
    BY <2>1, WindowQuiet DEF EdgeIInv
<1> QED
  BY <1>3, <1>4, <1>6, <1>7, HookQuiet DEF IngestPart

\* A row is stored and its envelope opened.
LEMMA StoreKeeps ==
    ASSUME EdgeIInv, UNCHANGED hookVars, Forgetting, NEW h \in Handlers, InsertDelivery(h),
           rows[req[h].guid].status = "absent"
    PROVE  EdgeIInv'
<1>0. PICK g \in Guids : g = req[h].guid /\ req[h].pc = "insert" /\ rows[g].status = "absent"
  BY DEF InsertDelivery, EdgeIInv, SendersOK
<1> DEFINE suspect == req[h].suspect
           row == [Absent EXCEPT !.status = IF suspect THEN "duplicate_suspect" ELSE "pending", !.suspect = suspect,
                                 !.nr = 1 + Cardinality({x \in Guids : rows[x].status # "absent"})]
           opened == Opened(Envelope(g, suspect))
           refused == [NoHop EXCEPT !.pc = "answered", !.result = "rejected"]
<1>1. /\ rows' = [rows EXCEPT ![g] = row] /\ req' = [req EXCEPT ![h].pc = "forward"]
      /\ hop' = IF g \in Unredactable THEN [hop EXCEPT ![h] = refused] ELSE [hop EXCEPT ![h] = opened]
      /\ UNCHANGED <<audited, seen, worker, markers, processed, commands>>
  BY <1>0 DEF InsertDelivery, hookVars
<1>2. suspect \in BOOLEAN
  BY DEF EdgeIInv, IngestTypeOK, Request
<1>3. row \in Row /\ row.status \in {"duplicate_suspect", "pending"} /\ row.suspect = suspect
  <2>1. {x \in Guids : rows[x].status # "absent"} \in SUBSET Guids
    OBVIOUS
  <2> QED
    BY <1>2, <2>1, IdleTyped DEF Row
<1>4. opened \in Hop /\ opened.pc = "arrived" /\ opened.env.id = <<g>> /\ opened.env.guid = g /\ opened.env.suspect = suspect
  <2> DEFINE env == Envelope(g, suspect)
  <2>1. env \in Env /\ env.id = <<g>> /\ env.guid = g /\ env.suspect = suspect
    BY <1>2 DEF Envelope, Env, Ids
  <2> HIDE DEF env
  <2>2. [pc |-> "arrived", env |-> env, result |-> "-"] \in Hop
    BY <2>1 DEF Hop
  <2> QED
    BY <2>1, <2>2 DEF Opened, env
<1>5. refused \in Hop /\ refused.pc = "answered" /\ refused.result = "rejected"
  BY IdleTyped DEF Hop
<1> HIDE DEF suspect, row, opened, refused
<1>6. PICK new \in Hop : /\ hop' = [hop EXCEPT ![h] = new]
                         /\ new = opened \/ new = refused
  BY <1>1, <1>4, <1>5
<1>7. h \in Hops /\ h # "worker"
  BY HopNames
<1>8. hop' \in [Hops -> Hop] /\ hop'[h] = new /\ \A b \in Hops : b # h => hop'[b] = hop[b]
  BY <1>6, <1>7 DEF EdgeIInv, IngestTypeOK
<1>9. /\ rows' \in [Guids -> Row] /\ rows'[g] = row /\ \A k \in Guids : k # g => rows'[k] = rows[k]
      /\ req' \in [Handlers -> Request] /\ req'[h].pc = "forward" /\ req'[h].guid = g
      /\ \A k \in Handlers : k # h => req'[k] = req[k]
  BY <1>0, <1>1, <1>3 DEF EdgeIInv, IngestTypeOK, Request
<1>10. RowsGrow
  BY <1>0, <1>9 DEF RowsGrow
<1>11. IngestTypeOK'
  BY <1>1, <1>8, <1>9 DEF EdgeIInv, IngestTypeOK
<1>12. HopsOK'
  <2> SUFFICES ASSUME NEW a \in Hops
               PROVE  /\ hop'[a].pc \in {"arrived", "tx"} /\ ~hop'[a].env.marker =>
                            /\ hop'[a].env.guid \in Guids /\ hop'[a].env.id = <<hop'[a].env.guid>>
                            /\ rows'[hop'[a].env.guid].status # "absent"
                            /\ hop'[a].env.suspect = rows'[hop'[a].env.guid].suspect
                      /\ hop'[a].pc = "answered" /\ hop'[a].result = "accepted" => hop'[a].env.id \in processed'
    BY <1>1 DEF EdgeIInv, HopsOK
  <2>1. CASE a = h
    BY <2>1, <1>3, <1>4, <1>5, <1>6, <1>8, <1>9
  <2>2. CASE a # h
    BY <2>2, <1>1, <1>8, <1>10 DEF EdgeIInv, HopsOK, RowsGrow
  <2> QED
    BY <2>1, <2>2
<1>13. SendersOK'
  <2>1. Carries(h, g)'
    BY <1>4, <1>5, <1>6, <1>8 DEF Carries
  <2>2. ASSUME NEW k \in Handlers
        PROVE  /\ req'[k].pc # "idle" => req'[k].guid \in Guids
               /\ req'[k].pc = "forward" => Carries(k, req[k].guid)' /\ rows'[req'[k].guid].status # "absent"
    <3>1. CASE k = h
      BY <3>1, <2>1, <1>3, <1>9 DEF Carries
    <3>2. CASE k # h
      <4>1. hop'[k] = hop[k] /\ req'[k] = req[k]
        BY <3>2, <1>8, <1>9, HopNames
      <4>2. /\ req[k].pc # "idle" => req[k].guid \in Guids
            /\ req[k].pc = "forward" => Carries(k, req[k].guid) /\ rows[req[k].guid].status # "absent"
        BY DEF EdgeIInv, SendersOK
      <4> QED
        BY <4>1, <4>2, <1>10 DEF Carries, RowsGrow
    <3> QED
      BY <3>1, <3>2
  <2>3. hop'["worker"] = hop["worker"] /\ UNCHANGED worker
    BY <1>1, <1>7, <1>8, HopNames
  <2>4. BatchOK'
    BY <1>10, <2>3, BatchKept DEF EdgeIInv
  <2> QED
    BY <2>2, <2>3, <2>4 DEF EdgeIInv, SendersOK, Carries
<1>14. ForwardedIsProcessed'
  BY <1>1, <1>3, <1>9 DEF EdgeIInv, ForwardedIsProcessed
<1>15. WindowOK'
  <2>1. ASSUME NEW k \in Guids, Unsuspected(k)' PROVE Unsuspected(k)
    <3>1. CASE rows'[k].status # "absent" /\ ~rows'[k].suspect
      BY <3>1, <1>0, <1>3, <1>9 DEF Unsuspected, suspect
    <3>2. CASE \E j \in Handlers : req'[j].pc = "insert" /\ req'[j].guid = k /\ ~req'[j].suspect
      BY <3>2, <1>9 DEF Unsuspected
    <3> QED
      BY <2>1, <3>1, <3>2 DEF Unsuspected
  <2> QED
    BY <2>1, WindowQuiet DEF EdgeIInv
<1> QED
  BY <1>10, <1>11, <1>12, <1>13, <1>14, <1>15, IngestQuiet

\* The outcome of a forward is written to the row its envelope carried, or
\* the UPDATE fails.
Written(g, status, attempts) ==
    UpdateForwardState(g, status, attempts) \/ UNCHANGED rows

\* The UPDATE of a delivery keeps the invariant: forwarded is written only
\* after the control-plane processed it.
LEMMA WriteKeeps ==
    ASSUME EdgeIInv, UNCHANGED processed, NEW g \in Guids, NEW status, NEW attempts \in Nat,
           status \in {"pending", "forwarded", "forward_failed"},
           Written(g, status, attempts), rows[g].status # "absent",
           status = "forwarded" => <<g>> \in processed
    PROVE  /\ rows' \in [Guids -> Row] /\ RowsGrow /\ ForwardedIsProcessed'
           /\ \A k \in Guids : (rows'[k].status = "absent") <=> (rows[k].status = "absent")
           /\ \A k \in Guids : rows'[k].suspect = rows[k].suspect
<1>0. rows \in [Guids -> Row]
  BY DEF EdgeIInv, IngestTypeOK
<1>1. CASE UNCHANGED rows
  BY <1>0, <1>1 DEF RowsGrow, EdgeIInv, ForwardedIsProcessed
<1>2. CASE UpdateForwardState(g, status, attempts)
  <2> DEFINE new == [rows[g] EXCEPT !.status = status, !.attempts = attempts, !.due = FALSE]
  <2>1. rows' = [rows EXCEPT ![g] = new]
    BY <1>0, <1>2 DEF UpdateForwardState
  <2>2. new \in Row /\ new.status = status /\ new.suspect = rows[g].suspect
    BY <1>0 DEF Row
  <2> HIDE DEF new
  <2>3. rows' \in [Guids -> Row] /\ rows'[g] = new /\ \A k \in Guids : k # g => rows'[k] = rows[k]
    BY <1>0, <2>1, <2>2
  <2>4. ForwardedIsProcessed'
    BY <2>2, <2>3 DEF EdgeIInv, ForwardedIsProcessed
  <2> QED
    BY <2>2, <2>3, <2>4 DEF RowsGrow
<1> QED
  BY <1>1, <1>2 DEF Written

\* An answer's status in the row.
LEMMA StatusAfterAnswer ==
    ASSUME NEW result
    PROVE  /\ StatusAfter(result) \in {"pending", "forwarded", "forward_failed"}
           /\ StatusAfter(result) = "forwarded" => result = "accepted"
BY DEF StatusAfter

\* What an answer says about the row it is for.
LEMMA AnswerMeans ==
    ASSUME EdgeIInv, NEW a \in Hops, NEW g \in Guids, Carries(a, g), Answered(a), hop[a].result = "accepted"
    PROVE  <<g>> \in processed
BY DEF EdgeIInv, HopsOK, Carries, Answered

\* A sender's connection is closed; rows keep what requests rely on.
LEMMA ClosedHops ==
    ASSUME EdgeIInv, NEW a \in Hops, hop' = Closed(a), RowsGrow, UNCHANGED <<markers, processed, commands>>
    PROVE  HopsOK'
<1>1. hop'[a].pc = "none" /\ \A b \in Hops : b # a => hop'[b] = hop[b]
  BY CloseHop
<1>2. ASSUME NEW b \in Hops
      PROVE  /\ hop'[b].pc \in {"arrived", "tx"} /\ ~hop'[b].env.marker =>
                   /\ hop'[b].env.guid \in Guids /\ hop'[b].env.id = <<hop'[b].env.guid>>
                   /\ rows'[hop'[b].env.guid].status # "absent"
                   /\ hop'[b].env.suspect = rows'[hop'[b].env.guid].suspect
             /\ hop'[b].pc = "answered" /\ hop'[b].result = "accepted" => hop'[b].env.id \in processed'
  <2>1. CASE b = a
    BY <1>1, <2>1
  <2>2. CASE b # a
    BY <1>1, <2>2 DEF EdgeIInv, HopsOK, RowsGrow
  <2> QED
    BY <2>1, <2>2
<1> QED
  BY <1>2 DEF EdgeIInv, HopsOK

\* recordOutcome and the reply.
LEMMA RecordKeeps ==
    ASSUME EdgeIInv, UNCHANGED hookVars, Forgetting, NEW h \in Handlers, RecordOutcome(h)
    PROVE  EdgeIInv'
<1> DEFINE res == hop[h].result
<1>0. PICK g \in Guids : g = req[h].guid /\ Carries(h, g) /\ Answered(h) /\ rows[g].status # "absent"
  BY DEF RecordOutcome, EdgeIInv, SendersOK
<1>1. /\ Written(g, StatusAfter(res), IF res = "accepted" THEN 0 ELSE 1)
      /\ req' = [req EXCEPT ![h] = IdleReq] /\ hop' = Closed(h)
      /\ UNCHANGED <<audited, seen, worker, markers, processed, commands>>
  BY <1>0 DEF RecordOutcome, Written, Release, hookVars
<1>2. h \in Hops /\ h # "worker" /\ "worker" \in Hops /\ Handlers \subseteq Hops
  BY HopNames
<1>3. StatusAfter(res) = "forwarded" => <<g>> \in processed
  BY <1>0, <1>2, AnswerMeans, StatusAfterAnswer
<1>4. /\ rows' \in [Guids -> Row] /\ RowsGrow /\ ForwardedIsProcessed'
      /\ \A k \in Guids : (rows'[k].status = "absent") <=> (rows[k].status = "absent")
      /\ \A k \in Guids : rows'[k].suspect = rows[k].suspect
  <2>1. StatusAfter(res) \in {"pending", "forwarded", "forward_failed"}
    BY StatusAfterAnswer
  <2>2. (IF res = "accepted" THEN 0 ELSE 1) \in Nat
    OBVIOUS
  <2> HIDE DEF res
  <2> QED
    BY <1>0, <1>1, <1>3, <2>1, <2>2, WriteKeeps
<1>5. /\ hop' \in [Hops -> Hop] /\ \A b \in Hops : b # h => hop'[b] = hop[b]
  BY <1>1, <1>2, CloseHop
<1>6. req' \in [Handlers -> Request] /\ req'[h].pc = "idle" /\ \A k \in Handlers : k # h => req'[k] = req[k]
  BY <1>1, IdleTyped DEF EdgeIInv, IngestTypeOK
<1>7. IngestTypeOK'
  BY <1>1, <1>4, <1>5, <1>6 DEF EdgeIInv, IngestTypeOK
<1>8. HopsOK'
  BY <1>1, <1>2, <1>4, ClosedHops
<1>9. SendersOK'
  <2>1. BatchOK'
    BY <1>1, <1>4, BatchKept DEF EdgeIInv
  <2>2. ASSUME NEW k \in Handlers
        PROVE  /\ req'[k].pc # "idle" => req'[k].guid \in Guids
               /\ req'[k].pc = "forward" => Carries(k, req[k].guid)' /\ rows'[req'[k].guid].status # "absent"
    BY <1>2, <1>4, <1>5, <1>6 DEF EdgeIInv, SendersOK, Carries
  <2>3. hop'["worker"] = hop["worker"]
    BY <1>2, <1>5
  <2> QED
    BY <1>1, <2>1, <2>2, <2>3 DEF EdgeIInv, SendersOK, Carries
<1>10. WindowOK'
  BY <1>4, <1>6, WindowQuiet DEF EdgeIInv, Unsuspected
<1> QED
  BY <1>4, <1>7, <1>8, <1>9, <1>10, IngestQuiet

\* A scan's batch: rows that are due, as they are.
LEMMA ScanTyped ==
    ASSUME rows \in [Guids -> Row], NEW batch \in DueDeliveries
    PROVE  /\ batch \in Seq(DueRow)
           /\ \A i \in DOMAIN batch : batch[i].guid \in Guids /\ Due(batch[i].guid) /\ batch[i].row = rows[batch[i].guid]
<1> DEFINE D == {x \in Guids : Due(x)}
           f == [g \in D |-> [guid |-> g, row |-> rows[g]]]
           S == {[guid |-> g, row |-> rows[g]] : g \in D}
<1>1. IsFiniteSet(D)
  BY IngestConstants, FS_Subset
<1>2. f \in Surjection(D, S)
  BY DEF Surjection
<1>3. Cardinality(S) \in Nat
  BY <1>1, <1>2, FS_Surjection, FS_CardinalityType
<1>4. S \subseteq DueRow /\ \A d \in S : d.guid \in Guids /\ Due(d.guid) /\ d.row = rows[d.guid]
  BY DEF DueRow
<1>5. batch \in SetToSeqs(S)
  BY DEF DueDeliveries
<1> HIDE DEF S
<1>6. batch \in [1..Cardinality(S) -> S]
  BY <1>5 DEF SetToSeqs
<1> QED
  BY <1>3, <1>4, <1>6

\* The worker reads the due rows.
LEMMA ScanKeeps ==
    ASSUME EdgeIInv, UNCHANGED hookVars, Forgetting, ScanOnce
    PROVE  EdgeIInv'
<1>1. PICK batch \in DueDeliveries :
         batch # <<>> /\ worker' = [pc |-> "send", batch |-> batch, tries |-> 0]
  BY DEF ScanOnce
<1>2. UNCHANGED <<rows, audited, seen, req, markers, hop, processed, commands>>
  BY DEF ScanOnce, rowVars, hookVars
<1>3. /\ batch \in Seq(DueRow)
      /\ \A i \in DOMAIN batch : batch[i].guid \in Guids /\ Due(batch[i].guid) /\ batch[i].row = rows[batch[i].guid]
  BY ScanTyped DEF EdgeIInv, IngestTypeOK
<1>4. worker'.pc = "send" /\ worker'.batch = batch /\ worker' \in [pc : {"idle", "send", "wait"}, batch : Seq(DueRow), tries : Nat]
  BY <1>1, <1>3
<1>5. IngestTypeOK'
  BY <1>2, <1>4 DEF EdgeIInv, IngestTypeOK
<1>6. HopsOK' /\ ForwardedIsProcessed'
  BY <1>2 DEF EdgeIInv, HopsOK, ForwardedIsProcessed
<1>7. BatchOK'
  BY <1>2, <1>3, <1>4 DEF BatchOK, Due
<1>8. SendersOK'
  BY <1>1, <1>2, <1>4, <1>7 DEF EdgeIInv, SendersOK, Carries
<1>9. WindowOK'
  BY <1>2, WindowQuiet DEF EdgeIInv, Unsuspected
<1> QED
  BY <1>2, <1>5, <1>6, <1>8, <1>9, HookQuiet DEF IngestPart

\* The row the worker has in hand.
LEMMA WorkerHead ==
    ASSUME EdgeIInv, worker.pc # "idle"
    PROVE  LET d == Head(worker.batch) IN
           /\ d \in DueRow /\ d.guid \in Guids /\ d.row \in Row /\ Tail(worker.batch) \in Seq(DueRow)
           /\ rows[d.guid].status # "absent" /\ d.row.suspect = rows[d.guid].suspect
           /\ \A i \in DOMAIN Tail(worker.batch) : i + 1 \in DOMAIN worker.batch /\ Tail(worker.batch)[i] = worker.batch[i + 1]
<1>1. worker.batch \in Seq(DueRow) /\ worker.batch # <<>>
  BY DEF EdgeIInv, IngestTypeOK, SendersOK
<1>2. Head(worker.batch) = worker.batch[1] /\ 1 \in DOMAIN worker.batch /\ worker.batch[1] \in DueRow
  BY <1>1
<1>3. rows[worker.batch[1].guid].status # "absent" /\ worker.batch[1].row.suspect = rows[worker.batch[1].guid].suspect
  BY <1>2 DEF EdgeIInv, SendersOK, BatchOK
<1>4. /\ Tail(worker.batch) \in Seq(DueRow)
      /\ \A i \in DOMAIN Tail(worker.batch) : i + 1 \in DOMAIN worker.batch /\ Tail(worker.batch)[i] = worker.batch[i + 1]
  BY <1>1
<1> QED
  BY <1>2, <1>3, <1>4 DEF DueRow

\* The worker forwards a row.
LEMMA WorkerSendKeeps ==
    ASSUME EdgeIInv, UNCHANGED hookVars, Forgetting, WorkerSend
    PROVE  EdgeIInv'
<1>0. PICK g \in Guids, suspect \in BOOLEAN :
         /\ g = Head(worker.batch).guid /\ suspect = Head(worker.batch).row.suspect
         /\ rows[g].status # "absent" /\ suspect = rows[g].suspect
  <2>1. worker.pc # "idle"
    BY DEF WorkerSend
  <2> QED
    BY <2>1, WorkerHead DEF Row
<1> DEFINE opened == Opened(Envelope(g, suspect))
           refused == [NoHop EXCEPT !.pc = "answered", !.result = "rejected"]
<1>1. /\ worker' = [worker EXCEPT !.pc = "wait", !.tries = @ + 1] /\ worker.pc = "send"
      /\ hop' = IF g \in Unredactable THEN [hop EXCEPT !["worker"] = refused] ELSE [hop EXCEPT !["worker"] = opened]
      /\ UNCHANGED <<rows, audited, seen, req, markers, processed, commands>>
  BY <1>0 DEF WorkerSend, rowVars, hookVars
<1>2. /\ worker' \in [pc : {"idle", "send", "wait"}, batch : Seq(DueRow), tries : Nat]
      /\ worker'.pc = "wait" /\ worker'.batch = worker.batch
  <2>1. worker \in [pc : {"idle", "send", "wait"}, batch : Seq(DueRow), tries : Nat]
    BY DEF EdgeIInv, IngestTypeOK
  <2>2. worker.tries + 1 \in Nat
    BY <2>1
  <2> QED
    BY <1>1, <2>1, <2>2
<1>3. opened \in Hop /\ opened.pc = "arrived" /\ opened.env.id = <<g>> /\ opened.env.guid = g /\ opened.env.suspect = suspect
  <2> DEFINE env == Envelope(g, suspect)
  <2>1. env \in Env /\ env.id = <<g>> /\ env.guid = g /\ env.suspect = suspect
    BY DEF Envelope, Env, Ids
  <2> HIDE DEF env
  <2>2. [pc |-> "arrived", env |-> env, result |-> "-"] \in Hop
    BY <2>1 DEF Hop
  <2> QED
    BY <2>1, <2>2 DEF Opened, env
<1>4. refused \in Hop /\ refused.pc = "answered" /\ refused.result = "rejected"
  BY IdleTyped DEF Hop
<1> HIDE DEF opened, refused
<1>5. PICK new \in Hop : /\ hop' = [hop EXCEPT !["worker"] = new]
                         /\ new = opened \/ new = refused
  BY <1>1, <1>3, <1>4
<1>6. "worker" \in Hops /\ Handlers \subseteq Hops /\ "worker" \notin Handlers
  BY HopNames
<1>7. hop' \in [Hops -> Hop] /\ hop'["worker"] = new /\ \A b \in Hops : b # "worker" => hop'[b] = hop[b]
  BY <1>5, <1>6 DEF EdgeIInv, IngestTypeOK
<1>8. IngestTypeOK'
  BY <1>1, <1>2, <1>7 DEF EdgeIInv, IngestTypeOK
<1>9. HopsOK'
  <2> SUFFICES ASSUME NEW a \in Hops
               PROVE  /\ hop'[a].pc \in {"arrived", "tx"} /\ ~hop'[a].env.marker =>
                            /\ hop'[a].env.guid \in Guids /\ hop'[a].env.id = <<hop'[a].env.guid>>
                            /\ rows'[hop'[a].env.guid].status # "absent"
                            /\ hop'[a].env.suspect = rows'[hop'[a].env.guid].suspect
                      /\ hop'[a].pc = "answered" /\ hop'[a].result = "accepted" => hop'[a].env.id \in processed'
    BY <1>1 DEF EdgeIInv, HopsOK
  <2>1. CASE a = "worker"
    BY <2>1, <1>0, <1>1, <1>3, <1>4, <1>5, <1>7
  <2>2. CASE a # "worker"
    BY <2>2, <1>1, <1>7 DEF EdgeIInv, HopsOK
  <2> QED
    BY <2>1, <2>2
<1>10. SendersOK'
  <2>1. Carries("worker", Head(worker.batch).guid)'
    BY <1>0, <1>2, <1>3, <1>4, <1>5, <1>7 DEF Carries
  <2>2. \A h \in Handlers : hop'[h] = hop[h]
    BY <1>6, <1>7
  <2> QED
    BY <1>1, <1>2, <2>1, <2>2 DEF EdgeIInv, SendersOK, BatchOK, Carries
<1>11. ForwardedIsProcessed'
  BY <1>1 DEF EdgeIInv, ForwardedIsProcessed
<1>12. WindowOK'
  BY <1>1, WindowQuiet DEF EdgeIInv, Unsuspected
<1> QED
  BY <1>1, <1>8, <1>9, <1>10, <1>11, <1>12, HookQuiet DEF IngestPart

\* The worker has its answer: rows keep what others rely on, the next row of
\* the batch is as good as the first.
LEMMA WorkerDone ==
    ASSUME EdgeIInv, UNCHANGED hookVars, Forgetting, UNCHANGED <<audited, seen, req, markers>>,
           hop' = Closed("worker"), rows' \in [Guids -> Row], RowsGrow, ForwardedIsProcessed',
           \A k \in Guids : (rows'[k].status = "absent") <=> (rows[k].status = "absent"),
           \A k \in Guids : rows'[k].suspect = rows[k].suspect,
           worker' \in [pc : {"idle", "send", "wait"}, batch : Seq(DueRow), tries : Nat],
           worker'.pc # "wait", worker'.pc # "idle" => worker'.batch # <<>>, BatchOK'
    PROVE  EdgeIInv'
<1>1. UNCHANGED <<processed, commands>>
  BY DEF hookVars
<1>2. "worker" \in Hops /\ Handlers \subseteq Hops /\ "worker" \notin Handlers
  BY HopNames
<1>3. hop' \in [Hops -> Hop] /\ \A b \in Hops : b # "worker" => hop'[b] = hop[b]
  BY <1>2, CloseHop
<1>4. IngestTypeOK'
  BY <1>3 DEF EdgeIInv, IngestTypeOK
<1>5. HopsOK'
  BY <1>1, <1>2, ClosedHops
<1>6. SendersOK'
  <2>1. ASSUME NEW k \in Handlers
        PROVE  /\ req[k].pc # "idle" => req[k].guid \in Guids
               /\ req[k].pc = "forward" => Carries(k, req[k].guid)' /\ rows'[req[k].guid].status # "absent"
    <3>1. hop'[k] = hop[k]
      BY <1>2, <1>3
    <3>2. /\ req[k].pc # "idle" => req[k].guid \in Guids
          /\ req[k].pc = "forward" => Carries(k, req[k].guid) /\ rows[req[k].guid].status # "absent"
      BY DEF EdgeIInv, SendersOK
    <3> QED
      BY <3>1, <3>2 DEF Carries
  <2> QED
    BY <2>1 DEF SendersOK, Carries
<1>7. WindowOK'
  BY WindowQuiet DEF EdgeIInv, Unsuspected
<1> QED
  BY <1>4, <1>5, <1>6, <1>7, IngestQuiet

\* processOne: another try, or the outcome.
LEMMA WorkerAnsweredKeeps ==
    ASSUME EdgeIInv, UNCHANGED hookVars, Forgetting, WorkerAnswered
    PROVE  EdgeIInv'
<1> DEFINE res == hop["worker"].result
           rest == Tail(worker.batch)
<1>0. /\ worker \in [pc : {"idle", "send", "wait"}, batch : Seq(DueRow), tries : Nat]
      /\ rows \in [Guids -> Row] /\ BatchOK /\ ForwardedIsProcessed
  BY DEF EdgeIInv, IngestTypeOK, SendersOK
<1>1. /\ worker.pc = "wait" /\ Answered("worker") /\ hop' = Closed("worker")
      /\ UNCHANGED <<audited, seen, req, markers, processed>>
  BY DEF WorkerAnswered, hookVars
<1>2. PICK d \in DueRow : d = Head(worker.batch) /\ d.guid \in Guids /\ d.row \in Row /\ rows[d.guid].status # "absent"
  BY <1>1, WorkerHead
<1>3. /\ rest \in Seq(DueRow)
      /\ \A i \in DOMAIN rest : i + 1 \in DOMAIN worker.batch /\ rest[i] = worker.batch[i + 1]
  BY <1>1, WorkerHead
<1>4. CASE /\ worker' = [worker EXCEPT !.pc = "send"] /\ UNCHANGED rows
  <2>1. /\ worker' \in [pc : {"idle", "send", "wait"}, batch : Seq(DueRow), tries : Nat]
        /\ worker'.pc = "send" /\ worker'.batch = worker.batch
    BY <1>0, <1>4
  <2>2. BatchOK' /\ worker.batch # <<>>
    BY <1>1, <1>4, <2>1 DEF EdgeIInv, SendersOK, BatchOK
  <2>3. RowsGrow /\ rows' \in [Guids -> Row] /\ ForwardedIsProcessed'
    BY <1>0, <1>1, <1>4 DEF RowsGrow, ForwardedIsProcessed
  <2> QED
    BY <1>1, <1>4, <2>1, <2>2, <2>3, WorkerDone
<1>5. ASSUME NEW status \in {"pending", "forwarded", "forward_failed"}, NEW n \in Nat,
             status = "forwarded" => res = "accepted", Written(d.guid, status, n), NextDelivery
      PROVE  EdgeIInv'
  <2>1. status = "forwarded" => <<d.guid>> \in processed
    <3>1. Carries("worker", d.guid) /\ "worker" \in Hops
      BY <1>1, <1>2, HopNames DEF EdgeIInv, SendersOK
    <3> QED
      BY <1>1, <1>2, <1>5, <3>1, AnswerMeans
  <2>2. /\ rows' \in [Guids -> Row] /\ RowsGrow /\ ForwardedIsProcessed'
        /\ \A k \in Guids : (rows'[k].status = "absent") <=> (rows[k].status = "absent")
        /\ \A k \in Guids : rows'[k].suspect = rows[k].suspect
    BY <1>1, <1>2, <1>5, <2>1, WriteKeeps
  <2>3. CASE rest = <<>>
    <3>1. worker' = IdleWorker /\ worker'.pc = "idle" /\ worker'.batch = <<>>
      BY <1>5, <2>3 DEF NextDelivery, IdleWorker
    <3>2. BatchOK'
      BY <3>1 DEF BatchOK
    <3> QED
      BY <1>1, <2>2, <3>1, <3>2, IdleTyped, WorkerDone
  <2>4. CASE rest # <<>>
    <3>1. worker' = [pc |-> "send", batch |-> rest, tries |-> 0]
      BY <1>5, <2>4 DEF NextDelivery
    <3> HIDE DEF rest
    <3>2. /\ worker' \in [pc : {"idle", "send", "wait"}, batch : Seq(DueRow), tries : Nat]
          /\ worker'.pc = "send" /\ worker'.batch = rest
      BY <1>3, <3>1
    <3>3. ASSUME NEW i \in DOMAIN rest
          PROVE  /\ rows'[rest[i].guid].status # "absent"
                 /\ rest[i].row.suspect = rows'[rest[i].guid].suspect
      <4>1. rest[i] \in DueRow
        BY <1>3
      <4>2. rest[i].guid \in Guids
        BY <4>1 DEF DueRow
      <4>3. /\ rows[rest[i].guid].status # "absent"
            /\ rest[i].row.suspect = rows[rest[i].guid].suspect
        BY <1>0, <1>3 DEF BatchOK
      <4> QED
        BY <2>2, <4>2, <4>3
    <3>4. BatchOK'
      BY <3>2, <3>3 DEF BatchOK
    <3> QED
      BY <1>1, <2>2, <2>4, <3>2, <3>4, WorkerDone
  <2> QED
    BY <2>3, <2>4
<1> DEFINE n == AttemptsAfter(d)
           status == IF res = "unavailable" /\ n >= MaxAttempts THEN "forward_failed" ELSE StatusAfter(res)
<1>6. CASE NextDelivery /\ Written(d.guid, status, n)
  <2>2. n \in Nat
    BY <1>2, IngestConstants DEF AttemptsAfter, Row
  <2>3. status \in {"pending", "forwarded", "forward_failed"} /\ (status = "forwarded" => res = "accepted")
    BY StatusAfterAnswer
  <2> HIDE DEF n, status
  <2> QED
    BY <1>5, <1>6, <2>2, <2>3
<1> QED
  BY <1>2, <1>4, <1>6 DEF WorkerAnswered, Written

\* A marker waiting to be sent.
LEMMA MarkersTyped ==
    ASSUME EdgeIInv
    PROVE  /\ markers \in Seq(Env) /\ \A i \in 1..Len(markers) : markers[i].marker
           /\ markers # <<>> => /\ Head(markers) \in Env /\ Head(markers).marker
                                /\ Tail(markers) \in Seq(Env)
                                /\ \A i \in DOMAIN Tail(markers) : Tail(markers)[i].marker
<1>1. markers \in Seq(Env) /\ \A i \in 1..Len(markers) : markers[i].marker
  BY DEF EdgeIInv, IngestTypeOK, HopsOK
<1>2. ASSUME markers # <<>>
      PROVE  /\ Head(markers) \in Env /\ Head(markers) = markers[1] /\ 1 \in 1..Len(markers) /\ Tail(markers) \in Seq(Env)
             /\ DOMAIN Tail(markers) = 1..(Len(markers) - 1)
             /\ \A i \in 1..(Len(markers) - 1) : Tail(markers)[i] = markers[i + 1] /\ i + 1 \in 1..Len(markers)
  BY <1>1, <1>2
<1> QED
  BY <1>1, <1>2

\* Markers are sent once.
LEMMA MarkerStepKeeps ==
    ASSUME EdgeIInv, UNCHANGED hookVars, Forgetting, MarkerStep
    PROVE  EdgeIInv'
<1>0. UNCHANGED <<rows, audited, seen, req, worker, processed, commands>>
  BY DEF MarkerStep, SendMarker, MarkerAnswered, rowVars, hookVars
<1>1. "markers" \in Hops /\ Handlers \cup {"worker"} \subseteq Hops /\ "markers" \notin Handlers \cup {"worker"}
  BY HopNames
<1>2. PICK new \in Hop : /\ hop' = [hop EXCEPT !["markers"] = new]
                         /\ new.pc \in {"none", "arrived"} /\ (new.pc = "arrived" => new.env.marker)
  <2>1. CASE SendMarker
    <3> DEFINE env == Head(markers)
    <3>1. hop' = [hop EXCEPT !["markers"] = Opened(env)] /\ env \in Env /\ env.marker
      BY <2>1, MarkersTyped DEF SendMarker
    <3> HIDE DEF env
    <3>2. Opened(env) \in Hop /\ Opened(env).pc = "arrived" /\ Opened(env).env = env
      BY <3>1 DEF Opened, Hop
    <3> QED
      BY <3>1, <3>2
  <2>2. CASE MarkerAnswered
    BY <2>2, IdleTyped DEF MarkerAnswered, Closed
  <2> QED
    BY <2>1, <2>2 DEF MarkerStep
<1>3. markers' \in Seq(Env) /\ \A i \in DOMAIN markers' : markers'[i].marker
  <2>1. CASE SendMarker
    BY <2>1, MarkersTyped DEF SendMarker
  <2>2. CASE MarkerAnswered
    BY <2>2, MarkersTyped DEF MarkerAnswered
  <2> QED
    BY <2>1, <2>2 DEF MarkerStep
<1>4. hop' \in [Hops -> Hop] /\ hop'["markers"] = new /\ \A b \in Hops : b # "markers" => hop'[b] = hop[b]
  BY <1>1, <1>2 DEF EdgeIInv, IngestTypeOK
<1>5. IngestTypeOK'
  BY <1>0, <1>3, <1>4 DEF EdgeIInv, IngestTypeOK
<1>6. HopsOK'
  BY <1>0, <1>2, <1>3, <1>4 DEF EdgeIInv, HopsOK
<1>7. SendersOK'
  <2>1. \A h \in Handlers \cup {"worker"} : hop'[h] = hop[h]
    BY <1>1, <1>4
  <2> QED
    BY <1>0, <2>1 DEF EdgeIInv, SendersOK, BatchOK, Carries
<1>8. ForwardedIsProcessed'
  BY <1>0 DEF EdgeIInv, ForwardedIsProcessed
<1>9. WindowOK'
  BY <1>0, WindowQuiet DEF EdgeIInv, Unsuspected
<1> QED
  BY <1>0, <1>5, <1>6, <1>7, <1>8, <1>9, HookQuiet DEF IngestPart

\* A signature failure leaves a row of its own and a marker.
LEMMA RejectKeeps ==
    ASSUME EdgeIInv, UNCHANGED hookVars, Forgetting, NEW g \in Guids, Reject(g)
    PROVE  EdgeIInv'
<1> DEFINE n == audited + 1
           env == [id |-> <<g, n>>, guid |-> g, suspect |-> FALSE, marker |-> TRUE]
           kept == IF Len(markers) = MarkerBuffer THEN Tail(markers) ELSE markers
<1>0. UNCHANGED <<rows, seen, req, worker, hop, processed, commands>>
  BY DEF Reject, hookVars
<1>1. audited' = n /\ markers' = Append(kept, env)
  BY DEF Reject
<1>2. n \in Nat
  BY DEF EdgeIInv, IngestTypeOK
<1>3. env \in Env /\ env.marker
  BY <1>2 DEF Env, Ids
<1>4. kept \in Seq(Env) /\ \A i \in DOMAIN kept : kept[i].marker
  <2>1. CASE Len(markers) = MarkerBuffer
    <3>1. markers # <<>>
      BY <2>1, IngestConstants
    <3> QED
      BY <2>1, <3>1, MarkersTyped
  <2>2. CASE Len(markers) # MarkerBuffer
    BY <2>2, MarkersTyped
  <2> QED
    BY <2>1, <2>2
<1> HIDE DEF kept, env
<1>5. markers' \in Seq(Env) /\ \A i \in DOMAIN markers' : markers'[i].marker
  <2>1. /\ DOMAIN markers' = 1..(Len(kept) + 1) /\ markers'[Len(kept) + 1] = env
        /\ DOMAIN kept = 1..Len(kept) /\ \A i \in 1..Len(kept) : markers'[i] = kept[i]
    BY <1>1, <1>3, <1>4
  <2> QED
    BY <1>1, <1>3, <1>4, <2>1
<1>6. IngestTypeOK'
  BY <1>0, <1>1, <1>2, <1>5 DEF EdgeIInv, IngestTypeOK
<1>7. HopsOK'
  BY <1>0, <1>5 DEF EdgeIInv, HopsOK
<1>8. SendersOK' /\ ForwardedIsProcessed'
  BY <1>0 DEF EdgeIInv, SendersOK, BatchOK, Carries, ForwardedIsProcessed
<1>9. WindowOK'
  BY <1>0, WindowQuiet DEF EdgeIInv, Unsuspected
<1> QED
  BY <1>0, <1>6, <1>7, <1>8, <1>9, HookQuiet DEF IngestPart

\* A row becomes due.
LEMMA AgeKeeps ==
    ASSUME EdgeIInv, UNCHANGED hookVars, Forgetting, NEW g \in Guids, Age(g)
    PROVE  EdgeIInv'
<1> DEFINE new == [rows[g] EXCEPT !.due = TRUE]
<1>0. UNCHANGED <<audited, seen, req, worker, markers, hop, processed, commands>> /\ rows' = [rows EXCEPT ![g] = new]
  BY DEF Age, hookVars
<1>1. rows \in [Guids -> Row]
  BY DEF EdgeIInv, IngestTypeOK
<1>2. new \in Row /\ new.status = rows[g].status /\ new.suspect = rows[g].suspect
  BY <1>1 DEF Row
<1> HIDE DEF new
<1>3. rows' \in [Guids -> Row] /\ \A k \in Guids : rows'[k].status = rows[k].status /\ rows'[k].suspect = rows[k].suspect
  BY <1>0, <1>1, <1>2
<1>4. RowsGrow
  BY <1>3 DEF RowsGrow
<1>5. IngestTypeOK'
  BY <1>0, <1>3 DEF EdgeIInv, IngestTypeOK
<1>6. HopsOK' /\ ForwardedIsProcessed'
  BY <1>0, <1>3 DEF EdgeIInv, HopsOK, ForwardedIsProcessed
<1>7. SendersOK'
  <2>1. BatchOK'
    BY <1>0, <1>4, BatchKept DEF EdgeIInv
  <2> QED
    BY <1>0, <1>3, <2>1 DEF EdgeIInv, SendersOK, Carries
<1>8. WindowOK'
  BY <1>0, <1>3, WindowQuiet DEF EdgeIInv, Unsuspected
<1> QED
  BY <1>4, <1>5, <1>6, <1>7, <1>8, IngestQuiet

\* An entry of the window expires.
LEMMA ExpiryKeeps ==
    ASSUME EdgeIInv, UNCHANGED hookVars, Forgetting, NEW i, SeenExpires(i)
    PROVE  EdgeIInv'
<1> DEFINE new == [seen[i] EXCEPT !.fresh = FALSE]
<1>0. /\ UNCHANGED <<rows, audited, req, worker, markers, hop, processed, commands>>
      /\ i \in 1..Len(seen) /\ seen' = [seen EXCEPT ![i] = new]
  BY DEF SeenExpires, rowVars, hookVars
<1>1. seen \in Seq(Entry)
  BY DEF EdgeIInv, IngestTypeOK, Entry
<1>2. new \in Entry
  <2>1. seen[i] \in Entry
    BY <1>0, <1>1
  <2> QED
    BY <2>1 DEF Entry
<1> HIDE DEF new
<1>3. seen' \in Seq(Entry)
  BY <1>0, <1>1, <1>2
<1>4. IngestTypeOK'
  BY <1>0, <1>3 DEF EdgeIInv, IngestTypeOK, Entry
<1>5. HopsOK' /\ SendersOK' /\ ForwardedIsProcessed'
  BY <1>0 DEF EdgeIInv, HopsOK, SendersOK, BatchOK, Carries, ForwardedIsProcessed
<1>6. WindowOK'
  BY <1>0, WindowQuiet DEF EdgeIInv, Unsuspected
<1> QED
  BY <1>0, <1>4, <1>5, <1>6, HookQuiet DEF IngestPart

\* Ingest restarts: at most one of its requests goes on, as a stray.
LEMMA CrashKeeps ==
    ASSUME EdgeIInv, UNCHANGED hookVars, Forgetting, IngestCrash
    PROVE  EdgeIInv'
<1>0. /\ UNCHANGED <<rows, audited, processed, commands>>
      /\ seen' = <<>> /\ markers' = <<>>
      /\ req' = [h \in Handlers |-> IdleReq] /\ worker' = IdleWorker
  BY DEF IngestCrash, rowVars, hookVars
<1>1. hop \in [Hops -> Hop]
  BY DEF EdgeIInv, IngestTypeOK
<1>2. PICK keep \in SUBSET {a \in Senders : hop[a].pc \notin {"none", "answered"}} :
         hop' = [a \in Hops |-> IF a = "stray" /\ keep # {} THEN hop[CHOOSE k \in keep : TRUE]
                                ELSE IF a \in Senders THEN NoHop ELSE hop[a]]
  BY DEF IngestCrash, Abandoned
<1>3. keep # {} => (CHOOSE k \in keep : TRUE) \in Hops
  BY <1>2, HopNames
<1>4. \A a \in Hops : hop'[a] = NoHop \/ \E b \in Hops : hop'[a] = hop[b]
  BY <1>2, <1>3
<1>5. hop' \in [Hops -> Hop]
  BY <1>1, <1>2, <1>3, IdleTyped
<1>6. \A a \in Hops : hop'[a].pc = "none" \/ \E b \in Hops : hop'[a] = hop[b]
  BY <1>4, IdleTyped
<1>7. IngestTypeOK'
  BY <1>0, <1>5, IdleTyped DEF EdgeIInv, IngestTypeOK
<1>8. HopsOK'
  <2> SUFFICES ASSUME NEW a \in Hops
               PROVE  /\ hop'[a].pc \in {"arrived", "tx"} /\ ~hop'[a].env.marker =>
                            /\ hop'[a].env.guid \in Guids /\ hop'[a].env.id = <<hop'[a].env.guid>>
                            /\ rows'[hop'[a].env.guid].status # "absent"
                            /\ hop'[a].env.suspect = rows'[hop'[a].env.guid].suspect
                      /\ hop'[a].pc = "answered" /\ hop'[a].result = "accepted" => hop'[a].env.id \in processed'
    BY <1>0 DEF EdgeIInv, HopsOK
  <2>1. CASE hop'[a].pc = "none"
    BY <2>1
  <2>2. CASE \E b \in Hops : hop'[a] = hop[b]
    <3>1. PICK b \in Hops : hop'[a] = hop[b]
      BY <2>2
    <3> QED
      BY <1>0, <3>1 DEF EdgeIInv, HopsOK
  <2> QED
    BY <1>6, <2>1, <2>2
<1>9. SendersOK'
  BY <1>0, IdleTyped DEF SendersOK, IdleWorker, BatchOK
<1>10. ForwardedIsProcessed'
  BY <1>0 DEF EdgeIInv, ForwardedIsProcessed
<1>11. WindowOK'
  BY <1>0, IdleTyped, WindowQuiet DEF EdgeIInv, Unsuspected
<1> QED
  BY <1>0, <1>7, <1>8, <1>9, <1>10, <1>11, HookQuiet DEF IngestPart

\* Steps that leave ingest alone and the guards of the endpoint too.
LEMMA IngestAsIs ==
    ASSUME EdgeIInv, UNCHANGED <<ingestVars, processed, commands, anchors, marked>>, Forgetting,
           candidates' \in Seq(Candidate), OneLivePerHead'
    PROVE  EdgeIInv'
<1>0. UNCHANGED <<rows, audited, seen, req, worker, markers, hop>>
  BY DEF ingestVars, rowVars
<1>1. IngestTypeOK'
  BY <1>0 DEF EdgeIInv, IngestTypeOK
<1>2. HookTypeOK' /\ ExactlyOnce'
  BY DEF EdgeIInv, HookTypeOK, ExactlyOnce
<1>3. HopsOK' /\ ForwardedIsProcessed'
  BY <1>0 DEF EdgeIInv, HopsOK, ForwardedIsProcessed
<1>4. SendersOK' /\ TracesOK'
  BY <1>0 DEF EdgeIInv, SendersOK, BatchOK, Carries, TracesOK
<1>5. WindowOK'
  BY <1>0, WindowQuiet DEF EdgeIInv, Unsuspected
<1> QED
  BY <1>1, <1>2, <1>3, <1>4, <1>5 DEF EdgeIInv

\* The scheduler decides a live candidate, or the lease expires.
LEMMA ElsewhereKeeps ==
    ASSUME EdgeIInv, UNCHANGED ingestVars, Forgetting, Elsewhere
    PROVE  EdgeIInv'
<1>0. candidates \in Seq(Candidate) /\ OneLivePerHead
  BY DEF EdgeIInv, HookTypeOK
<1>1. CASE LeaseExpires
  BY <1>0, <1>1, IngestAsIs DEF LeaseExpires, OneLivePerHead
<1>2. CASE \E i \in 1..Len(candidates), v \in {"eligible", "rejected"} : Decided(i, v)
  <2>1. PICK i \in 1..Len(candidates), v \in {"eligible", "rejected"} : Decided(i, v)
    BY <1>2
  <2> DEFINE new == [candidates[i] EXCEPT !.state = v]
  <2>2. candidates' = [candidates EXCEPT ![i] = new] /\ candidates[i].state = "live"
        /\ UNCHANGED <<processed, commands, anchors, marked>>
    BY <2>1 DEF Decided
  <2>3. new \in Candidate /\ new.head = candidates[i].head
    <3>1. candidates[i] \in Candidate
      BY <1>0
    <3> QED
      BY <3>1 DEF Candidate, CandidateStates
  <2> HIDE DEF new
  <2>4. /\ candidates' \in Seq(Candidate) /\ Len(candidates') = Len(candidates)
        /\ \A j \in 1..Len(candidates) :
              /\ candidates'[j].head = candidates[j].head
              /\ candidates'[j].state \notin Gone => candidates[j].state \notin Gone
    <3>1. /\ candidates' \in Seq(Candidate) /\ Len(candidates') = Len(candidates) /\ candidates'[i] = new
          /\ \A j \in 1..Len(candidates) : j # i => candidates'[j] = candidates[j]
      BY <1>0, <2>2, <2>3
    <3> QED
      BY <2>2, <2>3, <3>1 DEF Gone
  <2>5. OneLivePerHead'
    BY <1>0, <2>4 DEF OneLivePerHead
  <2> QED
    BY <2>2, <2>4, <2>5, IngestAsIs
<1> QED
  BY <1>1, <1>2 DEF Elsewhere

\* A request's steps past acquire.
LEMMA RequestKeeps ==
    ASSUME EdgeIInv, UNCHANGED hookVars, Forgetting, NEW h \in Handlers, RequestStep(h)
    PROVE  EdgeIInv'
<1>1. CASE InsertDelivery(h)
  <2>1. CASE rows[req[h].guid].status = "absent"
    BY <1>1, <2>1, StoreKeeps
  <2>2. CASE rows[req[h].guid].status # "absent"
    <3>1. Release(h) /\ UNCHANGED <<rows, audited, seen, worker, markers, hop>>
      BY <1>1, <2>2 DEF InsertDelivery
    <3> QED
      BY <3>1, ReleaseKeeps
  <2> QED
    BY <2>1, <2>2
<1>2. CASE InsertFails(h)
  <2>1. Release(h) /\ UNCHANGED <<rows, audited, seen, worker, markers, hop>>
    BY <1>2 DEF InsertFails, rowVars
  <2> QED
    BY <2>1, ReleaseKeeps
<1>3. CASE RecordOutcome(h)
  BY <1>3, RecordKeeps
<1> QED
  BY <1>1, <1>2, <1>3 DEF RequestStep

----------------------------------------------------------------------------

\* One step of the edge.
LEMMA EdgeStepInv == EdgeIInv /\ [EdgeNext]_edgeVars => EdgeIInv'
<1> SUFFICES ASSUME EdgeIInv, [EdgeNext]_edgeVars PROVE EdgeIInv'
    OBVIOUS
<1>1. CASE UNCHANGED edgeVars
  <2>1. UNCHANGED <<ingestVars, hookVars, forgot>>
    BY <1>1 DEF edgeVars
  <2>2. UNCHANGED <<seen, processed, commands, anchors, marked, candidates>>
    BY <2>1 DEF ingestVars, hookVars, prVars
  <2>3. Forgetting
    BY <2>1, <2>2 DEF Forgetting
  <2>4. candidates' \in Seq(Candidate) /\ OneLivePerHead'
    BY <2>2 DEF EdgeIInv, HookTypeOK, OneLivePerHead
  <2> QED
    BY <2>1, <2>2, <2>3, <2>4, IngestAsIs
<1>2. CASE EdgeNext
  <2>0. Forgetting
    BY <1>2 DEF EdgeNext, Forgetting
  <2>1. CASE \E h \in Handlers, g \in Guids : Post(h, g) /\ UNCHANGED hookVars
    BY <2>0, <2>1, PostKeeps DEF Post
  <2>2. CASE IngestStep /\ UNCHANGED hookVars
    BY <2>0, <2>2, RequestKeeps, ScanKeeps, WorkerSendKeeps, WorkerAnsweredKeeps, MarkerStepKeeps,
       AgeKeeps, CrashKeeps DEF IngestStep, WorkerStep
  <2>3. CASE Expiry /\ UNCHANGED hookVars
    BY <2>0, <2>3, ExpiryKeeps DEF Expiry
  <2>4. CASE (\E g \in Guids : BadSignature(g)) /\ UNCHANGED hookVars
    BY <2>0, <2>4, RejectKeeps DEF BadSignature
  <2>5. CASE \E a \in Hops : HopStep(a)
    BY <2>0, <2>5, ConnectionKeeps, TxKeeps DEF HopStep
  <2>6. CASE (\E a \in Senders : ClientTimeout(a)) \/ StrayEnds
    BY <2>0, <2>6, ConnectionKeeps
  <2>7. CASE Elsewhere /\ UNCHANGED ingestVars
    BY <2>0, <2>7, ElsewhereKeeps
  <2> QED
    BY <1>2, <2>1, <2>2, <2>3, <2>4, <2>5, <2>6, <2>7 DEF EdgeNext
<1> QED
  BY <1>1, <1>2

\* The edge keeps its connections, its rows and the ledger consistent.
THEOREM EdgeInvariant == EdgeSpec => []EdgeIInv
<1>1. EdgeInit => EdgeIInv
  BY EdgeInitInv
<1>2. EdgeIInv /\ [EdgeNext]_edgeVars => EdgeIInv'
  BY EdgeStepInv
<1> QED
  BY <1>1, <1>2, PTL DEF EdgeSpec

\* Exactly-once effects: no delivery is in the ledger twice, whatever is
\* redelivered, retried, timed out or goes on as a stray (MarkProcessedTx).
THEOREM EdgeExactlyOnce == EdgeSpec => []ExactlyOnce
<1>1. EdgeIInv => ExactlyOnce
  BY DEF EdgeIInv
<1> QED
  BY <1>1, EdgeInvariant, PTL

\* A row that says forwarded is one the control-plane has committed
\* (recordOutcome, processOne).
THEOREM EdgeForwarded == EdgeSpec => []ForwardedIsProcessed
<1>1. EdgeIInv => ForwardedIsProcessed
  BY DEF EdgeIInv
<1> QED
  BY <1>1, EdgeInvariant, PTL

\* One live candidate per head of the pull request, in any order of its
\* deliveries (submitWebhookCandidateTx).
THEOREM EdgeOneLive == EdgeSpec => []OneLivePerHead
<1>1. EdgeIInv => OneLivePerHead
  BY DEF EdgeIInv
<1> QED
  BY <1>1, EdgeInvariant, PTL

\* Replayed content has effects a second time only if it has left the
\* window (SeenOrAdd, applyDuplicateSuspect).
THEOREM EdgeReplay == EdgeSpec => []ReplayContained
<1>1. EdgeIInv => ReplayContained
  <2> SUFFICES ASSUME EdgeIInv, NEW i \in 1..Len(anchors), NEW j \in 1..Len(anchors),
                      i # j, Content[anchors[i]] = Content[anchors[j]]
               PROVE  Content[anchors[i]] \in forgot
    BY DEF ReplayContained
  <2>1. anchors \in Seq(Guids) /\ DOMAIN anchors = 1..Len(anchors)
    BY DEF EdgeIInv, HookTypeOK
  <2>2. anchors[i] # anchors[j]
    BY <2>1 DEF EdgeIInv, ExactlyOnce, IsInjective
  <2>3. Unsuspected(anchors[i]) /\ Unsuspected(anchors[j])
    BY <2>1 DEF EdgeIInv, TracesOK, Unsuspected
  <2> QED
    BY <2>1, <2>2, <2>3 DEF EdgeIInv, WindowOK
<1> QED
  BY <1>1, EdgeInvariant, PTL
=============================================================================
