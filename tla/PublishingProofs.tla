-------------------------- MODULE PublishingProofs ---------------------------
(***************************************************************************)
(* Theorems about Publishing: the composition is a relay and a connector,  *)
(* so what is proved of either holds in it, and the relay believes a       *)
(* decision published only when the connector recorded or refused it.      *)
(*                                                                         *)
(* The argument follows a decision through both processes: a drainer that  *)
(* has a request at the connector is at its handlers with that decision,   *)
(* and an answer below 500 means that the decision's effect is there.      *)
(***************************************************************************)
EXTENDS Publishing, RelayProofs, ConnectorProofs

\* The decision is recorded, or refused for good.
Settled(e) == e \in recorded \/ ~Valid(Envelope(e))
Effect(e) == /\ IsDecision(e) => Settled(e)
             /\ Type[e] = "validation.requested" => e \in processed

\* The request of drainer t.
RequestOK(t, j) ==
    j.pc # "idle" =>
        /\ AtHandlers(t) /\ IsDecision(Item(t))
        /\ j.pc # "answered" => j.kind = "decision" /\ j.id = Item(t) /\ j.code = 0
        /\ j.pc = "answered" /\ j.code < 500 => Settled(Item(t))
RequestsOK == \A t \in Drainers : RequestOK(t, job[t])
RecordedOK == \A v \in Revs : rec[v].dec # "-" => rec[v].dec \in recorded
OutcomesOK == \A t \in Drainers : outcome[t] = "ok" => Effect(Item(t))

PubOK == RequestsOK /\ RecordedOK /\ OutcomesOK /\ PublishedWasRecorded
PubIInv == RelayIInv /\ ConnIInv /\ PubOK

----------------------------------------------------------------------------

\* What a step of the connector does to the request of a client.
Advances(t) ==
    \/ job'[t] = job[t] \/ job'[t].pc = "idle"
    \/ /\ job[t].pc \notin {"idle", "answered"} /\ job'[t].pc \notin {"idle", "answered"}
       /\ job'[t].kind = job[t].kind /\ job'[t].id = job[t].id /\ job'[t].code = job[t].code
    \/ /\ job[t].pc # "idle" /\ job'[t].pc = "answered"
       /\ \/ job'[t].code >= 500
          \/ job[t].pc = "answered" /\ job'[t].code = job[t].code
          \/ job[t].kind # "decision" /\ job[t].pc # "answered"
          \/ job[t].pc # "answered" /\ job[t].id # "-" /\ \E v \in Revs : rec'[v].dec = job[t].id

\* Steps by the form of what they do to the job.
LEMMA OthersStay ==
    ASSUME ConnIInv, NEW t \in Posters, NEW w \in Writers, NEW new, job' = [job EXCEPT ![w] = new], w # t
    PROVE  Advances(t)
<1>1. t \in Writers /\ job \in [Writers -> JobT]
  BY ConnConstants DEF ConnIInv, ConnTypeOK
<1>2. job'[t] = job[t]
  BY <1>1
<1> QED
  BY <1>2 DEF Advances

\* An answer below 500 to a decision is given with the decision recorded.
LEMMA AnswerAdvances ==
    ASSUME ConnIInv, NEW t \in Posters, NEW code, Reply(t, code), job[t].pc \notin {"idle", "answered"},
           code >= 500 \/ job[t].kind # "decision" \/ (job[t].id # "-" /\ \E v \in Revs : rec'[v].dec = job[t].id)
    PROVE  Advances(t)
<1>1. t \in Writers /\ job \in [Writers -> JobT]
  BY ConnConstants DEF ConnIInv, ConnTypeOK
<1>2. PICK new : new = [Idle EXCEPT !.pc = "answered", !.code = code]
  OBVIOUS
<1>3. new.pc = "answered" /\ new.code = code
  BY <1>2 DEF Idle
<1>4. job'[t] = new
  BY <1>1, <1>2 DEF Reply
<1> QED
  BY <1>3, <1>4 DEF Advances

\* A client's own request goes on through its flow.
LEMMA HandlerAdvances ==
    ASSUME ConnIInv, RecordedOK, NEW t \in Posters, HandlerStep(t, Policy)
    PROVE  Advances(t)
<1>1. t \in Writers /\ job \in [Writers -> JobT] /\ t \notin Loops
  BY ConnConstants DEF ConnIInv, ConnTypeOK
<1>2. job[t] \in JobT /\ Shape(t, job[t])
  BY <1>1, JobKnown
<1>3. CASE ReadFails(t) \/ ClientTimeout(t)
  <2>1. (Reply(t, 503) \/ Reply(t, 504)) /\ job[t].pc \notin {"idle", "answered"}
    BY <1>3 DEF ReadFails, ClientTimeout, At
  <2> QED
    BY <2>1, AnswerAdvances
<1>4. CASE FindByDecision(t)
  <2>1. job[t].pc = "find"
    BY <1>4 DEF FindByDecision, At
  <2>2. CASE \E v \in Revs : rec[v].dec = job[t].id
    <3>1. Reply(t, 200) /\ UNCHANGED rec
      BY <1>4, <2>2 DEF FindByDecision
    <3>2. job[t].kind = "decision" => job[t].id # "-"
      BY <1>2, <2>1, DecidedConcludes DEF Shape
    <3> QED
      BY <2>1, <2>2, <3>1, <3>2, AnswerAdvances
  <2>3. CASE ~\E v \in Revs : rec[v].dec = job[t].id
    <3>1. job'[t] = [job[t] EXCEPT !.pc = "load"]
      BY <1>1, <1>4, <2>3 DEF FindByDecision, Goto
    <3> QED
      BY <1>2, <2>1, <3>1 DEF JobT, Advances
  <2> QED
    BY <2>2, <2>3
<1>5. CASE LookupCheckReport(t)
  <2>1. job[t].pc = "load"
    BY <1>5 DEF LookupCheckReport, At
  <2>2. CASE job[t].kind # "decision" /\ (Reply(t, 200) \/ Reply(t, 404))
    BY <2>1, <2>2, AnswerAdvances
  <2>3. ASSUME NEW pc \in {"acquire", "allow"}, NEW snap, NEW write,
               job' = [job EXCEPT ![t].pc = pc, ![t].snap = snap, ![t].write = write]
        PROVE  Advances(t)
    <3>1. job'[t] = [job[t] EXCEPT !.pc = pc, !.snap = snap, !.write = write]
      BY <1>1, <2>3
    <3> QED
      BY <1>2, <2>1, <3>1 DEF JobT, Advances
  <2>4. ASSUME NEW snap, job' = [job EXCEPT ![t].pc = "allow", ![t].snap = snap] PROVE Advances(t)
    <3>1. job'[t] = [job[t] EXCEPT !.pc = "allow", !.snap = snap]
      BY <1>1, <2>4
    <3> QED
      BY <1>2, <2>1, <3>1 DEF JobT, Advances
  <2> QED
    BY <1>5, <2>2, <2>3, <2>4 DEF LookupCheckReport, ToWrite
<1>6. CASE Allow(t, Policy) \/ \E a \in Answers : Replan(t, a)
  <2>1. job[t].pc \in {"allow", "ctrl"}
    BY <1>6 DEF Allow, Replan, At
  <2>2. job[t].kind = "rerun_requested"
    BY <1>2, <2>1 DEF Shape
  <2>3. CASE Reply(t, 202) \/ Reply(t, 404)
    BY <2>1, <2>2, <2>3, AnswerAdvances
  <2>4. ASSUME NEW snap, NEW write, ToWrite(t, snap, write) PROVE Advances(t)
    <3>1. job'[t] = [job[t] EXCEPT !.pc = "acquire", !.snap = snap, !.write = write]
      BY <1>1, <2>4 DEF ToWrite
    <3> QED
      BY <1>2, <2>1, <3>1 DEF JobT, Advances
  <2>5. CASE Goto(t, "ctrl")
    <3>1. job'[t] = [job[t] EXCEPT !.pc = "ctrl"]
      BY <1>1, <2>5 DEF Goto
    <3> QED
      BY <1>2, <2>1, <3>1 DEF JobT, Advances
  <2> QED
    BY <1>6, <2>3, <2>4, <2>5 DEF Allow, Replan
<1> QED
  BY <1>3, <1>4, <1>5, <1>6 DEF HandlerStep

\* The write of a client's request.  A decision's save puts it on record.
LEMMA WriterAdvances ==
    ASSUME ConnIInv, NEW t \in Posters, WriterStep(t)
    PROVE  Advances(t)
<1>1. t \in Writers /\ job \in [Writers -> JobT] /\ t \notin Loops
  BY ConnConstants DEF ConnIInv, ConnTypeOK
<1>2. PICK j \in JobT : j = job[t] /\ Shape(t, j)
  BY <1>1, JobKnown
<1>3. j.pc \in {"acquire", "call", "save"}
  BY <1>2 DEF WriterStep, TryAcquire, EnqueueFails, DryWrite, ResolveFails, Resolving, CallGitHub, CallFails,
              Save, SaveFails, At
<1>4. ASSUME NEW code, code >= 500, Reply(t, code) PROVE Advances(t)
  BY <1>2, <1>3, <1>4, AnswerAdvances
<1>5. ASSUME NEW run, job' = [job EXCEPT ![t].pc = "save", ![t].run = run] PROVE Advances(t)
  <2>1. job'[t] = [j EXCEPT !.pc = "save", !.run = run]
    BY <1>1, <1>2, <1>5
  <2> QED
    BY <1>2, <1>3, <2>1 DEF JobT, Advances
<1>6. CASE TryAcquire(t)
  <2>1. CASE Goto(t, "call")
    <3>1. job'[t] = [j EXCEPT !.pc = "call"]
      BY <1>1, <1>2, <2>1 DEF Goto
    <3> QED
      BY <1>2, <1>3, <3>1 DEF JobT, Advances
  <2> QED
    BY <1>1, <1>5, <1>6, <2>1 DEF TryAcquire
<1>7. CASE EnqueueFails(t)
  BY <1>1, <1>4, <1>7 DEF EnqueueFails, GiveUp
<1>8. CASE DryWrite(t)
  BY <1>5, <1>8 DEF DryWrite
<1>9. CASE CallGitHub(t)
  <2>1. \E run : job' = [job EXCEPT ![t].pc = "save", ![t].run = run]
    BY <1>9 DEF CallGitHub
  <2> QED
    BY <1>5, <2>1
<1>10. CASE CallFails(t)
  <2>1. CASE job' = [job EXCEPT ![t].tries = @ + 1]
    <3>0. PICK tries : tries = j.tries + 1
      OBVIOUS
    <3>1. job'[t] = [j EXCEPT !.tries = tries]
      BY <1>1, <1>2, <2>1, <3>0
    <3> QED
      BY <1>2, <1>3, <3>1 DEF JobT, Advances
  <2>2. CASE GiveUp(t)
    BY <1>1, <1>4, <2>2 DEF GiveUp
  <2> QED
    BY <1>10, <2>1, <2>2 DEF CallFails
<1>11. CASE Save(t)
  <2>1. Reply(t, 202)
    BY <1>1, <1>11 DEF Save, Finish
  <2>2. CASE j.kind # "decision"
    BY <1>2, <1>3, <2>1, <2>2, AnswerAdvances
  <2>3. CASE j.kind = "decision"
    <3>1. j.id \in Decided /\ j.id # "-" /\ j.rev \in Revs
      BY <1>2, <1>3, <2>3, DecidedConcludes DEF Shape
    <3>2. PICK s : s = Saved(j) /\ s.dec = j.id
      <4> DEFINE s == [run |-> j.run, phase |-> "completed", concl |-> j.write.concl, dec |-> j.id, last |-> j.id]
      <4>1. Saved(j) = s
        BY <2>3 DEF Saved
      <4>2. s.dec = j.id
        OBVIOUS
      <4> HIDE DEF s
      <4> QED
        BY <4>1, <4>2
    <3>3. rec' = [rec EXCEPT ![j.rev] = Upsert(rec[j.rev], s)] /\ rec \in [Revs -> RecT]
      BY <1>2, <1>11, <2>3, <3>2 DEF Save, ConnIInv, ConnTypeOK
    <3>4. PICK u : u = Upsert(rec[j.rev], s) /\ u.dec = j.id
      <4>1. Upsert(rec[j.rev], s).dec = IF s.dec # "-" THEN s.dec ELSE rec[j.rev].dec
        BY DEF Upsert
      <4> QED
        BY <3>1, <3>2, <4>1
    <3>5. rec'[j.rev].dec = j.id
      BY <3>1, <3>3, <3>4
    <3> QED
      BY <1>2, <1>3, <2>1, <3>1, <3>5, AnswerAdvances
  <2> QED
    BY <2>2, <2>3
<1>12. CASE SaveFails(t)
  <2>1. CASE j.kind \in {"decision", "lifecycle"}
    <3>1. Reply(t, 503)
      BY <1>2, <1>12, <2>1 DEF SaveFails
    <3> QED
      BY <1>4, <3>1
  <2>2. CASE j.kind \notin {"decision", "lifecycle"}
    <3>1. Reply(t, 202)
      BY <1>1, <1>2, <1>12, <2>2 DEF SaveFails, Finish
    <3> QED
      BY <1>2, <1>3, <2>2, <3>1, AnswerAdvances
  <2> QED
    BY <2>1, <2>2
<1>13. CASE ResolveFails(t)
  BY <1>1, <1>4, <1>13 DEF ResolveFails, GiveUp
<1> QED
  BY <1>6, <1>7, <1>8, <1>9, <1>10, <1>11, <1>12, <1>13 DEF WriterStep

\* A step of one writer is a step of its job only.
LEMMA OneWriter ==
    ASSUME ConnIInv, NEW w \in Writers, NEW t \in Posters, w # t,
           WriterStep(w) \/ HandlerStep(w, Policy) \/ NextItem(w)
    PROVE  Advances(t)
<1>1. \E new : job' = [job EXCEPT ![w] = new]
  <2>1. CASE WriterStep(w)
    BY <2>1, ZenonT(30) DEF WriterStep, TryAcquire, EnqueueFails, DryWrite, ResolveFails, CallGitHub, CallFails, Save, SaveFails,
                GiveUp, Finish, Reply, Goto
  <2>2. CASE HandlerStep(w, Policy)
    BY <2>2, ZenonT(30) DEF HandlerStep, ReadFails, FindByDecision, LookupCheckReport, Allow, Replan, ClientTimeout,
                ToWrite, Reply, Goto
  <2>3. CASE NextItem(w)
    BY <2>3 DEF NextItem
  <2> QED
    BY <2>1, <2>2, <2>3
<1> QED
  BY <1>1, OthersStay

\* Every step of the connector advances every client's request.
LEMMA ConnectorAdvances ==
    ASSUME ConnIInv, RecordedOK, ConnectorStep, NEW t \in Posters,
           job[t].pc \notin {"idle", "answered"} => job[t].code = 0
    PROVE  Advances(t)
<1>1. t \in Writers /\ t \notin Loops /\ Posters \subseteq Writers /\ Loops \subseteq Writers
  BY ConnConstants
<1>2. ASSUME NEW u \in Posters, HandlerStep(u, Policy) PROVE Advances(t)
  BY <1>1, <1>2, HandlerAdvances, OneWriter
<1>3. ASSUME NEW w \in Writers, WriterStep(w) PROVE Advances(t)
  BY <1>3, WriterAdvances, OneWriter
<1>4. CASE LoopStep
  <2>1. ASSUME NEW w \in Loops, NextItem(w) PROVE Advances(t)
    BY <1>1, <2>1, OneWriter
  <2>2. CASE UNCHANGED job
    BY <2>2 DEF Advances
  <2> QED
    BY <1>4, <2>1, <2>2 DEF LoopStep, SweepTick, DrainTick
<1>5. CASE ClockStep
  <2>1. UNCHANGED job
    BY <1>5 DEF ClockStep, Refill, RetryDue, HourTurns
  <2> QED
    BY <2>1 DEF Advances
<1>6. CASE ConnectorCrash
  <2>1. PICK sent : job' = [w \in Writers |-> IF job[w].pc = "idle" \/ w \in Loops THEN Idle
                                               ELSE IF w \in sent THEN job[w]
                                               ELSE [Idle EXCEPT !.pc = "answered", !.code = 504]]
    BY <1>6 DEF ConnectorCrash
  <2>2. PICK new : new = [Idle EXCEPT !.pc = "answered", !.code = 504]
    OBVIOUS
  <2>3. new.pc = "answered" /\ new.code = 504 /\ Idle.pc = "idle"
    BY <2>2 DEF Idle
  <2>4. job'[t] = Idle \/ job'[t] = job[t] \/ (job[t].pc # "idle" /\ job'[t] = new)
    BY <1>1, <2>1, <2>2
  <2> QED
    BY <2>3, <2>4 DEF Advances
<1> QED
  BY <1>2, <1>3, <1>4, <1>5, <1>6 DEF ConnectorStep

----------------------------------------------------------------------------

\* What relay steps leave of the outbox: rows keep their events, and what was
\* not published before is the row that a drainer marks.
RowsStay ==
    /\ Len(outbox') >= Len(outbox) /\ processed \subseteq processed'
    /\ \A i \in 1..Len(outbox) : outbox'[i].event = outbox[i].event
    /\ \A i \in 1..Len(outbox') : outbox'[i].status = "published" =>
          /\ i \in 1..Len(outbox)
          /\ \/ outbox[i].status = "published"
             \/ \E t \in Drainers : outcome[t] = "ok" /\ hand[t] # <<>> /\ i = Head(hand[t])
\* The drainers: what one holds and has been told.
HandStays(t) == hand'[t] = hand[t] /\ outcome'[t] = outcome[t]
HandMoves(t) ==
    \/ HandStays(t)
    \/ ~AtHandlers(t) /\ outcome'[t] = "none"
    \/ hand[t] = <<>> /\ outcome'[t] = outcome[t]
    \/ /\ AtHandlers(t) /\ ~IsDecision(Item(t)) /\ hand'[t] = hand[t]
       /\ outcome'[t] = "ok" /\ Type[Item(t)] = "validation.requested" => Item(t) \in processed'

\* What the relay invariant says of the outbox and the drainers.
LEMMA OutboxKnown ==
    ASSUME RelayIInv
    PROVE  /\ outbox \in Seq(OutboxRow) /\ Len(outbox) \in Nat
           /\ hand \in [Drainers -> Seq(Nat)] /\ outcome \in [Drainers -> Outcomes]
BY DEF RelayIInv, RowsOK, HandsOK

\* The outbox is left alone.
LEMMA SameOutbox ==
    ASSUME RelayIInv, UNCHANGED outbox, processed \subseteq processed'
    PROVE  RowsStay
BY OutboxKnown DEF RowsStay

\* A row is rewritten, and published only by who was told so.
LEMMA SetRowStays ==
    ASSUME RelayIInv, UNCHANGED processed, NEW i \in 1..Len(outbox), NEW status, NEW due, outbox' = SetRow(i, status, due),
           status = "published" => \E t \in Drainers : outcome[t] = "ok" /\ hand[t] # <<>> /\ i = Head(hand[t])
    PROVE  RowsStay
<1>0. PICK n \in Nat : n = Len(outbox) /\ outbox \in Seq(OutboxRow)
  BY OutboxKnown
<1>1. PICK r \in OutboxRow : r = outbox[i]
  BY <1>0
<1>2. PICK new : new = [r EXCEPT !.status = status, !.due = due]
  OBVIOUS
<1>3. new.status = status /\ new.event = r.event
  BY <1>2 DEF OutboxRow
<1>4. outbox' = [outbox EXCEPT ![i] = new]
  BY <1>1, <1>2 DEF SetRow
<1>5. Len(outbox') = n /\ outbox'[i] = new /\ \A k \in 1..n : k # i => outbox'[k] = outbox[k]
  BY <1>0, <1>4
<1> QED
  BY <1>0, <1>1, <1>3, <1>5 DEF RowsStay

\* The steps of the relay, as the requests see them.
LEMMA RelayRows ==
    ASSUME RelayIInv, RelayStep
    PROVE  RowsStay
<1>0. PICK n \in Nat : n = Len(outbox) /\ outbox \in Seq(OutboxRow)
  BY OutboxKnown
<1>1. CASE SomeTransaction
  <2>1. PICK N \in 1..MaxTx : \E evs \in [1..N -> Fresh] : AppendEvents(evs)
    BY <1>1 DEF SomeTransaction
  <2>2. PICK evs \in [1..N -> Fresh] : AppendEvents(evs)
    BY <2>1
  <2>3. N \in Nat /\ Len(evs) = N
    BY RelayConstants
  <2>4. PICK add : add = [i \in 1..Len(evs) |-> [event |-> evs[i], status |-> "pending", attempts |-> 0, due |-> TRUE]]
    OBVIOUS
  <2>5. PICK S : S = {[event |-> evs[i], status |-> "pending", attempts |-> 0, due |-> TRUE] : i \in 1..N}
    OBVIOUS
  <2>6. \A r \in S : r.status = "pending"
    BY <2>5
  <2>7. add \in [1..N -> S]
    BY <2>3, <2>4, <2>5
  <2>8. add \in Seq(OutboxRow \cup S) /\ outbox \in Seq(OutboxRow \cup S) /\ Len(add) = N /\ \A k \in 1..N : add[k].status = "pending"
    BY <1>0, <2>3, <2>6, <2>7
  <2>9. outbox' = outbox \o add /\ UNCHANGED processed
    BY <2>2, <2>4 DEF AppendEvents
  <2>10. /\ Len(outbox') = n + N /\ \A i \in 1..n : outbox'[i] = outbox[i]
         /\ \A i \in 1..(n + N) : i > n => outbox'[i] = add[i - n]
    <3>0. PICK T : T = OutboxRow \cup S
      OBVIOUS
    <3>1. PICK q \in Seq(T) : q = outbox /\ add \in Seq(T)
      BY <2>8, <3>0
    <3>2. /\ Len(q \o add) = Len(q) + Len(add)
          /\ \A i \in 1..(Len(q) + Len(add)) : (q \o add)[i] = IF i <= Len(q) THEN q[i] ELSE add[i - Len(q)]
      BY <3>1, ConcatProperties
    <3> QED
      BY <1>0, <2>3, <2>8, <2>9, <3>1, <3>2
  <2>11. ASSUME NEW i \in 1..(n + N), outbox'[i].status = "published" PROVE i \in 1..n
    <3> SUFFICES ASSUME i > n PROVE FALSE
      BY <1>0, <2>3
    <3>1. PICK k \in 1..N : k = i - n
      BY <1>0, <2>3, SMTT(30)
    <3> QED
      BY <2>8, <2>10, <2>11, <3>1
  <2>12. Len(outbox') >= Len(outbox)
    BY <1>0, <2>3, <2>10
  <2> QED
    BY <1>0, <2>9, <2>10, <2>11, <2>12 DEF RowsStay
<1>2. CASE VerifyRunOnce
  BY <1>2, SameOutbox DEF VerifyRunOnce, relayVars
<1>3. ASSUME NEW t \in Drainers, ClaimOutboxBatch(t) PROVE RowsStay
  <2>1. PICK rows : outbox' = [i \in 1..Len(outbox) |->
           IF i \in Range(rows) THEN [outbox[i] EXCEPT !.status = "delivering", !.attempts = @ + 1] ELSE outbox[i]]
    BY <1>3 DEF ClaimOutboxBatch
  <2>2. UNCHANGED processed
    BY <1>3 DEF ClaimOutboxBatch
  <2>3. DOMAIN outbox' = 1..n
    BY <1>0, <2>1
  <2>4. ASSUME NEW i \in 1..n
        PROVE  outbox'[i].event = outbox[i].event /\ (outbox'[i].status = "published" => outbox[i].status = "published")
    <3>1. PICK r \in OutboxRow : r = outbox[i]
      BY <1>0
    <3>2. PICK c : c = r.attempts + 1
      OBVIOUS
    <3>3. PICK new : new = [r EXCEPT !.status = "delivering", !.attempts = c]
      OBVIOUS
    <3>4. new.event = r.event /\ new.status = "delivering"
      BY <3>3 DEF OutboxRow
    <3>5. outbox'[i] = IF i \in Range(rows) THEN new ELSE r
      BY <1>0, <2>1, <3>1, <3>2, <3>3
    <3> QED
      BY <3>1, <3>4, <3>5
  <2>5. Len(outbox') = n
    <3>1. RelayIInv'
      BY <1>3, ClaimKeeps
    <3>2. outbox' \in Seq(OutboxRow)
      BY <3>1 DEF RelayIInv, RowsOK
    <3> QED
      BY <1>0, <2>3, <3>2
  <2> QED
    BY <1>0, <2>2, <2>4, <2>5 DEF RowsStay
<1>4. ASSUME NEW t \in Drainers, HandleLocally(t) \/ MarkErrors(t) PROVE RowsStay
  <2>1. UNCHANGED outbox /\ processed \subseteq processed'
    BY <1>4 DEF HandleLocally, MarkErrors
  <2> QED
    BY <2>1, SameOutbox
<1>5. ASSUME NEW t \in Drainers, MarkPublished(t) \/ MarkFailed(t) PROVE RowsStay
  <2>1. hand[t] # <<>> /\ UNCHANGED processed
    BY <1>5 DEF MarkPublished, MarkFailed, RelayIInv, HandsOK
  <2>2. PICK i \in 1..Len(outbox) : i = Head(hand[t])
    BY <2>1, HandHead
  <2>3. CASE MarkPublished(t)
    <3>1. outbox' = SetRow(i, "published", outbox[i].due) /\ outcome[t] = "ok"
      BY <2>2, <2>3 DEF MarkPublished
    <3> QED
      BY <2>1, <2>2, <3>1, SetRowStays
  <2>4. CASE MarkFailed(t)
    <3>1. outbox' = SetRow(i, IF outbox[i].attempts >= MaxAttempts THEN "failed" ELSE "pending", FALSE)
      BY <2>2, <2>4 DEF MarkFailed
    <3>2. CASE outbox[i].attempts >= MaxAttempts
      <4>1. outbox' = SetRow(i, "failed", FALSE)
        BY <3>1, <3>2
      <4> QED
        BY <2>1, <4>1, SetRowStays
    <3>3. CASE ~(outbox[i].attempts >= MaxAttempts)
      <4>1. outbox' = SetRow(i, "pending", FALSE)
        BY <3>1, <3>3
      <4> QED
        BY <2>1, <4>1, SetRowStays
    <3> QED
      BY <3>2, <3>3
  <2> QED
    BY <1>5, <2>3, <2>4
<1>6. ASSUME NEW i \in 1..Len(outbox), BackoffElapses(i) PROVE RowsStay
  <2>1. PICK r \in OutboxRow : r = outbox[i]
    BY <1>0
  <2>2. PICK new : new = [r EXCEPT !.due = TRUE]
    OBVIOUS
  <2>3. new.status = r.status /\ new.event = r.event
    BY <2>2 DEF OutboxRow
  <2>4. outbox' = [outbox EXCEPT ![i] = new] /\ UNCHANGED processed
    BY <1>6, <2>1, <2>2 DEF BackoffElapses
  <2>5. Len(outbox') = n /\ outbox'[i] = new /\ \A k \in 1..n : k # i => outbox'[k] = outbox[k]
    BY <1>0, <2>4
  <2> QED
    BY <1>0, <2>1, <2>3, <2>4, <2>5 DEF RowsStay
<1> QED
  BY <1>1, <1>2, <1>3, <1>4, <1>5, <1>6 DEF RelayStep

\* Each drainer, in a step of the relay.
LEMMA RelayHands ==
    ASSUME RelayIInv, RelayStep, NEW t \in Drainers
    PROVE  HandMoves(t)
<1>0. hand \in [Drainers -> Seq(Nat)] /\ outcome \in [Drainers -> Outcomes]
  BY OutboxKnown
<1>1. CASE UNCHANGED <<hand, outcome>>
  BY <1>1 DEF HandMoves, HandStays
<1>2. ASSUME NEW u \in Drainers, NEW a, NEW b, u # t, hand' = [hand EXCEPT ![u] = a], outcome' = [outcome EXCEPT ![u] = b]
      PROVE  HandMoves(t)
  BY <1>0, <1>2 DEF HandMoves, HandStays
<1>3. ASSUME NEW u \in Drainers, NEW a, u # t, hand' = [hand EXCEPT ![u] = a], UNCHANGED outcome
      PROVE  HandMoves(t)
  BY <1>0, <1>3 DEF HandMoves, HandStays
<1>4. ASSUME NEW u \in Drainers, NEW b, u # t, UNCHANGED hand, outcome' = [outcome EXCEPT ![u] = b]
      PROVE  HandMoves(t)
  BY <1>0, <1>4 DEF HandMoves, HandStays
<1>5. ASSUME NEW u \in Drainers, ClaimOutboxBatch(u) PROVE HandMoves(t)
  <2>1. \E rows : hand' = [hand EXCEPT ![u] = rows] /\ UNCHANGED outcome /\ hand[u] = <<>>
    BY <1>5 DEF ClaimOutboxBatch
  <2> QED
    BY <1>3, <2>1 DEF HandMoves
<1>6. ASSUME NEW u \in Drainers, HandleLocally(u) PROVE HandMoves(t)
  <2>1. CASE u # t
    BY <1>4, <1>6, <2>1 DEF HandleLocally
  <2>2. CASE u = t
    <3>1. AtHandlers(t) /\ ~IsDecision(Item(t)) /\ hand'[t] = hand[t]
      BY <1>6, <2>2 DEF HandleLocally, IsDecision
    <3>2. outcome'[t] = "ok" /\ Type[Item(t)] = "validation.requested" => Item(t) \in processed'
      BY <1>0, <1>6, <2>2 DEF HandleLocally
    <3> QED
      BY <3>1, <3>2 DEF HandMoves
  <2> QED
    BY <2>1, <2>2
<1>7. ASSUME NEW u \in Drainers, MarkPublished(u) \/ MarkFailed(u) \/ MarkErrors(u) PROVE HandMoves(t)
  <2>1. \E a : hand' = [hand EXCEPT ![u] = a] /\ outcome' = [outcome EXCEPT ![u] = "none"] /\ outcome[u] # "none"
    BY <1>7 DEF MarkPublished, MarkFailed, MarkErrors, Drop
  <2>2. CASE u # t
    BY <1>2, <2>1, <2>2
  <2>3. CASE u = t
    BY <1>0, <2>1, <2>3 DEF HandMoves, AtHandlers
  <2> QED
    BY <2>2, <2>3
<1> QED
  BY <1>1, <1>5, <1>6, <1>7
  DEF RelayStep, SomeTransaction, AppendEvents, VerifyRunOnce, relayVars, BackoffElapses

----------------------------------------------------------------------------

\* The item of a drainer stays what it is while it holds it.
LEMMA ItemStays ==
    ASSUME RelayIInv, RowsStay, NEW t \in Drainers, hand[t] # <<>>, hand'[t] = hand[t]
    PROVE  Item(t)' = Item(t)
<1>1. PICK i \in 1..Len(outbox) : i = Head(hand[t])
  BY HandHead
<1>2. outbox'[i].event = outbox[i].event
  BY DEF RowsStay
<1> QED
  BY <1>1, <1>2 DEF Item

\* An effect once there stays there.
LEMMA EffectStays ==
    ASSUME processed \subseteq processed', recorded \subseteq recorded', NEW e
    PROVE  (Settled(e) => Settled(e)') /\ (Effect(e) => Effect(e)')
BY DEF Settled, Effect, Valid, Envelope

\* A row is published after its effect: by whoever was told so.
LEMMA PublishedStays ==
    ASSUME RelayIInv, OutcomesOK, PublishedWasRecorded, RowsStay, recorded \subseteq recorded'
    PROVE  PublishedWasRecorded'
<1> SUFFICES ASSUME NEW i \in 1..Len(outbox'), outbox'[i].status = "published"
             PROVE  Effect(outbox[i].event)'
  BY DEF PublishedWasRecorded, Effect, Settled, Valid, Envelope, IsDecision
<1>1. i \in 1..Len(outbox)
  BY DEF RowsStay
<1>2. PICK e : e = outbox[i].event /\ e = outbox'[i].event
  BY <1>1 DEF RowsStay
<1>3. Effect(e)
  <2>1. CASE outbox[i].status = "published"
    BY <1>1, <1>2, <2>1 DEF PublishedWasRecorded, Effect, Settled
  <2>2. CASE outbox[i].status # "published"
    <3>1. PICK t \in Drainers : outcome[t] = "ok" /\ hand[t] # <<>> /\ i = Head(hand[t])
      BY <2>2 DEF RowsStay
    <3> QED
      BY <1>2, <3>1 DEF OutcomesOK, Item
  <2> QED
    BY <2>1, <2>2
<1>4. Effect(e)'
  BY <1>3, EffectStays DEF RowsStay
<1> QED
  BY <1>2, <1>4 DEF Effect, Settled, Valid, Envelope, IsDecision

\* Decisions are recorded as the tracker comes to hold them.
Records == recorded' = recorded \cup ({rec'[v].dec : v \in Revs} \ {"-"})

\* What was recorded stays recorded.
LEMMA RecordsStay ==
    ASSUME Records
    PROVE  RecordedOK' /\ recorded \subseteq recorded'
           /\ \A v \in Revs : rec'[v].dec # "-" => rec'[v].dec \in recorded'
BY DEF Records, RecordedOK

\* A step of the relay.
LEMMA PubRelayStep ==
    ASSUME PubIInv, RelayStep, UNCHANGED connVars, Records
    PROVE  PubIInv'
<1>1. RelayIInv' /\ ConnIInv'
  BY RelayStepInv, IdleKeeps DEF PubIInv
<1>2. RowsStay /\ RecordedOK' /\ recorded \subseteq recorded' /\ processed \subseteq processed'
  BY RelayRows, RecordsStay DEF PubIInv, RowsStay
<1>3. PublishedWasRecorded'
  BY <1>2, PublishedStays DEF PubIInv, PubOK
<1>4. ASSUME NEW t \in Drainers, job[t].pc # "idle" PROVE RequestOK(t, job[t])'
  <2>1. RequestOK(t, job[t]) /\ AtHandlers(t) /\ IsDecision(Item(t)) /\ hand[t] # <<>> /\ UNCHANGED job
    BY <1>4 DEF PubIInv, PubOK, RequestsOK, RequestOK, AtHandlers, connVars
  <2>2. hand'[t] = hand[t] /\ outcome'[t] = outcome[t]
    BY <2>1, RelayHands DEF PubIInv, HandMoves, HandStays
  <2>3. PICK e : e = Item(t) /\ e = Item(t)'
    BY <1>2, <2>1, <2>2, ItemStays DEF PubIInv
  <2>4. AtHandlers(t)'
    BY <2>1, <2>2 DEF AtHandlers
  <2>5. Settled(e) => Settled(e)'
    BY <1>2, EffectStays
  <2> QED
    BY <2>1, <2>3, <2>4, <2>5 DEF RequestOK, IsDecision, Settled, Valid, Envelope
<1>5. RequestsOK'
  <2>1. UNCHANGED job
    BY DEF connVars
  <2>2. ASSUME NEW t \in Drainers, job[t].pc = "idle" PROVE RequestOK(t, job[t])'
    BY <2>1, <2>2 DEF RequestOK
  <2> QED
    BY <1>4, <2>2 DEF RequestsOK
<1>6. ASSUME NEW t \in Drainers, outcome'[t] = "ok" PROVE Effect(Item(t))'
  <2>1. CASE HandStays(t)
    <3>1. hand[t] # <<>> /\ Effect(Item(t))
      BY <1>6, <2>1 DEF PubIInv, PubOK, OutcomesOK, HandStays, RelayIInv, HandsOK
    <3>2. PICK e : e = Item(t) /\ e = Item(t)'
      BY <1>2, <2>1, <3>1, ItemStays DEF PubIInv, HandStays
    <3>3. Effect(e)'
      BY <1>2, <3>1, <3>2, EffectStays
    <3> QED
      BY <3>2, <3>3 DEF Effect, Settled, Valid, Envelope, IsDecision
  <2>2. CASE hand[t] = <<>> /\ outcome'[t] = outcome[t]
    BY <1>6, <2>2 DEF PubIInv, RelayIInv, HandsOK
  <2>3. CASE /\ AtHandlers(t) /\ ~IsDecision(Item(t)) /\ hand'[t] = hand[t]
             /\ outcome'[t] = "ok" /\ Type[Item(t)] = "validation.requested" => Item(t) \in processed'
    <3>1. PICK e : e = Item(t) /\ e = Item(t)'
      BY <1>2, <2>3, ItemStays DEF PubIInv, AtHandlers
    <3>2. ~IsDecision(e) /\ (Type[e] = "validation.requested" => e \in processed')
      BY <1>6, <2>3, <3>1
    <3> QED
      BY <3>1, <3>2 DEF Effect, IsDecision
  <2>4. HandMoves(t)
    BY RelayHands DEF PubIInv
  <2> QED
    BY <1>6, <2>1, <2>2, <2>3, <2>4 DEF HandMoves
<1>7. OutcomesOK'
  BY <1>6 DEF OutcomesOK
<1> QED
  BY <1>1, <1>2, <1>3, <1>5, <1>7 DEF PubIInv, PubOK

\* Nothing new is published while the outbox is left alone.
LEMMA SameRows ==
    ASSUME PubIInv, UNCHANGED <<outbox, processed>>, Records
    PROVE  RowsStay /\ RecordedOK' /\ recorded \subseteq recorded' /\ PublishedWasRecorded'
<1>1. RowsStay
  BY SameOutbox DEF PubIInv
<1>2. RecordedOK' /\ recorded \subseteq recorded'
  BY RecordsStay
<1> QED
  BY <1>1, <1>2, PublishedStays DEF PubIInv, PubOK

\* A drainer that keeps what it holds keeps what it was told of it.
LEMMA OutcomeStays ==
    ASSUME PubIInv, RowsStay, recorded \subseteq recorded', NEW t \in Drainers, HandStays(t), outcome'[t] = "ok"
    PROVE  Effect(Item(t))'
<1>1. hand[t] # <<>> /\ Effect(Item(t)) /\ hand'[t] = hand[t]
  BY DEF PubIInv, PubOK, OutcomesOK, HandStays, RelayIInv, HandsOK
<1>2. PICK e : e = Item(t) /\ e = Item(t)'
  BY <1>1, ItemStays DEF PubIInv
<1>3. Effect(e)'
  BY <1>1, <1>2, EffectStays DEF RowsStay
<1> QED
  BY <1>2, <1>3 DEF Effect, Settled, Valid, Envelope, IsDecision

\* A request that is where it was stays right.
LEMMA RequestStays ==
    ASSUME PubIInv, RowsStay, recorded \subseteq recorded', NEW t \in Drainers, HandStays(t), job'[t] = job[t]
    PROVE  RequestOK(t, job[t])'
<1>1. PICK j : j = job[t] /\ j = job'[t] /\ RequestOK(t, j)
  BY DEF PubIInv, PubOK, RequestsOK
<1>2. CASE j.pc = "idle"
  BY <1>1, <1>2 DEF RequestOK
<1>3. CASE j.pc # "idle"
  <2>1. AtHandlers(t) /\ IsDecision(Item(t)) /\ hand[t] # <<>>
    BY <1>1, <1>3 DEF RequestOK, AtHandlers
  <2>2. PICK e : e = Item(t) /\ e = Item(t)'
    BY <2>1, ItemStays DEF PubIInv, HandStays
  <2>3. AtHandlers(t)'
    BY <2>1 DEF AtHandlers, HandStays
  <2>4. Settled(e) => Settled(e)'
    BY EffectStays DEF RowsStay
  <2> QED
    BY <1>1, <2>1, <2>2, <2>3, <2>4 DEF RequestOK, IsDecision, Settled, Valid, Envelope
<1> QED
  BY <1>2, <1>3

\* A step of the connector: requests move along, and a decision is answered
\* below 500 only when its record is there.
LEMMA PubConnectorStep ==
    ASSUME PubIInv, ConnectorStep, UNCHANGED <<ledgerVars, relayVars>>, Records
    PROVE  PubIInv'
<1>1. RelayIInv' /\ ConnIInv'
  BY RelayIdle, ConnStepInv DEF PubIInv
<1>2. RowsStay /\ RecordedOK' /\ recorded \subseteq recorded' /\ PublishedWasRecorded'
  BY SameRows DEF relayVars
<1>3. \A t \in Drainers : HandStays(t)
  BY DEF relayVars, HandStays
<1>4. OutcomesOK'
  BY <1>2, <1>3, OutcomeStays DEF OutcomesOK
<1>5. ASSUME NEW t \in Drainers PROVE RequestOK(t, job[t])'
  <2>1. PICK j : j = job[t] /\ RequestOK(t, j)
    BY DEF PubIInv, PubOK, RequestsOK
  <2>2. t \in Posters /\ HandStays(t)
    BY <1>3, PublishingConstants
  <2>3. Advances(t)
    <3>1. j.pc \notin {"idle", "answered"} => j.code = 0
      BY <2>1 DEF RequestOK
    <3> QED
      BY <2>1, <2>2, <3>1, ConnectorAdvances DEF PubIInv, PubOK
  <2>4. PICK k : k = job'[t]
    OBVIOUS
  <2>5. CASE k = j
    BY <1>2, <2>1, <2>2, <2>4, <2>5, RequestStays
  <2>6. CASE k.pc = "idle"
    BY <2>4, <2>6 DEF RequestOK
  <2>7. CASE j.pc # "idle" /\ k.pc # "idle" /\ k # j
    <3>1. AtHandlers(t) /\ IsDecision(Item(t)) /\ hand[t] # <<>>
      BY <2>1, <2>7 DEF RequestOK, AtHandlers
    <3>2. PICK e : e = Item(t) /\ e = Item(t)'
      BY <1>2, <2>2, <3>1, ItemStays DEF PubIInv, HandStays
    <3>3. AtHandlers(t)'
      BY <2>2, <3>1 DEF AtHandlers, HandStays
    <3>4. Settled(e) => Settled(e)'
      BY <1>2, EffectStays DEF RowsStay
    <3>5. CASE k.pc # "answered"
      <4>1. j.pc # "answered" /\ k.kind = j.kind /\ k.id = j.id /\ k.code = j.code
        BY <2>1, <2>3, <2>4, <2>7, <3>5 DEF Advances
      <4>2. k.kind = "decision" /\ k.id = e /\ k.code = 0
        BY <2>1, <2>7, <3>2, <4>1 DEF RequestOK
      <4> QED
        BY <2>4, <3>1, <3>2, <3>3, <3>5, <4>2 DEF RequestOK, IsDecision
    <3>6. CASE k.pc = "answered" /\ k.code < 500
      <4>0. ~(k.code >= 500)
        <5>1. t \in Writers
          BY <2>2, ConnConstants
        <5>2. k \in JobT
          BY <1>1, <2>4, <5>1 DEF ConnIInv, ConnTypeOK
        <5>3. k.code \in Codes
          BY <5>2 DEF JobT
        <5> QED
          BY <3>6, <5>3 DEF Codes
      <4>1. Settled(e)'
        <5>1. CASE j.pc = "answered" /\ k.code = j.code
          BY <2>1, <2>7, <3>2, <3>4, <3>6, <5>1 DEF RequestOK
        <5>2. CASE j.pc # "answered"
          <6>1. j.kind = "decision" /\ j.id = e
            BY <2>1, <2>7, <3>2, <5>2 DEF RequestOK
          <6>3. e # "-" /\ \E v \in Revs : rec'[v].dec = e
            BY <2>1, <2>3, <2>4, <2>7, <3>6, <4>0, <5>2, <6>1 DEF Advances
          <6>4. e \in recorded'
            BY <6>3, RecordsStay
          <6> QED
            BY <6>4 DEF Settled
        <5>3. \/ j.pc = "answered" /\ k.code = j.code
              \/ j.pc # "answered"
              \/ k.code >= 500
          BY <2>1, <2>3, <2>4, <2>7, <3>6 DEF Advances
        <5> QED
          BY <4>0, <5>1, <5>2, <5>3
      <4> QED
        BY <2>4, <3>1, <3>2, <3>3, <3>6, <4>1 DEF RequestOK, IsDecision, Settled, Valid, Envelope
    <3>7. CASE k.pc = "answered" /\ ~(k.code < 500)
      BY <2>4, <3>1, <3>2, <3>3, <3>7 DEF RequestOK, IsDecision
    <3> QED
      BY <3>5, <3>6, <3>7
  <2>8. j.pc = "idle" => k = j \/ k.pc = "idle"
    BY <2>1, <2>3, <2>4 DEF Advances
  <2> QED
    BY <2>5, <2>6, <2>7, <2>8
<1>6. RequestsOK'
  BY <1>5 DEF RequestsOK
<1> QED
  BY <1>1, <1>2, <1>4, <1>6 DEF PubIInv, PubOK

----------------------------------------------------------------------------

\* A drainer that holds a row holds a known event; a decision makes an envelope.
LEMMA ItemKnown ==
    ASSUME PubIInv, NEW t \in Drainers, AtHandlers(t), IsDecision(Item(t))
    PROVE  Item(t) \in Events /\ Envelope(Item(t)) \in Envelopes
<1>1. Item(t) \in Events
  BY HandHead DEF PubIInv, AtHandlers
<1> QED
  BY <1>1, PublishingConstants

\* The decision is posted: refused at once, or on its way.
LEMMA PostKeeps ==
    ASSUME PubIInv, NEW t \in Drainers, PostDecision(t), Records
    PROVE  PubIInv'
<1>1. PICK e : e = Item(t) /\ IsDecision(e) /\ Envelope(e) \in Envelopes
  BY ItemKnown DEF PostDecision
<1>2. AtHandlers(t) /\ hand[t] # <<>> /\ Receive(t, Envelope(e)) /\ UNCHANGED <<ledgerVars, relayVars>>
  BY <1>1 DEF PostDecision, AtHandlers
<1>3. RelayIInv' /\ ConnIInv'
  BY <1>1, <1>2, RelayIdle, ReceiveKeeps, PublishingConstants DEF PubIInv
<1>4. RowsStay /\ RecordedOK' /\ recorded \subseteq recorded' /\ PublishedWasRecorded'
  BY <1>2, SameRows DEF relayVars
<1>5. \A u \in Drainers : HandStays(u)
  BY <1>2 DEF relayVars, HandStays
<1>6. OutcomesOK'
  BY <1>4, <1>5, OutcomeStays DEF OutcomesOK
<1>7. job \in [Writers -> JobT] /\ Drainers \subseteq Writers
  BY ConnConstants, PublishingConstants DEF PubIInv, ConnIInv, ConnTypeOK
<1>8. PICK env : env = Envelope(e) /\ env.kind = "decision" /\ env.id = e
  <2>1. Envelope(e).kind = "decision" /\ Envelope(e).id = e
    BY DEF Envelope
  <2> QED
    BY <2>1
<1>9. \E new : /\ job' = [job EXCEPT ![t] = new]
               /\ \/ new.pc = "answered" /\ ~Valid(env)
                  \/ new.pc = "find" /\ new.kind = "decision" /\ new.id = e /\ new.code = 0
  <2>1. CASE ~Valid(env) /\ Reply(t, 400)
    <3> DEFINE new == [Idle EXCEPT !.pc = "answered", !.code = 400]
    <3>1. job' = [job EXCEPT ![t] = new]
      BY <2>1 DEF Reply
    <3>2. new.pc = "answered"
      BY DEF Idle
    <3> HIDE DEF new
    <3> QED
      BY <2>1, <3>1, <3>2
  <2>2. CASE job' = [job EXCEPT ![t] = [Idle EXCEPT !.pc = "find", !.kind = env.kind, !.rev = env.rev, !.id = env.id]]
    <3> DEFINE new == [Idle EXCEPT !.pc = "find", !.kind = env.kind, !.rev = env.rev, !.id = env.id]
    <3>1. new.pc = "find" /\ new.kind = env.kind /\ new.id = env.id /\ new.code = 0
      BY DEF Idle
    <3> HIDE DEF new
    <3> QED
      BY <1>8, <2>2, <3>1 DEF new
  <2> QED
    BY <1>2, <1>8, <2>1, <2>2 DEF Receive
<1>10. PICK new : /\ job' = [job EXCEPT ![t] = new]
                  /\ \/ new.pc = "answered" /\ ~Valid(env)
                     \/ new.pc = "find" /\ new.kind = "decision" /\ new.id = e /\ new.code = 0
  BY <1>9
<1>11. RequestOK(t, job[t])'
  <2>1. job'[t] = new
    BY <1>7, <1>10
  <2>2. Item(t)' = e /\ AtHandlers(t)'
    BY <1>1, <1>2, <1>4, <1>5, ItemStays DEF PubIInv, HandStays, AtHandlers
  <2>3. RequestOK(t, new)'
    BY <1>1, <1>8, <1>10, <2>2 DEF RequestOK, IsDecision, Settled, Valid, Envelope
  <2> QED
    BY <2>1, <2>3 DEF RequestOK
<1>12. ASSUME NEW u \in Drainers, u # t PROVE RequestOK(u, job[u])'
  <2>1. job'[u] = job[u]
    BY <1>7, <1>10, <1>12
  <2> QED
    BY <1>4, <1>5, <2>1, RequestStays
<1>13. RequestsOK'
  BY <1>11, <1>12 DEF RequestsOK
<1> QED
  BY <1>3, <1>4, <1>6, <1>13 DEF PubIInv, PubOK

\* The handler of decision.rendered returns to drainer t: with an error, or
\* when the decision is settled; the request, if there was one, is over.
LEMMA ReturnKeeps ==
    ASSUME PubIInv, NEW t \in Drainers, AtHandlers(t), NEW said \in {"ok", "error"}, HandlerReturns(t, said),
           UNCHANGED <<ledgerVars, outbox, processed, hand>>, Records, ConnIInv',
           said = "ok" => IsDecision(Item(t)) /\ Settled(Item(t)),
           job'[t].pc = "idle", \A u \in Drainers : u # t => job'[u] = job[u]
    PROVE  PubIInv'
<1>1. RelayIInv'
  <2>1. processed' \subseteq Events
    BY DEF PubIInv, RelayIInv, HandsOK
  <2> QED
    BY <2>1, AnswerKeeps DEF PubIInv, HandlerReturns
<1>2. RowsStay /\ RecordedOK' /\ recorded \subseteq recorded' /\ PublishedWasRecorded'
  BY SameRows
<1>3. outcome \in [Drainers -> Outcomes] /\ hand[t] # <<>>
  BY OutboxKnown DEF PubIInv, AtHandlers
<1>4. ASSUME NEW u \in Drainers, u # t PROVE HandStays(u)
  BY <1>3, <1>4 DEF HandStays, HandlerReturns
<1>5. RequestsOK'
  <2>1. RequestOK(t, job[t])'
    BY DEF RequestOK
  <2> QED
    BY <1>2, <1>4, <2>1, RequestStays DEF RequestsOK
<1>6. OutcomesOK'
  <2>1. ASSUME said = "ok" PROVE Effect(Item(t))'
    <3>1. PICK e : e = Item(t) /\ e = Item(t)'
      BY <1>2, <1>3, ItemStays DEF PubIInv
    <3>2. Effect(e)
      BY <2>1, <3>1 DEF Effect, IsDecision
    <3>3. Effect(e)'
      BY <1>2, <3>2, EffectStays DEF RowsStay
    <3> QED
      BY <3>1, <3>3 DEF Effect, Settled, Valid, Envelope, IsDecision
  <2>2. outcome'[t] = said
    BY <1>3 DEF HandlerReturns
  <2>3. ASSUME NEW u \in Drainers, outcome'[u] = "ok" PROVE Effect(Item(u))'
    <3>1. CASE u = t
      BY <2>1, <2>2, <2>3, <3>1
    <3>2. CASE u # t
      BY <1>2, <1>4, <2>3, <3>2, OutcomeStays
    <3> QED
      BY <3>1, <3>2
  <2> QED
    BY <2>3 DEF OutcomesOK
<1> QED
  BY <1>1, <1>2, <1>5, <1>6 DEF PubIInv, PubOK

\* The answer is taken, or the reads before the post fail.
LEMMA DrainerKeeps ==
    ASSUME PubIInv, NEW t \in Drainers, ReadsFail(t) \/ TakeAnswer(t), Records
    PROVE  PubIInv'
<1>1. job \in [Writers -> JobT] /\ Drainers \subseteq Writers
  BY ConnConstants, PublishingConstants DEF PubIInv, ConnIInv, ConnTypeOK
<1>2. CASE ReadsFail(t)
  <2>1. AtHandlers(t) /\ HandlerReturns(t, "error") /\ UNCHANGED connVars /\ job[t].pc = "idle"
    BY <1>2 DEF ReadsFail, At
  <2>2. UNCHANGED <<ledgerVars, outbox, processed, hand>> /\ UNCHANGED job
    BY <1>2 DEF ReadsFail, connVars
  <2>3. ConnIInv'
    BY <2>1, IdleKeeps DEF PubIInv
  <2> QED
    BY <2>1, <2>2, <2>3, ReturnKeeps
<1>3. CASE TakeAnswer(t)
  <2>1. PICK j : j = job[t] /\ j.pc = "answered" /\ RequestOK(t, j)
    BY <1>3 DEF TakeAnswer, At, PubIInv, PubOK, RequestsOK
  <2>2. PICK said : said = OutcomeOf(j.code) /\ HandlerReturns(t, said)
    BY <1>3, <2>1 DEF TakeAnswer
  <2>3. UNCHANGED <<ledgerVars, outbox, processed, hand>> /\ Leave({t})
    BY <1>3 DEF TakeAnswer
  <2>4. ConnIInv'
    BY <2>3, LeaveKeeps, PublishingConstants DEF PubIInv
  <2>5. job'[t].pc = "idle" /\ \A u \in Drainers : u # t => job'[u] = job[u]
    BY <1>1, <2>3, ConnConstants DEF Leave
  <2>6. j.code \in Codes
    BY <1>1, <2>1 DEF JobT
  <2>7. said \in {"ok", "error"} /\ (said = "ok" => j.code < 500)
    BY <2>2, <2>6 DEF OutcomeOf, Codes
  <2>8. AtHandlers(t) /\ (said = "ok" => IsDecision(Item(t)) /\ Settled(Item(t)))
    BY <2>1, <2>7 DEF RequestOK
  <2> QED
    BY <2>2, <2>3, <2>4, <2>5, <2>7, <2>8, ReturnKeeps
<1> QED
  BY <1>2, <1>3

\* The control-plane dies: no drainer holds anything or waits for an answer.
LEMMA PubCrashKeeps ==
    ASSUME PubIInv, ControlPlaneCrash, Records
    PROVE  PubIInv'
<1>1. RelayCrash /\ Leave(Drainers) /\ Drainers \in SUBSET Posters /\ Drainers \subseteq Writers
  BY ConnConstants, PublishingConstants DEF ControlPlaneCrash
<1>2. RelayIInv' /\ ConnIInv'
  BY <1>1, RelayCrashKeeps, LeaveKeeps DEF PubIInv
<1>3. RowsStay /\ RecordedOK' /\ recorded \subseteq recorded' /\ PublishedWasRecorded'
  BY <1>1, SameRows DEF RelayCrash
<1>4. RequestsOK'
  <2>1. \A t \in Drainers : job'[t].pc = "idle"
    BY <1>1, ConnConstants DEF Leave
  <2> QED
    BY <2>1 DEF RequestsOK, RequestOK
<1>5. OutcomesOK'
  BY <1>1 DEF RelayCrash, OutcomesOK
<1> QED
  BY <1>2, <1>3, <1>4, <1>5 DEF PubIInv, PubOK

\* Nothing happens.
LEMMA PubIdle ==
    ASSUME PubIInv, UNCHANGED pubVars
    PROVE  PubIInv'
<1>1. UNCHANGED <<ledgerVars, relayVars>> /\ UNCHANGED connVars /\ UNCHANGED recorded
  BY DEF pubVars
<1>2. RelayIInv' /\ ConnIInv'
  BY <1>1, RelayIdle, IdleKeeps DEF PubIInv
<1>3. UNCHANGED <<outbox, processed, hand, outcome>> /\ UNCHANGED <<job, rec>>
  BY <1>1 DEF relayVars, connVars
<1>4. RecordedOK' /\ PublishedWasRecorded'
  BY <1>1, <1>3 DEF PubIInv, PubOK, RecordedOK, PublishedWasRecorded, IsDecision, Valid, Envelope
<1>5. RowsStay /\ \A t \in Drainers : HandStays(t) /\ job'[t] = job[t]
  BY <1>3, SameOutbox DEF HandStays, PubIInv
<1>6. RequestsOK' /\ OutcomesOK'
  BY <1>1, <1>5, RequestStays, OutcomeStays DEF RequestsOK, OutcomesOK
<1> QED
  BY <1>2, <1>4, <1>6 DEF PubIInv, PubOK

\* At the start no process has anything in hand.
LEMMA PubInitInv == PubInit => PubIInv
<1> SUFFICES ASSUME PubInit PROVE PubIInv
  OBVIOUS
<1>1. RelayIInv /\ ConnIInv
  BY RelayInitInv, ConnInitInv DEF PubInit
<1>2. RequestsOK /\ RecordedOK
  BY ConnConstants, PublishingConstants DEF PubInit, ConnectorInit, RequestsOK, RequestOK, RecordedOK
<1>3. OutcomesOK /\ PublishedWasRecorded
  BY DEF PubInit, RelayInit, OutcomesOK, PublishedWasRecorded
<1> QED
  BY <1>1, <1>2, <1>3 DEF PubIInv, PubOK

\* The invariant of relay, connector and the requests between them.
THEOREM PublishingInvariant == PubSpec => []PubIInv
<1>1. PubInit => PubIInv
  BY PubInitInv
<1>2. ASSUME PubIInv, PubNext PROVE PubIInv'
  <2>1. Records
    BY <1>2 DEF PubNext, Records
  <2> QED
    BY <1>2, <2>1, PubRelayStep, PubConnectorStep, PostKeeps, DrainerKeeps, PubCrashKeeps
    DEF PubNext, CrossStep, DrainerStep
<1>3. PubIInv /\ [PubNext]_pubVars => PubIInv'
  BY <1>2, PubIdle
<1> QED
  BY <1>1, <1>3, PTL DEF PubSpec

\* The relay marks a decision published only once the connector has recorded
\* it or refused it for good (drainOnce, ConsumeRendered, serveDecision).
THEOREM PublishingRecorded == PubSpec => []PublishedWasRecorded
<1>1. PubIInv => PublishedWasRecorded
  BY DEF PubIInv, PubOK
<1> QED
  BY <1>1, PublishingInvariant, PTL

\* The composition is a relay: its handler of decision.rendered, a connector
\* that may crash or time out, answers what some handler might.
THEOREM PublishingRelay == PubSpec => RelaySpec
<1>1. PubInit => RelayInit
  BY DEF PubInit
<1>2. ASSUME PubIInv, PubNext
      PROVE  [RelayStep \/ SomeAnswer \/ RelayCrash]_<<ledgerVars, relayVars>>
  <2>1. ASSUME NEW t \in Drainers, DrainerStep(t)
        PROVE  SomeAnswer \/ UNCHANGED <<ledgerVars, relayVars>>
    <3>1. CASE PostDecision(t)
      BY <3>1 DEF PostDecision
    <3>2. CASE ReadsFail(t)
      BY <3>2 DEF ReadsFail, SomeAnswer
    <3>3. CASE TakeAnswer(t)
      <4>1. AtHandlers(t)
        BY <1>2, <3>3 DEF TakeAnswer, At, PubIInv, PubOK, RequestsOK, RequestOK
      <4>2. PICK said \in {"ok", "error"} : said = OutcomeOf(job[t].code)
        BY DEF OutcomeOf
      <4> QED
        BY <3>3, <4>1, <4>2 DEF TakeAnswer, SomeAnswer
    <3> QED
      BY <2>1, <3>1, <3>2, <3>3 DEF DrainerStep
  <2> QED
    BY <1>2, <2>1 DEF PubNext, CrossStep, ControlPlaneCrash
<1>3. PubIInv /\ [PubNext]_pubVars => [RelayStep \/ SomeAnswer \/ RelayCrash]_<<ledgerVars, relayVars>>
  BY <1>2 DEF pubVars
<1> QED
  BY <1>1, <1>3, PublishingInvariant, PTL DEF PubSpec, RelaySpec

\* And a connector: a relay that crashes, retries and redelivers is some
\* client.
THEOREM PublishingConnector == PubSpec => ConnectorSpec
<1>1. PubInit => ConnectorInit
  BY DEF PubInit
<1>2. ASSUME PubIInv, PubNext PROVE [ConnectorStep \/ ClientStep]_connVars
  <2>1. ASSUME NEW t \in Drainers, DrainerStep(t) PROVE ClientStep \/ UNCHANGED connVars
    <3>1. CASE PostDecision(t)
      <4>1. Envelope(Item(t)) \in Envelopes /\ Receive(t, Envelope(Item(t)))
        BY <1>2, <3>1, ItemKnown DEF PostDecision
      <4> QED
        BY <4>1, PublishingConstants DEF ClientStep
    <3>2. CASE ReadsFail(t)
      BY <3>2 DEF ReadsFail
    <3>3. CASE TakeAnswer(t)
      BY <3>3, PublishingConstants DEF TakeAnswer, ClientStep
    <3> QED
      BY <2>1, <3>1, <3>2, <3>3 DEF DrainerStep
  <2>2. ASSUME ControlPlaneCrash PROVE ClientStep
    BY <2>2, PublishingConstants DEF ControlPlaneCrash, ClientStep
  <2> QED
    BY <1>2, <2>1, <2>2 DEF PubNext, CrossStep
<1>3. PubIInv /\ [PubNext]_pubVars => [ConnectorStep \/ ClientStep]_connVars
  BY <1>2 DEF pubVars
<1> QED
  BY <1>1, <1>3, PublishingInvariant, PTL DEF PubSpec, ConnectorSpec

\* So what is proved of relay and connector alone holds of their composition:
\* the ledger verifies, no row is claimed twice, and every completed check
\* shows its decision's conclusion or neutral.
THEOREM PublishingParts == PubSpec => [](LedgerSound /\ NoDoubleClaim /\ RunIdsReal /\ ConclusionJustified)
BY PublishingRelay, PublishingConnector, RelayLedger, RelayClaims, ConnectorRunIds, ConnectorConclusions, PTL
=============================================================================
