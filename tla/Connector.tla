------------------------------ MODULE Connector ------------------------------
(***************************************************************************)
(* The github-connector (services/github-connector): the door that takes   *)
(* decision, lifecycle and rerun envelopes, the write gate of one          *)
(* installation, the queue of writes the gate deferred and its drainer,    *)
(* the tracker of one check run per candidate revision, the sweeper of     *)
(* stalled checks, and the rerun guardrails.                               *)
(*                                                                         *)
(* Every write to GitHub passes through one pipeline (acquire, call, save) *)
(* that handlers, sweeper and drainer share.  A handler runs on the thread *)
(* of the client that posted; "timeout" is that client hanging up, which   *)
(* cancels the handler's context.  Tracker and queue are the PG-backed     *)
(* ones; token bucket, rerun budget and seen keys live in memory.  No      *)
(* candidate ever changes its head, so a revision stands for its candidate *)
(* where the code keys by candidate_id.                                    *)
(***************************************************************************)
EXTENDS Naturals, Sequences, FiniteSets, SequencesExt

CONSTANTS
    Revs,        \* candidate revisions (candidate_id, head_sha)
    Envelopes,   \* what clients may post: [kind, rev, id]
    Verb,        \* Verb[d]: the verb of decision d
    Posters,     \* client threads
    Cap,         \* token bucket of the installation (300)
    Attempts,    \* attempts of the gate (3)
    DueLimit,    \* queued writes one drain pass takes (25)
    MaxPerCandidate, RatePerHour, \* rerun guardrails
    Policy,      \* rerun policy of the deployment: "replan" or "replay_cached"
    MaxFaults    \* bound: errors, timeouts and crashes of a behaviour

ASSUME ConnectorConstants ==
    /\ {Cap, Attempts, DueLimit} \subseteq Nat \ {0}
    /\ {MaxPerCandidate, RatePerHour, MaxFaults} \subseteq Nat
    /\ Policy \in {"replan", "replay_cached"}
    /\ \A e \in Envelopes : e.rev \in Revs /\ e.id # "-"
    /\ IsFiniteSet(Revs) /\ IsFiniteSet(Posters) /\ Posters # {}
    /\ {"sweeper", "drainer"} \cap Posters = {}

VARIABLES
    rec,     \* ghconn.revision_tracking
    pending, \* ghconn.pending_writes not delivered, in order of creation
    github,  \* check runs of GitHub whose id came back; the id is the position
    strays,  \* revisions with a check run whose id nobody learnt
    tokens,  \* the bucket of the installation
    seen, spent, hourly, \* rerun keys; reruns per candidate; in this hour
    job,     \* job[w]: what writer w is doing
    todo,    \* todo[w]: what sweeper and drainer fetched and still have to do
    faults   \* faults so far

connVars == <<rec, pending, github, strays, tokens, seen, spent, hourly, job, todo, faults>>
memory == <<tokens, seen, spent, hourly>>
rerunVars == <<seen, spent, hourly>>

Loops == {"sweeper", "drainer"}
Writers == Posters \cup Loops

Open == {"queued", "in_progress"}
NoRec == [run |-> 0, phase |-> "none", concl |-> "-", dec |-> "-", last |-> "-"]
Untracked == NoRec.phase
NoWrite == [status |-> "-", concl |-> "-"]
Idle == [pc |-> "idle", kind |-> "-", rev |-> "-", id |-> "-", snap |-> NoRec,
         write |-> NoWrite, run |-> 0, tries |-> 0, code |-> 0]

At(w, pc) == job[w].pc = pc
Goto(w, pc) == job' = [job EXCEPT ![w].pc = pc]
Reply(t, code) == job' = [job EXCEPT ![t] = [Idle EXCEPT !.pc = "answered", !.code = code]]
Fault == faults < MaxFaults /\ faults' = faults + 1

----------------------------------------------------------------------------
(***************************************************************************)
(* Rendering                                                               *)
(***************************************************************************)

ConclusionForVerb(verb) == CASE verb = "eligible_for_merge_train" -> "success"
                             [] verb = "rejected" -> "failure"
                             [] verb = "deferred" -> "neutral"

RenderDecision(d) == [status |-> "completed", concl |-> ConclusionForVerb(Verb[d])]
RenderCached(d) == RenderDecision(d)
RenderLifecycle(phase) == [status |-> phase, concl |-> "-"]
RenderStalled == [status |-> "completed", concl |-> "neutral"]
RenderRerunDeclined == [status |-> "completed", concl |-> "neutral"]

\* What Validate and the dispatch on kind accept.
Valid(e) == CASE e.kind = "decision" -> Verb[e.id] \in {"eligible_for_merge_train", "rejected", "deferred"}
              [] e.kind = "lifecycle" -> e.id \in Open
              [] OTHER -> e.kind = "rerun_requested"

----------------------------------------------------------------------------
(***************************************************************************)
(* Handlers, up to the write                                               *)
(***************************************************************************)

\* ServeHTTP: dispatch, validation and, for a rerun, FirstSeen.
Receive(t, e) ==
    LET to(pc) == job' = [job EXCEPT ![t] = [Idle EXCEPT !.pc = pc, !.kind = e.kind, !.rev = e.rev, !.id = e.id]]
    IN /\ At(t, "idle")
       /\ \/ ~Valid(e) /\ Reply(t, 400) /\ UNCHANGED seen
          \/ Valid(e) /\ e.kind = "decision" /\ to("find") /\ UNCHANGED seen
          \/ Valid(e) /\ e.kind = "lifecycle" /\ to("load") /\ UNCHANGED seen
          \/ /\ Valid(e) /\ e.kind = "rerun_requested"
             /\ seen' = seen \cup {e.id}
             /\ IF e.id \in seen THEN Reply(t, 200) ELSE to("load")
       /\ UNCHANGED <<rec, pending, github, strays, tokens, spent, hourly, todo, faults>>

\* A read of the tracker fails: "storage unavailable; redeliver".
ReadFails(t) ==
    /\ At(t, "find") \/ At(t, "load")
    /\ Fault /\ Reply(t, 503)
    /\ UNCHANGED <<rec, pending, github, strays, memory, todo>>

\* serveDecision: the current decision of a revision is a replay.
FindByDecision(t) ==
    /\ At(t, "find")
    /\ IF \E v \in Revs : rec[v].dec = job[t].id THEN Reply(t, 200) ELSE Goto(t, "load")
    /\ UNCHANGED <<rec, pending, github, strays, memory, todo, faults>>

\* The record is read once; write and save go by this snapshot, of which a
\* flow keeps what it uses later.
RunOf(r) == [NoRec EXCEPT !.run = r.run]
PhaseOf(r) == [NoRec EXCEPT !.run = r.run, !.phase = r.phase]
ToWrite(t, snap, write) ==
    job' = [job EXCEPT ![t].pc = "acquire", ![t].snap = snap, ![t].write = write]

LookupCheckReport(t) ==
    LET j == job[t]  r == rec[j.rev] IN
    /\ At(t, "load")
    /\ \/ j.kind = "decision" /\ ToWrite(t, RunOf(r), RenderDecision(j.id))
       \/ j.kind = "lifecycle" /\ IF r.phase \in {"completed", j.id} THEN Reply(t, 200)
                                  ELSE ToWrite(t, PhaseOf(r), RenderLifecycle(j.id))
       \/ j.kind = "rerun_requested" /\ IF r.phase = Untracked THEN Reply(t, 404)
                                        ELSE job' = [job EXCEPT ![t].pc = "allow", ![t].snap = r]
    /\ UNCHANGED <<rec, pending, github, strays, memory, todo, faults>>

\* Budget.Allow for candidate and installation.
Allowed(v) == spent[v] < MaxPerCandidate /\ hourly < RatePerHour

\* serveRerun after the lookup: decline, replay the cached decision, or ask
\* the control-plane.
Allow(t, policy) ==
    LET snap == job[t].snap IN
    /\ At(t, "allow")
    /\ \/ ~Allowed(job[t].rev) /\ ToWrite(t, snap, RenderRerunDeclined)
       \/ Allowed(job[t].rev) /\ policy = "replan" /\ Goto(t, "ctrl")
       \/ /\ Allowed(job[t].rev) /\ policy = "replay_cached"
          /\ IF snap.last = "-" THEN Reply(t, 202) ELSE ToWrite(t, snap, RenderCached(snap.last))
    /\ UNCHANGED <<rec, pending, github, strays, memory, todo, faults>>

\* Control.Revalidate and what replan makes of the answer; Record spends the
\* budget only now.
Replan(t, answer) ==
    LET snap == job[t].snap IN
    /\ At(t, "ctrl")
    /\ CASE answer = "accepted" -> ToWrite(t, snap, RenderLifecycle("queued"))
         [] answer = "unknown_candidate" -> Reply(t, 404)
         [] OTHER -> ToWrite(t, snap, RenderRerunDeclined)
    /\ IF answer = "accepted"
       THEN spent' = [spent EXCEPT ![job[t].rev] = @ + 1] /\ hourly' = hourly + 1
       ELSE UNCHANGED <<spent, hourly>>
    /\ UNCHANGED <<rec, pending, github, strays, tokens, seen, todo, faults>>

----------------------------------------------------------------------------
(***************************************************************************)
(* The write: gate, GitHub, tracker                                        *)
(***************************************************************************)

Keys == {pending[i].key : i \in 1..Len(pending)}

\* enqueuePending: candidate_id:status, whatever the payload says.
KeyOf(j) == <<j.rev, j.write.status>>

\* A failed write: a handler answers 502, sweeper and drainer go on.
GiveUp(w) == IF w \in Loops THEN job' = [job EXCEPT ![w] = Idle] ELSE Reply(w, 502)

SetDue(key, due) == [i \in 1..Len(pending) |->
                        IF pending[i].key = key THEN [pending[i] EXCEPT !.due = due] ELSE pending[i]]

\* Enqueue: ON CONFLICT (key) WHERE delivered_at IS NULL DO NOTHING.
Enqueue(q, key, run) ==
    IF \E i \in 1..Len(q) : q[i].key = key THEN q
    ELSE Append(q, [key |-> key, run |-> run, due |-> TRUE])

\* The queue without the write of a key: an index keeps keys unique.
Without(key) ==
    LET at == {i \in 1..Len(pending) : pending[i].key = key} IN
    IF at = {} THEN pending ELSE RemoveAt(pending, CHOOSE i \in at : TRUE)

\* Mutant: without a token the write is reported queued and forgotten.
AcquireForgets(w) ==
    LET j == job[w] IN
    /\ At(w, "acquire")
    /\ IF tokens > 0
       THEN /\ tokens' = tokens - 1 /\ Goto(w, "call") /\ UNCHANGED pending
       ELSE /\ UNCHANGED tokens
            /\ pending' = IF j.kind = "drain" THEN Without(KeyOf(j)) ELSE pending
            /\ job' = IF w \in Loops THEN [job EXCEPT ![w] = Idle]
                      ELSE [job EXCEPT ![w].pc = "save", ![w].run = 0]
    /\ UNCHANGED <<rec, github, strays, rerunVars, todo, faults>>

\* Gate.Do up to the first call.  Without a token a write is queued (no run
\* id comes back), a queued one waits for RetryIn, and the sweeper leaves its
\* record open until the drain.
TryAcquire(w) ==
    LET j == job[w] IN
    /\ At(w, "acquire")
    /\ IF tokens > 0
       THEN /\ tokens' = tokens - 1 /\ Goto(w, "call") /\ UNCHANGED pending
       ELSE /\ UNCHANGED tokens
            /\ pending' = IF j.kind = "drain" THEN SetDue(KeyOf(j), FALSE)
                          ELSE Enqueue(pending, KeyOf(j), j.snap.run)
            /\ job' = IF w \in Loops THEN [job EXCEPT ![w] = Idle]
                      ELSE [job EXCEPT ![w].pc = "save", ![w].run = 0]
    /\ UNCHANGED <<rec, github, strays, rerunVars, todo, faults>>

\* resolvePublisher runs before the gate, and for a drained write inside it,
\* when the token is spent.
Resolving(w) == At(w, IF job[w].kind = "drain" THEN "call" ELSE "acquire")

\* It cannot resolve the installation: the write is logged, not sent, and
\* counts as done.
DryWrite(w) ==
    /\ Resolving(w) /\ Fault
    /\ job' = [job EXCEPT ![w].pc = "save", ![w].run = job[w].snap.run]
    /\ UNCHANGED <<rec, pending, github, strays, memory, todo>>

\* It cannot build the client of the installation.
ResolveFails(w) ==
    /\ Resolving(w) /\ Fault /\ GiveUp(w)
    /\ pending' = IF job[w].kind = "drain" THEN SetDue(KeyOf(job[w]), FALSE) ELSE pending
    /\ UNCHANGED <<rec, github, strays, memory, todo>>

\* The INSERT into the queue fails.
EnqueueFails(w) ==
    /\ At(w, "acquire") /\ tokens = 0 /\ job[w].kind # "drain"
    /\ Fault /\ GiveUp(w)
    /\ UNCHANGED <<rec, pending, github, strays, memory, todo>>

Shown(j) == [rev |-> j.rev, status |-> j.write.status]

\* GitHub takes the write and its answer arrives: a tracked run is updated, or
\* one is created.  The drainer drops the id of a run it creates.
Answer(j) ==
    IF j.snap.run > 0 THEN github' = [github EXCEPT ![j.snap.run] = Shown(j)] /\ UNCHANGED strays
    ELSE IF j.kind = "drain" THEN strays' = strays \cup {j.rev} /\ UNCHANGED github
    ELSE github' = Append(github, Shown(j)) /\ UNCHANGED strays

\* GitHub takes the write and the answer is lost.
NoAnswer(j) ==
    IF j.snap.run > 0 THEN github' = [github EXCEPT ![j.snap.run] = Shown(j)] /\ UNCHANGED strays
    ELSE strays' = strays \cup {j.rev} /\ UNCHANGED github

\* LivePublisher.Create and Update, answered.
CallGitHub(w) ==
    LET j == job[w] IN
    /\ At(w, "call") /\ Answer(j)
    /\ job' = [job EXCEPT ![w].pc = "save", ![w].run = IF j.snap.run > 0 THEN j.snap.run
                                                      ELSE IF j.kind = "drain" THEN 0 ELSE Len(github) + 1]
    /\ UNCHANGED <<rec, pending, memory, todo, faults>>

\* The call fails, with or without effect: retried by the gate, or given up.
CallFails(w) ==
    LET j == job[w] IN
    /\ At(w, "call") /\ Fault
    /\ NoAnswer(j) \/ UNCHANGED <<github, strays>>
    /\ \/ /\ j.tries < Attempts - 1
          /\ job' = [job EXCEPT ![w].tries = @ + 1] /\ UNCHANGED pending
       \/ /\ GiveUp(w)
          /\ pending' = IF j.kind = "drain" THEN SetDue(KeyOf(j), FALSE) ELSE pending
    /\ UNCHANGED <<rec, memory, todo>>

\* Mutant: the decision id is left out of the decision's save.
SavedWithoutDecision(j) ==
    CASE j.kind = "decision" ->
            [run |-> j.run, phase |-> "completed", concl |-> j.write.concl, dec |-> "-", last |-> j.id]
      [] j.kind = "lifecycle" ->
            [NoRec EXCEPT !.run = j.run, !.phase = j.id]
      [] j.kind = "rerun_requested" ->
            [run |-> j.snap.run, phase |-> j.write.status, concl |-> j.write.concl,
             dec |-> IF j.write.status = "queued" THEN "-" ELSE j.snap.dec, last |-> j.snap.last]
      [] j.kind = "sweep" ->
            [NoRec EXCEPT !.run = j.run, !.phase = "completed", !.concl = "neutral"]

\* The record each flow saves.  The rerun flows save what their snapshot said.
Saved(j) ==
    CASE j.kind = "decision" ->
            [run |-> j.run, phase |-> "completed", concl |-> j.write.concl, dec |-> j.id, last |-> j.id]
      [] j.kind = "lifecycle" ->
            [NoRec EXCEPT !.run = j.run, !.phase = j.id]
      [] j.kind = "rerun_requested" ->
            [run |-> j.snap.run, phase |-> j.write.status, concl |-> j.write.concl,
             dec |-> IF j.write.status = "queued" THEN "-" ELSE j.snap.dec, last |-> j.snap.last]
      [] j.kind = "sweep" ->
            [NoRec EXCEPT !.run = j.run, !.phase = "completed", !.concl = "neutral"]

\* RecordCheckReport: a field-wise upsert; conclusion moves only with a
\* completed phase (and so does the stalled mark, which is left out).
Upsert(r, s) ==
    LET done == s.phase = "completed" \/ r.phase = Untracked IN
    [run |-> IF s.run # 0 THEN s.run ELSE r.run,
     phase |-> s.phase,
     concl |-> IF done THEN s.concl ELSE r.concl,
     dec |-> IF s.dec # "-" THEN s.dec ELSE r.dec,
     last |-> IF s.last # "-" THEN s.last ELSE r.last]

Finish(w) == IF w \in Loops THEN job' = [job EXCEPT ![w] = Idle] ELSE Reply(w, 202)

\* Mutant: a drained write is never marked delivered.
SaveKeepsQueued(w) ==
    LET j == job[w] IN
    /\ At(w, "save") /\ Finish(w)
    /\ rec' = IF j.kind = "drain" THEN rec ELSE [rec EXCEPT ![j.rev] = Upsert(@, Saved(j))]
    /\ UNCHANGED <<pending, github, strays, memory, todo, faults>>

\* RecordCheckReport, or MarkDelivered for a drained write.
Save(w) ==
    LET j == job[w] IN
    /\ At(w, "save") /\ Finish(w)
    /\ IF j.kind = "drain"
       THEN pending' = Without(KeyOf(j)) /\ UNCHANGED rec
       ELSE rec' = [rec EXCEPT ![j.rev] = Upsert(@, Saved(j))] /\ UNCHANGED pending
    /\ UNCHANGED <<github, strays, memory, todo, faults>>

\* The save fails without effect.  Decision and lifecycle ask for a redelivery,
\* the rerun flows answer as if it had been saved, the loops go on.
SaveFails(w) ==
    /\ At(w, "save") /\ Fault
    /\ IF job[w].kind \in {"decision", "lifecycle"} THEN Reply(w, 503) ELSE Finish(w)
    /\ UNCHANGED <<rec, pending, github, strays, memory, todo>>

\* The client hangs up: the handler stops at its next call.
ClientTimeout(t) ==
    /\ job[t].pc \notin {"idle", "answered"} /\ Fault /\ Reply(t, 504)
    /\ UNCHANGED <<rec, pending, github, strays, memory, todo>>

----------------------------------------------------------------------------
(***************************************************************************)
(* Sweeper, drainer, clocks, crash                                         *)
(***************************************************************************)

\* A record of the sweep as it is now.
Stalled(v) == [kind |-> "sweep", rev |-> v, snap |-> RunOf(rec[v]), write |-> RenderStalled]

\* Mutant: the sweep looks at queued checks only.
SweepQueuedOnly ==
    /\ At("sweeper", "idle") /\ todo["sweeper"] = <<>>
    /\ \E old \in (SUBSET {v \in Revs : rec[v].phase = "queued"}) \ {{}} :
          \E items \in SetToSeqs({Stalled(v) : v \in old}) : todo' = [todo EXCEPT !["sweeper"] = items]
    /\ UNCHANGED <<rec, pending, github, strays, memory, job, faults>>

\* tick of the sweeper: open records older than the stalled age, as they are
\* now.  Any set of open records may be the old ones.
SweepTick ==
    /\ At("sweeper", "idle") /\ todo["sweeper"] = <<>>
    /\ \E old \in (SUBSET {v \in Revs : rec[v].phase \in Open}) \ {{}} :
          \E items \in SetToSeqs({Stalled(v) : v \in old}) : todo' = [todo EXCEPT !["sweeper"] = items]
    /\ UNCHANGED <<rec, pending, github, strays, memory, job, faults>>

\* tick of the drainer: the due writes, oldest first.
DrainTick ==
    LET due == {i \in 1..Len(pending) : pending[i].due}
        item(p) == [kind |-> "drain", rev |-> p.key[1], snap |-> [NoRec EXCEPT !.run = p.run], write |-> [status |-> p.key[2], concl |-> "-"]]
    IN /\ At("drainer", "idle") /\ todo["drainer"] = <<>> /\ due # {}
       /\ \E order \in SetToSeqs(due) :
             /\ \A k, m \in DOMAIN order : k < m => order[k] < order[m]
             /\ todo' = [todo EXCEPT !["drainer"] =
                           [k \in 1..(IF Len(order) < DueLimit THEN Len(order) ELSE DueLimit) |-> item(pending[order[k]])]]
       /\ UNCHANGED <<rec, pending, github, strays, memory, job, faults>>

\* flipOne and deliverOne start on the next of the fetched items.
NextItem(w) ==
    LET i == Head(todo[w]) IN
    /\ At(w, "idle") /\ todo[w] # <<>>
    /\ job' = [job EXCEPT ![w] = [Idle EXCEPT !.pc = "acquire", !.kind = i.kind, !.rev = i.rev,
                                              !.snap = i.snap, !.write = i.write]]
    /\ todo' = [todo EXCEPT ![w] = Tail(@)]
    /\ UNCHANGED <<rec, pending, github, strays, memory, faults>>

\* Time: the bucket refills by n, a rescheduled write falls due, the hour of
\* the rerun rate turns.  Behaviours are shorter than the 24 hours a seen key
\* is kept.
Refill(n) ==
    /\ tokens + n <= Cap /\ tokens' = tokens + n
    /\ UNCHANGED <<rec, pending, github, strays, rerunVars, job, todo, faults>>
RetryDue(i) ==
    /\ ~pending[i].due /\ pending' = [pending EXCEPT ![i].due = TRUE]
    /\ UNCHANGED <<rec, github, strays, memory, job, todo, faults>>
HourTurns ==
    /\ hourly > 0 /\ hourly' = 0
    /\ UNCHANGED <<rec, pending, github, strays, tokens, seen, spent, job, todo, faults>>
FreshMemory ==
    /\ tokens' = Cap /\ seen' = {} /\ spent' = [v \in Revs |-> 0] /\ hourly' = 0

\* The process stops and starts: clients see a broken connection, except some
\* whose answer was on its way.
ConnectorCrash ==
    /\ Fault /\ FreshMemory
    /\ \E sent \in SUBSET {t \in Posters : At(t, "answered")} :
          job' = [w \in Writers |-> IF job[w].pc = "idle" \/ w \in Loops THEN Idle
                                    ELSE IF w \in sent THEN job[w]
                                    ELSE [Idle EXCEPT !.pc = "answered", !.code = 504]]
    /\ todo' = [w \in Loops |-> <<>>]
    /\ UNCHANGED <<rec, pending, github, strays>>

ConnectorInit ==
    /\ rec = [v \in Revs |-> NoRec] /\ pending = <<>> /\ github = <<>> /\ strays = {}
    /\ tokens = Cap /\ seen = {} /\ spent = [v \in Revs |-> 0] /\ hourly = 0
    /\ job = [w \in Writers |-> Idle] /\ todo = [w \in Loops |-> <<>>] /\ faults = 0

Answers == {"accepted", "unknown_candidate", "exhausted", "unavailable"}

WriterStep(w) ==
    \/ DryWrite(w) \/ ResolveFails(w) \/ TryAcquire(w) \/ EnqueueFails(w)
    \/ CallGitHub(w) \/ CallFails(w) \/ Save(w) \/ SaveFails(w)
HandlerStep(t, policy) ==
    \/ ReadFails(t) \/ FindByDecision(t) \/ LookupCheckReport(t) \/ Allow(t, policy)
    \/ \E a \in Answers : Replan(t, a)
    \/ ClientTimeout(t)
LoopStep == SweepTick \/ DrainTick \/ \E w \in Loops : NextItem(w)
ClockStep ==
    \/ \E n \in 1..Cap : Refill(n)
    \/ \E i \in 1..Len(pending) : RetryDue(i)
    \/ HourTurns

ConnectorStep ==
    \/ \E t \in Posters : HandlerStep(t, Policy)
    \/ \E w \in Writers : WriterStep(w)
    \/ LoopStep \/ ClockStep \/ ConnectorCrash

\* Clients T have their answers, or are gone and their requests cancelled.
Leave(T) ==
    /\ job' = [w \in Writers |-> IF w \in T THEN Idle ELSE job[w]]
    /\ UNCHANGED <<rec, pending, github, strays, memory, todo, faults>>

\* The connector among clients that post anything at any time.
ClientStep ==
    \/ \E t \in Posters, e \in Envelopes : Receive(t, e)
    \/ \E T \in SUBSET Posters : Leave(T)
ConnectorSpec == ConnectorInit /\ [][ConnectorStep \/ ClientStep]_connVars

----------------------------------------------------------------------------
(***************************************************************************)
(* Properties                                                              *)
(***************************************************************************)

Codes == {0, 200, 202, 400, 404, 502, 503, 504}
Conclusions == {"-", "success", "failure", "neutral"}
Decisions == DOMAIN Verb
RecordType == [run : Nat, phase : Open \cup {"completed", Untracked}, concl : Conclusions,
               dec : Decisions \cup {"-"}, last : Decisions \cup {"-"}]

\* The type of the connector's state; every queued write has a key of its own.
ConnectorTypeOK ==
    /\ rec \in [Revs -> RecordType]
    /\ strays \subseteq Revs /\ tokens \in 0..Cap /\ faults \in 0..MaxFaults /\ hourly \in Nat /\ spent \in [Revs -> Nat]
    /\ \A i \in 1..Len(github) : github[i].rev \in Revs
    /\ Cardinality(Keys) = Len(pending)
    /\ \A w \in Writers : job[w].snap \in RecordType /\ job[w].code \in Codes

\* The check run a record, a snapshot or a queued write names is one GitHub
\* holds for that revision, so no update lands on another revision's check
\* (the ids pass from Create through snapshots, queue and upsert).
RunIdsReal ==
    LET real(run, v) == run = 0 \/ (run \in 1..Len(github) /\ github[run].rev = v) IN
    /\ \A v \in Revs : real(rec[v].run, v)
    /\ \A i \in 1..Len(pending) : real(pending[i].run, pending[i].key[1])
    /\ \A w \in Writers : job[w].pc # "idle" => real(job[w].snap.run, job[w].rev) /\ real(job[w].run, job[w].rev)

\* A completed record shows the conclusion of the decision it names, or
\* neutral after a stall or a declined rerun, however handlers, reruns and
\* sweeps interleave (RecordCheckReport's field-wise merge).
ConclusionJustified ==
    \A v \in Revs : rec[v].phase = "completed" =>
        \/ rec[v].concl = "neutral"
        \/ rec[v].dec # "-" /\ rec[v].concl = ConclusionForVerb(Verb[rec[v].dec])

\* "queued, never silently dropped": while nothing has failed, a tracked
\* revision has a check run on GitHub, a write waiting in the queue, or one
\* in the drainer's hands.
TrackedIsVisible ==
    faults = 0 => \A v \in Revs : rec[v].phase # Untracked =>
        \/ \E i \in 1..Len(github) : github[i].rev = v
        \/ v \in strays
        \/ \E i \in 1..Len(pending) : pending[i].key[1] = v

(***************************************************************************)
(* What the repository says and the code does not do                       *)
(***************************************************************************)

\* Budget: at most "maxPerCandidate re-runs per candidate ever (process
\* lifetime)".  Allow and Record are two steps with the call to the
\* control-plane between them, and two reruns pass the same check.
RerunCapKept == \A v \in Revs : spent[v] <= MaxPerCandidate
=============================================================================
