--------------------------- MODULE ConnectorProofs ---------------------------
(***************************************************************************)
(* Theorems about Connector for any revisions, envelopes, clients, bounds  *)
(* and policy, among clients that post anything at any time.               *)
(*                                                                         *)
(* A writer works on a snapshot that other writers make stale, so what the *)
(* tracker may rely on is a property of every snapshot, queued write and   *)
(* fetched item: its run id is real, its conclusion belongs to the         *)
(* decision that will be saved with it, and, once it is to be saved, its   *)
(* revision can be seen or is queued.                                      *)
(***************************************************************************)
EXTENDS Connector, TLAPS, FiniteSetTheorems, SequenceTheorems

Phases == {"queued", "in_progress", "completed"}
\* Decisions that pass Validate.
Decided == {e.id : e \in {x \in Envelopes : x.kind = "decision" /\ Valid(x)}}
RecT == [run : Nat, phase : Phases \cup {"none"}, concl : Conclusions,
         dec : Decided \cup {"-"}, last : Decided \cup {"-"}]
WriteT == [status : Phases \cup {"-"}, concl : Conclusions]
JobT == [pc : {"idle", "find", "load", "allow", "ctrl", "acquire", "call", "save", "answered"},
         kind : {"-", "decision", "lifecycle", "rerun_requested", "sweep", "drain"},
         rev : Revs \cup {"-"}, id : {e.id : e \in Envelopes} \cup {"-"},
         snap : RecT, write : WriteT, run : Nat, tries : Nat, code : Codes]
KeyT == Revs \X Phases
PendingT == [key : KeyT, run : Nat, due : BOOLEAN]
CheckT == [rev : Revs, status : Phases \cup {"-"}]
Task == [kind : {"sweep", "drain"}, rev : Revs, snap : RecT, write : WriteT]

ConnTypeOK ==
    /\ rec \in [Revs -> RecT] /\ pending \in Seq(PendingT) /\ github \in Seq(CheckT)
    /\ spent \in [Revs -> Nat] /\ faults \in Nat
    /\ job \in [Writers -> JobT] /\ todo \in [Loops -> Seq(Task)]

\* run is no id, or that of v's check run.
Real(run, v) == run = 0 \/ (run \in 1..Len(github) /\ github[run].rev = v)
OnGitHub(v) == (\E i \in 1..Len(github) : github[i].rev = v) \/ v \in strays
Visible(v) == OnGitHub(v) \/ \E i \in 1..Len(pending) : pending[i].key[1] = v

Justified(concl, dec) == concl = "neutral" \/ (dec # "-" /\ concl = ConclusionForVerb(Verb[dec]))

\* What a writer is about to write.
Rendered(j) ==
    /\ j.write.status # "-"
    /\ j.kind = "decision" => j.write = RenderDecision(j.id)
    /\ j.kind = "sweep" => j.write = RenderStalled
    /\ j.kind = "rerun_requested" =>
          /\ j.write.status = "completed" => Justified(j.write.concl, j.snap.dec)
          /\ Policy = "replay_cached" => j.write.status = "completed"

\* What a writer has in hand, whatever the rest of the state is.
Shape(w, j) ==
    j.pc \notin {"idle", "answered"} =>
        /\ j.rev \in Revs /\ j.kind # "-"
        /\ j.kind = "drain" => w \in Loops
        /\ j.kind = "decision" => j.id \in Decided
        /\ j.kind = "lifecycle" => j.id \in Open
        /\ j.kind = "rerun_requested" /\ Policy = "replay_cached" => j.snap.dec = j.snap.last
        /\ j.pc \in {"allow", "ctrl"} => j.kind = "rerun_requested"
        /\ j.pc = "ctrl" => Policy = "replan"
        /\ j.pc \in {"acquire", "call", "save"} => Rendered(j)

\* And what it may rely on.
JobOK(j) ==
    j.pc # "idle" =>
        /\ Real(j.snap.run, j.rev) /\ Real(j.run, j.rev)
        /\ faults = 0 /\ j.pc = "save" =>
              IF j.kind = "drain" THEN OnGitHub(j.rev) ELSE Visible(j.rev)

JobsOK == \A w \in Writers : Shape(w, job[w]) /\ JobOK(job[w])

TaskOK(i) == /\ Real(i.snap.run, i.rev) /\ i.write.status # "-"
             /\ i.kind = "sweep" => i.write = RenderStalled
TodoOK == \A w \in Loops : \A k \in 1..Len(todo[w]) : TaskOK(todo[w][k])
QueueOK == \A i \in 1..Len(pending) : Real(pending[i].run, pending[i].key[1])

RecOK(v) ==
    /\ Real(rec[v].run, v)
    /\ rec[v].phase = "completed" => Justified(rec[v].concl, rec[v].dec)
    /\ Policy = "replay_cached" => rec[v].dec = rec[v].last
    /\ faults = 0 /\ rec[v].phase # "none" => Visible(v)
RecsOK == \A v \in Revs : RecOK(v)

\* The cap of a candidate is overrun by at most the handlers between Allow and
\* Record, which are separated by the call to the control-plane.
RerunOverrunBounded ==
    \A v \in Revs :
        spent[v] + Cardinality({t \in Posters : At(t, "ctrl") /\ job[t].rev = v})
            <= MaxPerCandidate + Cardinality(Posters) - 1

ConnIInv == ConnTypeOK /\ JobsOK /\ TodoOK /\ QueueOK /\ RecsOK /\ RerunOverrunBounded

----------------------------------------------------------------------------

\* Constants of the types.
LEMMA ConnConstants ==
    /\ NoRec \in RecT /\ NoRec.run = 0 /\ NoRec.phase = "none" /\ NoRec.dec = "-" /\ NoRec.last = "-" /\ NoRec.concl = "-"
    /\ Idle \in JobT /\ Idle.pc = "idle" /\ Idle.snap = NoRec /\ Idle.run = 0 /\ Idle.write = NoWrite
    /\ NoWrite \in WriteT /\ Untracked = "none"
    /\ RenderStalled \in WriteT /\ RenderStalled.status = "completed" /\ RenderStalled.concl = "neutral"
    /\ RenderRerunDeclined = RenderStalled
    /\ Posters \subseteq Writers /\ Loops \subseteq Writers /\ Posters \cap Loops = {}
    /\ "sweeper" \in Loops /\ "drainer" \in Loops
<1>1. NoRec \in RecT /\ NoRec.run = 0 /\ NoRec.phase = "none" /\ NoRec.dec = "-" /\ NoRec.last = "-" /\ NoRec.concl = "-"
  BY DEF NoRec, RecT, Conclusions
<1>2. NoWrite \in WriteT
  BY DEF NoWrite, WriteT, Conclusions
<1>3. Idle \in JobT /\ Idle.pc = "idle" /\ Idle.snap = NoRec /\ Idle.run = 0 /\ Idle.write = NoWrite
  BY <1>1, <1>2 DEF Idle, JobT, Codes
<1>4. RenderStalled \in WriteT /\ RenderStalled.status = "completed" /\ RenderStalled.concl = "neutral"
      /\ RenderRerunDeclined = RenderStalled
  BY DEF RenderStalled, RenderRerunDeclined, WriteT, Conclusions, Phases
<1>5. /\ Posters \subseteq Writers /\ Loops \subseteq Writers /\ Posters \cap Loops = {}
      /\ "sweeper" \in Loops /\ "drainer" \in Loops
  BY ConnectorConstants DEF Writers, Loops
<1> QED
  BY <1>1, <1>2, <1>3, <1>4, <1>5 DEF Untracked

\* A decision that passes Validate has a conclusion.
LEMMA DecidedConcludes ==
    ASSUME NEW d \in Decided
    PROVE  /\ ConclusionForVerb(Verb[d]) \in Conclusions /\ d # "-"
           /\ RenderDecision(d) \in WriteT /\ RenderDecision(d).status = "completed"
           /\ RenderDecision(d).concl = ConclusionForVerb(Verb[d]) /\ RenderCached(d) = RenderDecision(d)
<1>1. PICK e \in Envelopes : e.kind = "decision" /\ Valid(e) /\ d = e.id
  BY DEF Decided
<1>2. Verb[d] \in {"eligible_for_merge_train", "rejected", "deferred"} /\ d # "-"
  BY <1>1, ConnectorConstants DEF Valid
<1>3. ConclusionForVerb(Verb[d]) \in Conclusions
  BY <1>2 DEF ConclusionForVerb, Conclusions
<1> HIDE DEF ConclusionForVerb
<1> QED
  BY <1>2, <1>3 DEF RenderDecision, RenderCached, WriteT, Phases

----------------------------------------------------------------------------

\* Check runs stay with their revisions.
GitHubGrows ==
    /\ Len(github') >= Len(github) /\ strays \subseteq strays'
    /\ \A i \in 1..Len(github) : github'[i].rev = github[i].rev
VisibleKept == faults' = 0 => \A v \in Revs : Visible(v) => Visible(v)'
FaultsGrow == faults' = 0 => faults = 0

\* What is known of GitHub stays true.
LEMMA RealKept ==
    ASSUME GitHubGrows, github \in Seq(CheckT), github' \in Seq(CheckT)
    PROVE  /\ \A run, v : Real(run, v) => Real(run, v)'
           /\ \A v : OnGitHub(v) => OnGitHub(v)'
<1>1. PICK n \in Nat, m \in Nat : n = Len(github) /\ m = Len(github') /\ n <= m
  BY DEF GitHubGrows
<1> QED
  BY <1>1 DEF GitHubGrows, Real, OnGitHub

\* A writer that stands still.
LEMMA JobKept ==
    ASSUME ConnTypeOK, github' \in Seq(CheckT), GitHubGrows, VisibleKept, FaultsGrow,
           NEW w, NEW j, Shape(w, j), JobOK(j)
    PROVE  JobOK(j)'
<1>1. /\ \A run, v : Real(run, v) => Real(run, v)'
      /\ \A v : OnGitHub(v) => OnGitHub(v)'
  BY RealKept DEF ConnTypeOK
<1> QED
  BY <1>1 DEF JobOK, Shape, VisibleKept, FaultsGrow

\* One writer moves.
LEMMA OneJob ==
    ASSUME ConnIInv, github' \in Seq(CheckT), GitHubGrows, VisibleKept, FaultsGrow,
           NEW w \in Writers, NEW new \in JobT, job' = [job EXCEPT ![w] = new],
           Shape(w, new), JobOK(new)'
    PROVE  job' \in [Writers -> JobT] /\ JobsOK'
<1>1. job' \in [Writers -> JobT] /\ job'[w] = new /\ \A u \in Writers : u # w => job'[u] = job[u]
  BY DEF ConnIInv, ConnTypeOK
<1>2. ASSUME NEW u \in Writers PROVE Shape(u, job'[u]) /\ JobOK(job[u])'
  <2>1. CASE u = w
    BY <1>1, <2>1 DEF JobOK
  <2>2. CASE u # w
    <3>1. Shape(u, job[u]) /\ JobOK(job[u])
      BY DEF ConnIInv, JobsOK
    <3>2. PICK j : j = job[u]
      OBVIOUS
    <3>3. JobOK(j)'
      BY <3>1, <3>2, JobKept DEF ConnIInv
    <3>4. job'[u] = j
      BY <1>1, <2>2, <3>2
    <3> QED
      BY <3>1, <3>2, <3>3, <3>4 DEF JobOK
  <2> QED
    BY <2>1, <2>2
<1> QED
  BY <1>1, <1>2 DEF JobsOK, Shape

\* The rest stands still.
LEMMA RecsKept ==
    ASSUME ConnIInv, github' \in Seq(CheckT), GitHubGrows, VisibleKept, FaultsGrow, UNCHANGED rec
    PROVE  RecsOK' /\ rec' \in [Revs -> RecT]
<1>1. \A run, v : Real(run, v) => Real(run, v)'
  BY RealKept DEF ConnIInv, ConnTypeOK
<1> QED
  BY <1>1 DEF ConnIInv, ConnTypeOK, RecsOK, RecOK, VisibleKept, FaultsGrow

\* Work items stay real while GitHub only grows.
LEMMA TodoKept ==
    ASSUME ConnIInv, github' \in Seq(CheckT), GitHubGrows, UNCHANGED todo
    PROVE  TodoOK' /\ todo' \in [Loops -> Seq(Task)]
<1>1. \A run, v : Real(run, v) => Real(run, v)'
  BY RealKept DEF ConnIInv, ConnTypeOK
<1> QED
  BY <1>1 DEF ConnIInv, ConnTypeOK, TodoOK, TaskOK

\* Queued writes stay real while GitHub only grows.
LEMMA QueueKept ==
    ASSUME ConnIInv, github' \in Seq(CheckT), GitHubGrows, UNCHANGED pending
    PROVE  QueueOK' /\ pending' \in Seq(PendingT)
<1>1. \A run, v : Real(run, v) => Real(run, v)'
  BY RealKept DEF ConnIInv, ConnTypeOK
<1> QED
  BY <1>1 DEF ConnIInv, ConnTypeOK, QueueOK

\* Handlers between the check of the rerun budget and its spending.
InCtrl(v) == {t \in Posters : At(t, "ctrl") /\ job[t].rev = v}

\* Handlers leave the gap between check and spending, and nobody spends.
LEMMA BudgetKept ==
    ASSUME ConnIInv, spent' \in [Revs -> Nat],
           \A v \in Revs : spent'[v] <= spent[v] /\ InCtrl(v)' \subseteq InCtrl(v)
    PROVE  RerunOverrunBounded'
<1> SUFFICES ASSUME NEW v \in Revs
             PROVE  spent'[v] + Cardinality(InCtrl(v)') <= MaxPerCandidate + Cardinality(Posters) - 1
  BY DEF RerunOverrunBounded, InCtrl
<1>1. IsFiniteSet(Posters) /\ IsFiniteSet(InCtrl(v)) /\ IsFiniteSet(InCtrl(v)')
  BY ConnectorConstants, FS_Subset DEF InCtrl
<1>2. /\ Cardinality(Posters) \in Nat /\ Cardinality(InCtrl(v)) \in Nat /\ Cardinality(InCtrl(v)') \in Nat
      /\ Cardinality(InCtrl(v)') <= Cardinality(InCtrl(v))
  BY <1>1, FS_CardinalityType, FS_Subset
<1>3. spent[v] + Cardinality(InCtrl(v)) <= MaxPerCandidate + Cardinality(Posters) - 1
  BY DEF ConnIInv, RerunOverrunBounded, InCtrl
<1>4. spent[v] \in Nat /\ spent'[v] \in Nat /\ MaxPerCandidate \in Nat
  BY ConnectorConstants DEF ConnIInv, ConnTypeOK
<1> QED
  BY <1>2, <1>3, <1>4

\* A step of one writer that touches neither GitHub nor the tables.
LEMMA QuietJob ==
    ASSUME ConnIInv, UNCHANGED <<rec, pending, github, strays>>, FaultsGrow, faults' \in Nat,
           todo' \in [Loops -> Seq(Task)], TodoOK', spent' \in [Revs -> Nat], RerunOverrunBounded',
           NEW w \in Writers, NEW new \in JobT, job' = [job EXCEPT ![w] = new],
           Shape(w, new), JobOK(new)
    PROVE  ConnIInv'
<1>1. github' \in Seq(CheckT) /\ GitHubGrows /\ VisibleKept
  BY DEF ConnIInv, ConnTypeOK, GitHubGrows, VisibleKept, Visible, OnGitHub
<1>2. JobOK(new)'
  BY <1>1, JobKept DEF ConnIInv
<1>3. job' \in [Writers -> JobT] /\ JobsOK'
  BY <1>1, <1>2, OneJob
<1>4. RecsOK' /\ QueueOK' /\ rec' \in [Revs -> RecT] /\ pending' \in Seq(PendingT)
  BY <1>1, RecsKept, QueueKept
<1> QED
  BY <1>1, <1>3, <1>4 DEF ConnIInv, ConnTypeOK

\* As before, and the writer does not come to the control-plane call.
LEMMA MoveKeeps ==
    ASSUME ConnIInv, UNCHANGED <<rec, pending, github, strays, todo, spent>>, FaultsGrow, faults' \in Nat,
           NEW w \in Writers, NEW new \in JobT, job' = [job EXCEPT ![w] = new],
           Shape(w, new), JobOK(new), new.pc # "ctrl"
    PROVE  ConnIInv'
<1>1. spent' \in [Revs -> Nat] /\ todo' \in [Loops -> Seq(Task)] /\ TodoOK'
  BY DEF ConnIInv, ConnTypeOK, TodoOK, TaskOK, Real
<1>2. job'[w] = new /\ \A u \in Writers : u # w => job'[u] = job[u]
  BY DEF ConnIInv, ConnTypeOK
<1>3. \A v \in Revs : spent'[v] <= spent[v] /\ InCtrl(v)' \subseteq InCtrl(v)
  BY <1>1, <1>2, ConnConstants DEF InCtrl, At
<1>4. RerunOverrunBounded'
  BY <1>1, <1>3, BudgetKept
<1> QED
  BY <1>1, <1>4, QuietJob

\* An answer, or the loop is idle again.
LEMMA RestedJob ==
    /\ \A w : Shape(w, Idle) /\ JobOK(Idle) /\ Idle.pc # "ctrl"
    /\ \A code \in Codes : \A w :
          LET new == [Idle EXCEPT !.pc = "answered", !.code = code] IN
          /\ new \in JobT /\ Shape(w, new) /\ JobOK(new) /\ new.pc = "answered" /\ new.code = code
          /\ new.snap = NoRec /\ new.run = 0
<1>1. \A w : Shape(w, Idle) /\ JobOK(Idle) /\ Idle.pc # "ctrl"
  BY ConnConstants DEF Shape, JobOK
<1>2. ASSUME NEW code \in Codes, NEW w
      PROVE  LET new == [Idle EXCEPT !.pc = "answered", !.code = code] IN
             /\ new \in JobT /\ Shape(w, new) /\ JobOK(new) /\ new.pc = "answered" /\ new.code = code
             /\ new.snap = NoRec /\ new.run = 0
  <2> DEFINE new == [Idle EXCEPT !.pc = "answered", !.code = code]
  <2>1. new \in JobT /\ new.pc = "answered" /\ new.snap = NoRec /\ new.run = 0 /\ new.code = code
    BY ConnConstants DEF JobT
  <2> HIDE DEF new
  <2>2. Shape(w, new) /\ JobOK(new)
    BY <2>1, ConnConstants DEF Shape, JobOK, Real
  <2> QED
    BY <2>1, <2>2 DEF new
<1> QED
  BY <1>1, <1>2

\* A handler answers, or a writer is done.
LEMMA ReplyKeeps ==
    ASSUME ConnIInv, UNCHANGED <<rec, pending, github, strays, todo, spent>>, FaultsGrow, faults' \in Nat,
           NEW w \in Writers, NEW code \in Codes, Reply(w, code) \/ job' = [job EXCEPT ![w] = Idle]
    PROVE  ConnIInv'
<1> DEFINE new == [Idle EXCEPT !.pc = "answered", !.code = code]
<1>1. new \in JobT /\ Shape(w, new) /\ JobOK(new) /\ new.pc = "answered"
  BY RestedJob
<1>2. Idle \in JobT /\ Shape(w, Idle) /\ JobOK(Idle) /\ Idle.pc # "ctrl"
  BY RestedJob, ConnConstants
<1>3. job' = [job EXCEPT ![w] = new] \/ job' = [job EXCEPT ![w] = Idle]
  BY DEF Reply
<1> HIDE DEF new
<1> QED
  BY <1>1, <1>2, <1>3, MoveKeeps

\* Failures only add up.
LEMMA FaultAdds ==
    ASSUME ConnIInv, Fault \/ UNCHANGED faults
    PROVE  FaultsGrow /\ faults' \in Nat
BY DEF ConnIInv, ConnTypeOK, Fault, FaultsGrow

\* A writer's job, by its type and what the invariant says of it.
LEMMA JobKnown ==
    ASSUME ConnIInv, NEW w \in Writers
    PROVE  job[w] \in JobT /\ Shape(w, job[w]) /\ JobOK(job[w])
BY DEF ConnIInv, ConnTypeOK, JobsOK

\* Moving on within a flow.
LEMMA GotoKeeps ==
    ASSUME ConnIInv, NEW w \in Writers, job[w].pc \notin {"idle", "answered"},
           NEW pc \in {"load", "call"}, pc = "call" => job[w].pc = "acquire",
           Goto(w, pc), UNCHANGED <<rec, pending, github, strays, todo, spent, faults>>
    PROVE  ConnIInv'
<1> DEFINE new == [job[w] EXCEPT !.pc = pc]
<1>1. job[w] \in JobT /\ Shape(w, job[w]) /\ JobOK(job[w])
  BY JobKnown
<1>2. job' = [job EXCEPT ![w] = new]
  BY DEF Goto
<1>3. /\ new \in JobT /\ new.pc = pc /\ new.kind = job[w].kind /\ new.rev = job[w].rev /\ new.id = job[w].id
      /\ new.snap = job[w].snap /\ new.write = job[w].write /\ new.run = job[w].run
  BY <1>1 DEF JobT
<1> HIDE DEF new
<1>4. Shape(w, new) /\ JobOK(new) /\ new.pc # "ctrl"
  BY <1>1, <1>3 DEF Shape, JobOK, Rendered
<1> QED
  BY <1>2, <1>3, <1>4, FaultAdds, MoveKeeps

\* ServeHTTP.
LEMMA ReceiveKeeps ==
    ASSUME ConnIInv, NEW t \in Posters, NEW e \in Envelopes, Receive(t, e)
    PROVE  ConnIInv'
<1>0. UNCHANGED <<rec, pending, github, strays, todo, spent, faults>> /\ t \in Writers /\ FaultsGrow /\ faults' \in Nat
  BY FaultAdds, ConnConstants DEF Receive
<1>1. CASE Reply(t, 400) \/ Reply(t, 200)
  BY <1>0, <1>1, ReplyKeeps DEF Codes
<1>2. ASSUME NEW pc \in {"find", "load"}, Valid(e), e.kind \in {"decision", "lifecycle", "rerun_requested"},
             job' = [job EXCEPT ![t] = [Idle EXCEPT !.pc = pc, !.kind = e.kind, !.rev = e.rev, !.id = e.id]]
      PROVE  ConnIInv'
  <2> DEFINE new == [Idle EXCEPT !.pc = pc, !.kind = e.kind, !.rev = e.rev, !.id = e.id]
  <2>1. e.rev \in Revs
    BY ConnectorConstants
  <2>2. /\ new \in JobT /\ new.pc = pc /\ new.kind = e.kind /\ new.rev = e.rev /\ new.id = e.id
        /\ new.snap = NoRec /\ new.run = 0
    BY <1>2, <2>1, ConnConstants DEF JobT
  <2>3. job' = [job EXCEPT ![t] = new]
    BY <1>2
  <2> HIDE DEF new
  <2>4. (e.kind = "decision" => e.id \in Decided) /\ (e.kind = "lifecycle" => e.id \in Open)
    BY <1>2 DEF Decided, Valid
  <2>5. Shape(t, new) /\ JobOK(new) /\ new.pc # "ctrl"
    BY <1>2, <2>1, <2>2, <2>4, ConnConstants DEF Shape, JobOK, Real
  <2> QED
    BY <1>0, <2>2, <2>3, <2>5, MoveKeeps
<1> QED
  BY <1>1, <1>2 DEF Receive

\* From the lookup to the write.
LEMMA ToWriteJob ==
    ASSUME ConnIInv, NEW t \in Posters, job[t].pc \in {"load", "allow", "ctrl"},
           NEW snap \in RecT, NEW write \in WriteT, ToWrite(t, snap, write),
           Real(snap.run, job[t].rev), write.status # "-",
           job[t].kind = "decision" => write = RenderDecision(job[t].id),
           job[t].kind = "sweep" => write = RenderStalled,
           job[t].kind = "rerun_requested" =>
              /\ write.status = "completed" => Justified(write.concl, snap.dec)
              /\ Policy = "replay_cached" => write.status = "completed" /\ snap.dec = snap.last
    PROVE  \E new \in JobT : /\ job' = [job EXCEPT ![t] = new] /\ Shape(t, new) /\ JobOK(new)
                             /\ new.pc = "acquire" /\ new.rev = job[t].rev
<1> DEFINE new == [job[t] EXCEPT !.pc = "acquire", !.snap = snap, !.write = write]
<1>0. t \in Writers
  BY ConnConstants
<1>1. job[t] \in JobT /\ Shape(t, job[t]) /\ JobOK(job[t])
  BY <1>0, JobKnown
<1>2. job' = [job EXCEPT ![t] = new]
  BY DEF ToWrite
<1>3. /\ new \in JobT /\ new.pc = "acquire" /\ new.kind = job[t].kind /\ new.rev = job[t].rev /\ new.id = job[t].id
      /\ new.snap = snap /\ new.write = write /\ new.run = job[t].run
  BY <1>1 DEF JobT
<1> HIDE DEF new
<1>4. Rendered(new)
  BY <1>3 DEF Rendered
<1>5. Shape(t, new) /\ JobOK(new)
  BY <1>1, <1>3, <1>4 DEF Shape, JobOK
<1> QED
  BY <1>2, <1>3, <1>5

\* Records and what a flow keeps of them.
LEMMA SnapTyped ==
    ASSUME NEW r \in RecT
    PROVE  /\ RunOf(r) \in RecT /\ RunOf(r).run = r.run /\ RunOf(r).dec = "-" /\ RunOf(r).last = "-"
           /\ PhaseOf(r) \in RecT /\ PhaseOf(r).run = r.run
BY ConnConstants DEF RunOf, PhaseOf, RecT

\* The lookup of serveDecision, serveLifecycle and serveRerun.
LEMMA LookupKeeps ==
    ASSUME ConnIInv, NEW t \in Posters, LookupCheckReport(t)
    PROVE  ConnIInv'
<1> DEFINE j == job[t]
           r == rec[j.rev]
<1>0. /\ UNCHANGED <<rec, pending, github, strays, todo, spent, faults>> /\ j.pc = "load"
      /\ t \in Writers /\ FaultsGrow /\ faults' \in Nat
  BY FaultAdds, ConnConstants DEF LookupCheckReport, At, memory
<1>1. j \in JobT /\ Shape(t, j) /\ JobOK(j)
  BY <1>0, JobKnown
<1>2. j.rev \in Revs
  BY <1>0, <1>1 DEF Shape
<1>3. r \in RecT /\ RecOK(j.rev)
  BY <1>2 DEF ConnIInv, ConnTypeOK, RecsOK
<1>4. Real(r.run, j.rev) /\ (Policy = "replay_cached" => r.dec = r.last)
  BY <1>3 DEF RecOK
<1>5. CASE j.kind = "decision" /\ ToWrite(t, RunOf(r), RenderDecision(j.id))
  <2>1. j.id \in Decided
    BY <1>0, <1>1, <1>5 DEF Shape
  <2>2. RenderDecision(j.id) \in WriteT /\ RenderDecision(j.id).status # "-"
    BY <2>1, DecidedConcludes
  <2>3. RunOf(r) \in RecT /\ Real(RunOf(r).run, j.rev)
    BY <1>3, <1>4, SnapTyped
  <2> QED
    BY <1>0, <1>5, <2>2, <2>3, ToWriteJob, MoveKeeps
<1>6. CASE j.kind = "lifecycle" /\ ToWrite(t, PhaseOf(r), RenderLifecycle(j.id))
  <2>1. j.id \in Open
    BY <1>0, <1>1, <1>6 DEF Shape
  <2>2. RenderLifecycle(j.id) \in WriteT /\ RenderLifecycle(j.id).status # "-"
    BY <2>1 DEF RenderLifecycle, WriteT, Phases, Open, Conclusions
  <2>3. PhaseOf(r) \in RecT /\ Real(PhaseOf(r).run, j.rev)
    BY <1>3, <1>4, SnapTyped
  <2> QED
    BY <1>0, <1>6, <2>2, <2>3, ToWriteJob, MoveKeeps
<1>7. CASE Reply(t, 200) \/ Reply(t, 404)
  BY <1>0, <1>7, ReplyKeeps DEF Codes
<1>8. CASE j.kind = "rerun_requested" /\ job' = [job EXCEPT ![t].pc = "allow", ![t].snap = r]
  <2> DEFINE new == [j EXCEPT !.pc = "allow", !.snap = r]
  <2>1. job' = [job EXCEPT ![t] = new]
    BY <1>8
  <2>2. new \in JobT /\ new.pc = "allow" /\ new.kind = j.kind /\ new.rev = j.rev /\ new.snap = r /\ new.run = j.run
    BY <1>1, <1>3 DEF JobT
  <2> HIDE DEF new
  <2>3. Shape(t, new) /\ JobOK(new)
    BY <1>0, <1>1, <1>2, <1>4, <1>8, <2>2 DEF Shape, JobOK
  <2> QED
    BY <1>0, <2>1, <2>2, <2>3, MoveKeeps
<1> QED
  BY <1>5, <1>6, <1>7, <1>8 DEF LookupCheckReport

\* Budget.Allow: the one step to the control-plane call.  It needs room.
LEMMA AllowKeeps ==
    ASSUME ConnIInv, NEW t \in Posters, Allow(t, Policy)
    PROVE  ConnIInv'
<1> DEFINE j == job[t]
<1>0. /\ UNCHANGED <<rec, pending, github, strays, todo, spent, faults>> /\ j.pc = "allow"
      /\ t \in Writers /\ FaultsGrow /\ faults' \in Nat
  BY FaultAdds, ConnConstants DEF Allow, At, memory
<1>1. j \in JobT /\ Shape(t, j) /\ JobOK(j)
  BY <1>0, JobKnown
<1>2. /\ j.rev \in Revs /\ j.kind = "rerun_requested" /\ Real(j.snap.run, j.rev) /\ j.snap \in RecT
      /\ Policy = "replay_cached" => j.snap.dec = j.snap.last
  BY <1>0, <1>1 DEF Shape, JobOK, JobT
<1>3. CASE ToWrite(t, j.snap, RenderRerunDeclined)
  <2>1. Justified(RenderRerunDeclined.concl, j.snap.dec) /\ RenderRerunDeclined.status = "completed" /\ RenderRerunDeclined \in WriteT
    BY ConnConstants DEF Justified
  <2> QED
    BY <1>0, <1>2, <1>3, <2>1, ToWriteJob, MoveKeeps
<1>4. CASE Reply(t, 202)
  BY <1>0, <1>4, ReplyKeeps DEF Codes
<1>5. CASE Policy = "replay_cached" /\ j.snap.last # "-" /\ ToWrite(t, j.snap, RenderCached(j.snap.last))
  <2>1. j.snap.last \in Decided /\ j.snap.dec = j.snap.last
    BY <1>2, <1>5 DEF RecT
  <2>2. /\ RenderCached(j.snap.last) \in WriteT /\ RenderCached(j.snap.last).status = "completed"
        /\ Justified(RenderCached(j.snap.last).concl, j.snap.dec)
    BY <2>1, DecidedConcludes DEF Justified
  <2> QED
    BY <1>0, <1>2, <1>5, <2>2, ToWriteJob, MoveKeeps
<1>6. CASE Allowed(j.rev) /\ Policy = "replan" /\ Goto(t, "ctrl")
  <2> DEFINE new == [j EXCEPT !.pc = "ctrl"]
  <2>1. job' = [job EXCEPT ![t] = new]
    BY <1>6 DEF Goto
  <2>2. /\ new \in JobT /\ new.pc = "ctrl" /\ new.kind = j.kind /\ new.rev = j.rev /\ new.snap = j.snap /\ new.run = j.run
    BY <1>1 DEF JobT
  <2> HIDE DEF new
  <2>3. Shape(t, new) /\ JobOK(new)
    BY <1>1, <1>2, <1>6, <2>2, <1>0 DEF Shape, JobOK
  <2>4. spent' \in [Revs -> Nat] /\ todo' \in [Loops -> Seq(Task)] /\ TodoOK'
    BY <1>0 DEF ConnIInv, ConnTypeOK, TodoOK, TaskOK, Real
  <2>5. job'[t] = new /\ \A u \in Writers : u # t => job'[u] = job[u]
    BY <1>0, <2>1 DEF ConnIInv, ConnTypeOK
  <2>6. RerunOverrunBounded'
    <3> SUFFICES ASSUME NEW v \in Revs
                 PROVE  spent'[v] + Cardinality(InCtrl(v)') <= MaxPerCandidate + Cardinality(Posters) - 1
      BY DEF RerunOverrunBounded, InCtrl
    <3>0. IsFiniteSet(Posters) /\ IsFiniteSet(InCtrl(v)') /\ IsFiniteSet(InCtrl(v))
      BY ConnectorConstants, FS_Subset DEF InCtrl
    <3>1. /\ Cardinality(Posters) \in Nat /\ Cardinality(InCtrl(v)) \in Nat /\ Cardinality(InCtrl(v)') \in Nat
          /\ Cardinality(InCtrl(v)') <= Cardinality(Posters)
      BY <3>0, FS_CardinalityType, FS_Subset DEF InCtrl
    <3>2. spent[v] \in Nat /\ spent'[v] = spent[v] /\ MaxPerCandidate \in Nat
      BY <1>0, ConnectorConstants DEF ConnIInv, ConnTypeOK
    <3>3. CASE v = j.rev
      BY <1>6, <3>1, <3>2, <3>3 DEF Allowed
    <3>4. CASE v # j.rev
      <4>1. InCtrl(v)' \subseteq InCtrl(v)
        BY <1>0, <2>2, <2>5, <3>4, ConnConstants DEF InCtrl, At
      <4>2. Cardinality(InCtrl(v)') <= Cardinality(InCtrl(v))
        BY <3>0, <4>1, FS_Subset
      <4>3. spent[v] + Cardinality(InCtrl(v)) <= MaxPerCandidate + Cardinality(Posters) - 1
        BY DEF ConnIInv, RerunOverrunBounded, InCtrl
      <4> QED
        BY <3>1, <3>2, <4>2, <4>3
    <3> QED
      BY <3>3, <3>4
  <2> QED
    BY <1>0, <2>1, <2>2, <2>3, <2>4, <2>6, QuietJob
<1> QED
  BY <1>3, <1>4, <1>5, <1>6, ConnectorConstants DEF Allow

\* The control-plane's answer; an accepted rerun is spent now.
LEMMA ReplanKeeps ==
    ASSUME ConnIInv, NEW t \in Posters, NEW answer, Replan(t, answer)
    PROVE  ConnIInv'
<1> DEFINE j == job[t]
<1>0. UNCHANGED <<rec, pending, github, strays, todo, faults>> /\ j.pc = "ctrl" /\ t \in Writers /\ FaultsGrow /\ faults' \in Nat
  BY FaultAdds, ConnConstants DEF Replan, At
<1>1. j \in JobT /\ Shape(t, j) /\ JobOK(j)
  BY <1>0, JobKnown
<1>2. /\ j.rev \in Revs /\ j.kind = "rerun_requested" /\ Real(j.snap.run, j.rev) /\ j.snap \in RecT
      /\ Policy = "replan"
  BY <1>0, <1>1 DEF Shape, JobOK, JobT
<1>3. CASE answer # "accepted"
  <2>1. UNCHANGED spent
    BY <1>3 DEF Replan
  <2>2. CASE Reply(t, 404)
    BY <1>0, <2>1, <2>2, ReplyKeeps DEF Codes
  <2>3. CASE ToWrite(t, j.snap, RenderRerunDeclined)
    <3>1. Justified(RenderRerunDeclined.concl, j.snap.dec) /\ RenderRerunDeclined.status = "completed" /\ RenderRerunDeclined \in WriteT
      BY ConnConstants DEF Justified
    <3> QED
      BY <1>0, <1>2, <2>1, <2>3, <3>1, ToWriteJob, MoveKeeps
  <2> QED
    BY <1>3, <2>2, <2>3 DEF Replan
<1>4. CASE answer = "accepted"
  <2>1. ToWrite(t, j.snap, RenderLifecycle("queued")) /\ spent' = [spent EXCEPT ![j.rev] = @ + 1]
    BY <1>4 DEF Replan
  <2>2. RenderLifecycle("queued") \in WriteT /\ RenderLifecycle("queued").status = "queued"
    BY DEF RenderLifecycle, WriteT, Phases, Conclusions
  <2>3. PICK new \in JobT : /\ job' = [job EXCEPT ![t] = new] /\ Shape(t, new) /\ JobOK(new)
                            /\ new.pc = "acquire" /\ new.rev = j.rev
    BY <1>0, <1>2, <2>1, <2>2, ToWriteJob
  <2>4. /\ spent \in [Revs -> Nat] /\ spent' \in [Revs -> Nat] /\ spent'[j.rev] = spent[j.rev] + 1
        /\ \A v \in Revs : v # j.rev => spent'[v] = spent[v]
    BY <1>2, <2>1 DEF ConnIInv, ConnTypeOK
  <2>5. todo' \in [Loops -> Seq(Task)] /\ TodoOK'
    BY <1>0 DEF ConnIInv, ConnTypeOK, TodoOK, TaskOK, Real
  <2>6. job'[t] = new /\ \A u \in Writers : u # t => job'[u] = job[u]
    BY <1>0, <2>3 DEF ConnIInv, ConnTypeOK
  <2>7. RerunOverrunBounded'
    <3> SUFFICES ASSUME NEW v \in Revs
                 PROVE  spent'[v] + Cardinality(InCtrl(v)') <= MaxPerCandidate + Cardinality(Posters) - 1
      BY DEF RerunOverrunBounded, InCtrl
    <3>0. IsFiniteSet(InCtrl(v))
      BY ConnectorConstants, FS_Subset DEF InCtrl
    <3>1. spent[v] + Cardinality(InCtrl(v)) <= MaxPerCandidate + Cardinality(Posters) - 1
      BY DEF ConnIInv, RerunOverrunBounded, InCtrl
    <3>2. Cardinality(Posters) \in Nat /\ Cardinality(InCtrl(v)) \in Nat /\ MaxPerCandidate \in Nat
      BY <3>0, ConnectorConstants, FS_CardinalityType
    <3>3. CASE v = j.rev
      <4>1. InCtrl(v)' = InCtrl(v) \ {t} /\ t \in InCtrl(v)
        BY <1>0, <2>3, <2>6, <3>3, ConnConstants DEF InCtrl, At
      <4>2. Cardinality(InCtrl(v)') = Cardinality(InCtrl(v)) - 1
        BY <3>0, <4>1, FS_RemoveElement
      <4> QED
        BY <2>4, <3>1, <3>2, <3>3, <4>2
    <3>4. CASE v # j.rev
      <4>1. InCtrl(v)' = InCtrl(v)
        BY <1>0, <2>3, <2>6, <3>4, ConnConstants DEF InCtrl, At
      <4> QED
        BY <2>4, <3>1, <3>4, <4>1
    <3> QED
      BY <3>3, <3>4
  <2> QED
    BY <1>0, <2>3, <2>4, <2>5, <2>7, QuietJob
<1> QED
  BY <1>3, <1>4

----------------------------------------------------------------------------

\* A step of one writer that may change the tables and GitHub.
LEMMA WriteKeeps ==
    ASSUME ConnIInv, UNCHANGED <<todo, spent>>, FaultsGrow, faults' \in Nat,
           github' \in Seq(CheckT), GitHubGrows, VisibleKept,
           pending' \in Seq(PendingT), QueueOK', rec' \in [Revs -> RecT], RecsOK',
           NEW w \in Writers, NEW new \in JobT, job' = [job EXCEPT ![w] = new],
           Shape(w, new), JobOK(new)', new.pc # "ctrl"
    PROVE  ConnIInv'
<1>1. spent' \in [Revs -> Nat] /\ todo' \in [Loops -> Seq(Task)] /\ TodoOK'
  BY TodoKept DEF ConnIInv, ConnTypeOK
<1>2. job'[w] = new /\ \A u \in Writers : u # w => job'[u] = job[u]
  BY DEF ConnIInv, ConnTypeOK
<1>3. \A v \in Revs : spent'[v] <= spent[v] /\ InCtrl(v)' \subseteq InCtrl(v)
  BY <1>1, <1>2, ConnConstants DEF InCtrl, At
<1>4. RerunOverrunBounded'
  BY <1>1, <1>3, BudgetKept
<1>5. job' \in [Writers -> JobT] /\ JobsOK'
  BY OneJob
<1> QED
  BY <1>1, <1>4, <1>5 DEF ConnIInv, ConnTypeOK

\* Rescheduling keeps the queue's keys and runs.
SameWrites ==
    /\ pending' \in Seq(PendingT) /\ Len(pending') = Len(pending)
    /\ \A i \in 1..Len(pending) : pending'[i].key = pending[i].key /\ pending'[i].run = pending[i].run

\* A step that moves due times of the queue only.
LEMMA SameWritesKeep ==
    ASSUME ConnIInv, SameWrites, UNCHANGED <<github, strays>>
    PROVE  pending' \in Seq(PendingT) /\ QueueOK' /\ VisibleKept /\ GitHubGrows /\ github' \in Seq(CheckT)
<1>1. QueueOK'
  BY DEF SameWrites, ConnIInv, QueueOK, Real
<1>2. VisibleKept
  BY DEF SameWrites, VisibleKept, Visible, OnGitHub
<1> QED
  BY <1>1, <1>2 DEF SameWrites, GitHubGrows, ConnIInv, ConnTypeOK

\* SetDue moves a due time only.
LEMMA SetDueSame ==
    ASSUME ConnIInv, NEW key, NEW due \in BOOLEAN, pending' = SetDue(key, due)
    PROVE  SameWrites
<1>0. PICK n \in Nat : n = Len(pending) /\ pending \in [1..n -> PendingT]
  BY DEF ConnIInv, ConnTypeOK
<1>1. ASSUME NEW i \in 1..n
      PROVE  /\ SetDue(key, due)[i] \in PendingT
             /\ SetDue(key, due)[i].key = pending[i].key /\ SetDue(key, due)[i].run = pending[i].run
  <2>1. pending[i] \in PendingT
    BY <1>0
  <2>2. SetDue(key, due)[i] = IF pending[i].key = key THEN [pending[i] EXCEPT !.due = due] ELSE pending[i]
    BY <1>0 DEF SetDue
  <2> QED
    BY <2>1, <2>2 DEF PendingT
<1>2. SetDue(key, due) \in [1..n -> PendingT]
  BY <1>0, <1>1 DEF SetDue
<1>3. pending' \in Seq(PendingT) /\ Len(pending') = n
  BY <1>2
<1> QED
  BY <1>0, <1>1, <1>3 DEF SameWrites

\* An enqueued write keeps its revision visible.
LEMMA EnqueueKeeps ==
    ASSUME ConnIInv, NEW key \in KeyT, NEW v, v = key[1], NEW run \in Nat, Real(run, v),
           pending' = Enqueue(pending, key, run), UNCHANGED <<github, strays>>
    PROVE  /\ pending' \in Seq(PendingT) /\ QueueOK' /\ VisibleKept /\ GitHubGrows /\ github' \in Seq(CheckT)
           /\ Visible(v)'
<1>1. PICK new \in PendingT : new = [key |-> key, run |-> run, due |-> TRUE] /\ new.key[1] = v /\ new.run = run
  <2> DEFINE new == [key |-> key, run |-> run, due |-> TRUE]
  <2>1. new \in PendingT /\ new.key = key /\ new.run = run
    BY DEF PendingT
  <2> QED
    BY <2>1
<1>2. PICK n \in Nat : n = Len(pending) /\ pending \in Seq(PendingT)
  BY DEF ConnIInv, ConnTypeOK
<1>3. CASE \E i \in 1..Len(pending) : pending[i].key = key
  <2>1. UNCHANGED pending
    BY <1>3 DEF Enqueue
  <2>2. SameWrites
    BY <1>2, <2>1 DEF SameWrites
  <2>3. Visible(v)'
    BY <1>3, <2>1 DEF Visible
  <2> QED
    BY <2>2, <2>3, SameWritesKeep
<1>4. CASE ~\E i \in 1..Len(pending) : pending[i].key = key
  <2>1. pending' = Append(pending, new)
    BY <1>1, <1>4 DEF Enqueue
  <2>2. /\ pending' \in Seq(PendingT) /\ Len(pending') = n + 1 /\ pending'[n + 1] = new
        /\ \A i \in 1..n : pending'[i] = pending[i]
    BY <1>1, <1>2, <2>1
  <2>3. Visible(v)' /\ VisibleKept
    BY <1>1, <1>2, <2>2, SMTT(30) DEF Visible, VisibleKept, OnGitHub
  <2>4. QueueOK'
    BY <1>1, <1>2, <2>2 DEF QueueOK, Real, ConnIInv
  <2> QED
    BY <2>2, <2>3, <2>4 DEF GitHubGrows, ConnIInv, ConnTypeOK
<1> QED
  BY <1>3, <1>4

ToSave(w, run) == job' = [job EXCEPT ![w].pc = "save", ![w].run = run]

\* The write is done: what save finds.
LEMMA SaveJob ==
    ASSUME ConnIInv, NEW w \in Writers, job[w].pc \in {"acquire", "call"}, NEW run \in Nat, ToSave(w, run)
    PROVE  \E new \in JobT : /\ job' = [job EXCEPT ![w] = new] /\ Shape(w, new) /\ new.pc = "save"
                             /\ new.kind = job[w].kind /\ new.rev = job[w].rev
                             /\ new.snap = job[w].snap /\ new.run = run
<1> DEFINE new == [job[w] EXCEPT !.pc = "save", !.run = run]
<1>1. job[w] \in JobT /\ Shape(w, job[w])
  BY JobKnown
<1>2. job' = [job EXCEPT ![w] = new]
  BY DEF ToSave
<1>3. /\ new \in JobT /\ new.pc = "save" /\ new.kind = job[w].kind /\ new.rev = job[w].rev /\ new.id = job[w].id
      /\ new.snap = job[w].snap /\ new.write = job[w].write /\ new.run = run
  BY <1>1 DEF JobT
<1> HIDE DEF new
<1>4. Shape(w, new)
  BY <1>1, <1>3 DEF Shape, Rendered
<1> QED
  BY <1>2, <1>3, <1>4

\* Gate.Do up to the first call.
LEMMA TryAcquireKeeps ==
    ASSUME ConnIInv, NEW w \in Writers, TryAcquire(w)
    PROVE  ConnIInv'
<1> DEFINE j == job[w]
<1>0. UNCHANGED <<rec, github, strays, todo, spent, faults>> /\ j.pc = "acquire" /\ FaultsGrow /\ faults' \in Nat
  BY FaultAdds DEF TryAcquire, At, rerunVars
<1>1. j \in JobT /\ Shape(w, j) /\ JobOK(j)
  BY JobKnown
<1>2. /\ j.rev \in Revs /\ j.write.status \in Phases /\ j.snap.run \in Nat /\ Real(j.snap.run, j.rev)
      /\ j.kind = "drain" => w \in Loops
  <2>1. j.rev \in Revs /\ j.write.status # "-" /\ (j.kind = "drain" => w \in Loops)
    BY <1>0, <1>1 DEF Shape, Rendered
  <2>2. j.snap \in RecT /\ j.write \in WriteT
    BY <1>1 DEF JobT
  <2>3. j.snap.run \in Nat /\ j.write.status \in Phases
    BY <2>1, <2>2 DEF RecT, WriteT
  <2> QED
    BY <1>0, <1>1, <2>1, <2>3 DEF JobOK
<1>3. CASE tokens > 0
  BY <1>0, <1>3, GotoKeeps DEF TryAcquire
<1>4. CASE ~(tokens > 0)
  <2>0. PICK v \in Revs : v = j.rev
    BY <1>2
  <2>1. /\ pending' = IF j.kind = "drain" THEN SetDue(KeyOf(j), FALSE) ELSE Enqueue(pending, KeyOf(j), j.snap.run)
        /\ job' = IF w \in Loops THEN [job EXCEPT ![w] = Idle] ELSE [job EXCEPT ![w].pc = "save", ![w].run = 0]
    BY <1>4 DEF TryAcquire
  <2>2. /\ pending' \in Seq(PendingT) /\ QueueOK' /\ VisibleKept /\ GitHubGrows /\ github' \in Seq(CheckT)
        /\ j.kind # "drain" => Visible(v)'
    <3>1. CASE j.kind = "drain"
      BY <1>0, <2>1, <3>1, SetDueSame, SameWritesKeep
    <3>2. CASE j.kind # "drain"
      <4>1. KeyOf(j) \in KeyT /\ KeyOf(j)[1] = v
        BY <1>2, <2>0 DEF KeyOf, KeyT
      <4>2. PICK key \in KeyT, run \in Nat : key = KeyOf(j) /\ v = key[1] /\ run = j.snap.run
        BY <1>2, <4>1
      <4> QED
        BY <1>0, <1>2, <2>0, <2>1, <3>2, <4>2, EnqueueKeeps
    <3> QED
      BY <3>1, <3>2
  <2>3. rec' \in [Revs -> RecT] /\ RecsOK'
    BY <1>0, <2>2, RecsKept
  <2>4. CASE w \in Loops
    <3>1. Idle \in JobT /\ Shape(w, Idle) /\ JobOK(Idle)' /\ Idle.pc # "ctrl"
      BY ConnConstants, RestedJob DEF JobOK
    <3> QED
      BY <1>0, <2>1, <2>2, <2>3, <2>4, <3>1, WriteKeeps
  <2>5. CASE w \notin Loops
    <3>1. PICK new \in JobT : /\ job' = [job EXCEPT ![w] = new] /\ Shape(w, new) /\ new.pc = "save"
                              /\ new.kind = j.kind /\ new.rev = j.rev /\ new.snap = j.snap /\ new.run = 0
      <4>1. ToSave(w, 0)
        BY <2>1, <2>5 DEF ToSave
      <4>2. job[w].pc \in {"acquire", "call"} /\ 0 \in Nat
        BY <1>0
      <4> QED
        BY <4>1, <4>2, SaveJob
    <3>2. Visible(new.rev)'
      <4>1. new.rev = v
        BY <2>0, <3>1
      <4> QED
        BY <1>2, <2>2, <2>5, <4>1
    <3>3. Real(new.run, new.rev)' /\ Real(new.snap.run, new.rev)'
      BY <1>0, <1>2, <3>1 DEF Real
    <3>4. JobOK(new)'
      BY <1>2, <2>5, <3>1, <3>2, <3>3 DEF JobOK
    <3> QED
      BY <1>0, <2>2, <2>3, <3>1, <3>4, WriteKeeps
  <2> QED
    BY <2>4, <2>5
<1> QED
  BY <1>3, <1>4

\* The writer gives up, or is done.
LEMMA EndsKeeps ==
    ASSUME ConnIInv, UNCHANGED <<rec, pending, github, strays, todo, spent>>, Fault \/ UNCHANGED faults,
           NEW w \in Writers, GiveUp(w) \/ Finish(w) \/ \E code \in Codes : Reply(w, code)
    PROVE  ConnIInv'
<1>1. FaultsGrow /\ faults' \in Nat
  BY FaultAdds
<1>2. \E code \in Codes : Reply(w, code) \/ job' = [job EXCEPT ![w] = Idle]
  BY DEF GiveUp, Finish, Codes
<1> QED
  BY <1>1, <1>2, ReplyKeeps

\* Without an installation the write counts as done.
LEMMA DryWriteKeeps ==
    ASSUME ConnIInv, NEW w \in Writers, DryWrite(w)
    PROVE  ConnIInv'
<1> DEFINE j == job[w]
<1>0. /\ UNCHANGED <<rec, pending, github, strays, todo, spent>> /\ j.pc \in {"acquire", "call"}
      /\ FaultsGrow /\ faults' \in Nat /\ faults' # 0
  BY FaultAdds DEF DryWrite, Resolving, At, memory, Fault, ConnIInv, ConnTypeOK
<1>1. j \in JobT /\ Shape(w, j) /\ JobOK(j)
  BY JobKnown
<1>2. j.snap.run \in Nat /\ Real(j.snap.run, j.rev)
  <2>1. j.snap \in RecT
    BY <1>1 DEF JobT
  <2> QED
    BY <1>0, <1>1, <2>1 DEF RecT, JobOK
<1>3. PICK run \in Nat : run = j.snap.run
  BY <1>2
<1>4. PICK new \in JobT : /\ job' = [job EXCEPT ![w] = new] /\ Shape(w, new) /\ new.pc = "save"
                          /\ new.kind = j.kind /\ new.rev = j.rev /\ new.snap = j.snap /\ new.run = run
  <2>1. ToSave(w, run)
    BY <1>3 DEF DryWrite, ToSave
  <2>2. job[w].pc \in {"acquire", "call"}
    BY <1>0
  <2> QED
    BY <2>1, <2>2, SaveJob
<1>5. Real(new.run, new.rev)' /\ Real(new.snap.run, new.rev)'
  BY <1>0, <1>2, <1>3, <1>4 DEF Real
<1>6. JobOK(new)'
  BY <1>0, <1>5 DEF JobOK
<1>7. SameWrites
  BY <1>0 DEF SameWrites, ConnIInv, ConnTypeOK
<1>8. pending' \in Seq(PendingT) /\ QueueOK' /\ VisibleKept /\ GitHubGrows /\ github' \in Seq(CheckT)
  BY <1>0, <1>7, SameWritesKeep
<1>9. rec' \in [Revs -> RecT] /\ RecsOK'
  BY <1>0, <1>8, RecsKept
<1> QED
  BY <1>0, <1>4, <1>6, <1>8, <1>9, WriteKeeps

\* What a call leaves at GitHub: revisions keep their runs.
LEMMA CallGrows ==
    ASSUME ConnIInv, NEW j \in JobT, j.rev \in Revs, Real(j.snap.run, j.rev), UNCHANGED pending,
           NEW m, m = Len(github) + 1,
           Answer(j) \/ NoAnswer(j) \/ UNCHANGED <<github, strays>>
    PROVE  /\ github' \in Seq(CheckT) /\ GitHubGrows /\ VisibleKept
           /\ Answer(j) =>
                 /\ OnGitHub(j.rev)'
                 /\ j.snap.run = 0 /\ j.kind # "drain" => Real(m, j.rev)'
<1>0. PICK n \in Nat : n = Len(github) /\ github \in Seq(CheckT)
  BY DEF ConnIInv, ConnTypeOK
<1>1. Shown(j) \in CheckT /\ Shown(j).rev = j.rev
  <2>1. j.write \in WriteT
    BY DEF JobT
  <2>2. j.write.status \in Phases \cup {"-"}
    BY <2>1 DEF WriteT
  <2> QED
    BY <2>2 DEF Shown, CheckT
<1>2. PICK run \in Nat : run = j.snap.run
  <2>1. j.snap \in RecT
    BY DEF JobT
  <2> QED
    BY <2>1 DEF RecT
<1>3. PICK shown \in CheckT : shown = Shown(j) /\ shown.rev = j.rev
  BY <1>1
<1>4. CASE run > 0 /\ github' = [github EXCEPT ![run] = shown] /\ UNCHANGED strays
  <2>1. run \in 1..n /\ github[run].rev = j.rev
    BY <1>0, <1>2, <1>4 DEF Real
  <2>2. /\ github' \in Seq(CheckT) /\ Len(github') = n /\ github'[run] = shown
        /\ \A i \in 1..n : i # run => github'[i] = github[i]
    BY <1>0, <1>4, <2>1
  <2>3. GitHubGrows /\ OnGitHub(j.rev)'
    BY <1>0, <1>3, <1>4, <2>1, <2>2 DEF GitHubGrows, OnGitHub
  <2>4. VisibleKept
    BY <1>0, <2>2, <2>3, RealKept DEF VisibleKept, Visible
  <2> QED
    BY <1>2, <1>4, <2>2, <2>3, <2>4
<1>5. CASE run = 0 /\ strays' = strays \cup {j.rev} /\ UNCHANGED github /\ (Answer(j) => j.kind = "drain")
  <2>1. GitHubGrows /\ OnGitHub(j.rev)' /\ github' \in Seq(CheckT)
    BY <1>0, <1>5 DEF GitHubGrows, OnGitHub
  <2>2. VisibleKept
    BY <1>0, <2>1, RealKept DEF VisibleKept, Visible
  <2> QED
    BY <1>5, <2>1, <2>2
<1>6. CASE run = 0 /\ github' = Append(github, shown) /\ UNCHANGED strays
  <2>1. /\ github' \in Seq(CheckT) /\ Len(github') = n + 1 /\ github'[n + 1] = shown
        /\ \A i \in 1..n : github'[i] = github[i]
    BY <1>0, <1>6
  <2>2. GitHubGrows /\ OnGitHub(j.rev)'
    BY <1>0, <1>3, <1>6, <2>1 DEF GitHubGrows, OnGitHub
  <2>3. VisibleKept
    BY <1>0, <2>1, <2>2, RealKept DEF VisibleKept, Visible
  <2>4. n + 1 \in 1..Len(github') /\ github'[n + 1].rev = j.rev
    BY <1>3, <2>1
  <2>5. Real(m, j.rev)'
    BY <1>0, <2>4 DEF Real
  <2> QED
    BY <2>1, <2>2, <2>3, <2>5
<1>7. CASE ~Answer(j) /\ UNCHANGED <<github, strays>>
  <2>1. GitHubGrows /\ VisibleKept /\ github' \in Seq(CheckT)
    BY <1>0, <1>7 DEF GitHubGrows, VisibleKept, Visible, OnGitHub
  <2> QED
    BY <1>7, <2>1
<1> QED
  BY <1>2, <1>3, <1>4, <1>5, <1>6, <1>7 DEF Answer, NoAnswer

\* LivePublisher.Create and Update, answered.
LEMMA CallKeeps ==
    ASSUME ConnIInv, NEW w \in Writers, CallGitHub(w)
    PROVE  ConnIInv'
<1>0. UNCHANGED <<rec, pending, todo, spent, faults>> /\ job[w].pc = "call" /\ FaultsGrow /\ faults' \in Nat
  BY FaultAdds DEF CallGitHub, At, memory
<1>1. PICK j \in JobT : j = job[w] /\ Shape(w, j) /\ JobOK(j)
  BY JobKnown
<1>2. PICK m \in Nat, n \in Nat : m = Len(github) + 1 /\ n = Len(github)
  BY DEF ConnIInv, ConnTypeOK
<1>3. j.rev \in Revs /\ Real(j.snap.run, j.rev) /\ j.snap.run \in Nat
  <2>1. j.snap \in RecT
    BY DEF JobT
  <2> QED
    BY <1>0, <1>1, <2>1 DEF Shape, JobOK, RecT
<1>4. Answer(j) /\ ToSave(w, IF j.snap.run > 0 THEN j.snap.run ELSE IF j.kind = "drain" THEN 0 ELSE m)
  BY <1>1, <1>2 DEF CallGitHub, ToSave
<1>5. /\ github' \in Seq(CheckT) /\ GitHubGrows /\ VisibleKept /\ OnGitHub(j.rev)'
      /\ j.snap.run = 0 /\ j.kind # "drain" => Real(m, j.rev)'
  BY <1>0, <1>2, <1>3, <1>4, CallGrows
<1>6. PICK run \in Nat : run = IF j.snap.run > 0 THEN j.snap.run ELSE IF j.kind = "drain" THEN 0 ELSE m
  BY <1>3
<1>7. PICK new \in JobT : /\ job' = [job EXCEPT ![w] = new] /\ Shape(w, new) /\ new.pc = "save"
                          /\ new.kind = j.kind /\ new.rev = j.rev /\ new.snap = j.snap /\ new.run = run
  <2>1. job[w].pc \in {"acquire", "call"} /\ ToSave(w, run)
    BY <1>0, <1>4, <1>6
  <2> QED
    BY <1>1, <2>1, SaveJob
<1>8. \A r, v : Real(r, v) => Real(r, v)'
  BY <1>5, RealKept DEF ConnIInv, ConnTypeOK
<1>9. Real(new.snap.run, new.rev)' /\ Real(new.run, new.rev)' /\ OnGitHub(new.rev)' /\ Visible(new.rev)'
  <2>1. Real(j.snap.run, j.rev)' /\ Real(0, j.rev)'
    BY <1>3, <1>8 DEF Real
  <2>2. Real(run, j.rev)'
    BY <1>3, <1>5, <1>6, <2>1
  <2> QED
    BY <1>5, <1>7, <2>1, <2>2 DEF Visible
<1>10. JobOK(new)'
  BY <1>9 DEF JobOK
<1>11. rec' \in [Revs -> RecT] /\ RecsOK' /\ pending' \in Seq(PendingT) /\ QueueOK'
  BY <1>0, <1>5, RecsKept, QueueKept
<1> QED
  BY <1>0, <1>5, <1>7, <1>10, <1>11, WriteKeeps

\* A writer gives its write up; a drained one is rescheduled.
LEMMA GiveUpKeeps ==
    ASSUME ConnIInv, NEW w \in Writers, NEW j, GiveUp(w),
           pending' = IF j.kind = "drain" THEN SetDue(KeyOf(j), FALSE) ELSE pending,
           UNCHANGED <<rec, todo, spent>>, FaultsGrow, faults' \in Nat, faults' # 0,
           github' \in Seq(CheckT), GitHubGrows, VisibleKept, rec' \in [Revs -> RecT], RecsOK',
           \A r, v : Real(r, v) => Real(r, v)'
    PROVE  ConnIInv'
<1>1. SameWrites
  <2>1. CASE j.kind = "drain"
    BY <2>1, SetDueSame
  <2>2. CASE j.kind # "drain"
    BY <2>2 DEF SameWrites, ConnIInv, ConnTypeOK
  <2> QED
    BY <2>1, <2>2
<1>2. pending' \in Seq(PendingT) /\ QueueOK'
  BY <1>1 DEF SameWrites, QueueOK, ConnIInv
<1>3. PICK new \in JobT : job' = [job EXCEPT ![w] = new] /\ new.pc \in {"idle", "answered"} /\ new.snap.run = 0 /\ new.run = 0
  <2>0. PICK code \in Codes : code = 502
    BY DEF Codes
  <2> DEFINE answered == [Idle EXCEPT !.pc = "answered", !.code = code]
  <2>1. answered \in JobT /\ answered.pc = "answered" /\ answered.snap = NoRec /\ answered.run = 0
    BY RestedJob
  <2>2. job' = [job EXCEPT ![w] = answered] \/ job' = [job EXCEPT ![w] = Idle]
    BY <2>0 DEF GiveUp, Reply
  <2> HIDE DEF answered
  <2>3. NoRec.run = 0 /\ Idle \in JobT /\ Idle.pc = "idle" /\ Idle.snap = NoRec /\ Idle.run = 0
    BY ConnConstants
  <2>4. CASE job' = [job EXCEPT ![w] = answered]
    BY <2>1, <2>3, <2>4
  <2>5. CASE job' = [job EXCEPT ![w] = Idle]
    BY <2>3, <2>5
  <2> QED
    BY <2>2, <2>4, <2>5
<1>4. Shape(w, new) /\ JobOK(new)' /\ new.pc # "ctrl"
  BY <1>3 DEF Shape, JobOK, Real
<1> QED
  BY <1>2, <1>3, <1>4, WriteKeeps

\* The client of the installation cannot be built.
LEMMA ResolveFailsKeeps ==
    ASSUME ConnIInv, NEW w \in Writers, ResolveFails(w)
    PROVE  ConnIInv'
<1>0. /\ UNCHANGED <<rec, github, strays, todo, spent>> /\ FaultsGrow /\ faults' \in Nat /\ faults' # 0
      /\ GiveUp(w)
  BY FaultAdds DEF ResolveFails, memory, Fault, ConnIInv, ConnTypeOK
<1>1. PICK j : j = job[w]
  OBVIOUS
<1>2. pending' = IF j.kind = "drain" THEN SetDue(KeyOf(j), FALSE) ELSE pending
  BY <1>1 DEF ResolveFails
<1>3. github' \in Seq(CheckT) /\ GitHubGrows /\ VisibleKept /\ \A r, v : Real(r, v) => Real(r, v)'
  BY <1>0 DEF ConnIInv, ConnTypeOK, GitHubGrows, VisibleKept, Real
<1>4. rec' \in [Revs -> RecT] /\ RecsOK'
  BY <1>0, <1>3, RecsKept
<1> QED
  BY <1>0, <1>2, <1>3, <1>4, GiveUpKeeps

\* A call that fails, with or without effect.
LEMMA CallFailsKeeps ==
    ASSUME ConnIInv, NEW w \in Writers, CallFails(w)
    PROVE  ConnIInv'
<1>0. UNCHANGED <<rec, todo, spent>> /\ job[w].pc = "call" /\ FaultsGrow /\ faults' \in Nat /\ faults' # 0
  BY FaultAdds DEF CallFails, At, memory, Fault, ConnIInv, ConnTypeOK
<1>1. PICK j \in JobT : j = job[w] /\ Shape(w, j) /\ JobOK(j)
  BY JobKnown
<1>2. j.rev \in Revs /\ Real(j.snap.run, j.rev)
  BY <1>0, <1>1 DEF Shape, JobOK
<1>3. NoAnswer(j) \/ UNCHANGED <<github, strays>>
  BY <1>1 DEF CallFails
<1>4. github' \in Seq(CheckT) /\ GitHubGrows
  <2>1. PICK n \in Nat, run \in Nat, shown \in CheckT :
           n = Len(github) /\ github \in Seq(CheckT) /\ run = j.snap.run /\ shown = Shown(j) /\ shown.rev = j.rev
    <3>1. j.snap \in RecT /\ j.write \in WriteT
      BY DEF JobT
    <3>2. Shown(j) \in CheckT /\ Shown(j).rev = j.rev
      BY <1>2, <3>1 DEF Shown, CheckT, WriteT
    <3> QED
      BY <3>1, <3>2 DEF ConnIInv, ConnTypeOK, RecT
  <2>2. CASE run > 0 /\ github' = [github EXCEPT ![run] = shown] /\ UNCHANGED strays
    <3>1. run \in 1..n /\ github[run].rev = j.rev
      BY <1>2, <2>1, <2>2 DEF Real
    <3>2. /\ github' \in Seq(CheckT) /\ Len(github') = n /\ github'[run] = shown
          /\ \A i \in 1..n : i # run => github'[i] = github[i]
      BY <2>1, <2>2, <3>1
    <3> QED
      BY <2>1, <2>2, <3>1, <3>2 DEF GitHubGrows
  <2>3. CASE UNCHANGED github /\ strays \subseteq strays'
    BY <2>1, <2>3 DEF GitHubGrows
  <2> QED
    BY <1>3, <2>1, <2>2, <2>3 DEF NoAnswer
<1>5. VisibleKept
  BY <1>0 DEF VisibleKept
<1>6. rec' \in [Revs -> RecT] /\ RecsOK'
  BY <1>0, <1>4, <1>5, RecsKept
<1>7. \A r, v : Real(r, v) => Real(r, v)'
  BY <1>4, RealKept DEF ConnIInv, ConnTypeOK
<1>8. CASE job' = [job EXCEPT ![w].tries = @ + 1] /\ UNCHANGED pending
  <2> DEFINE new == [j EXCEPT !.tries = @ + 1]
  <2>1. job' = [job EXCEPT ![w] = new]
    BY <1>1, <1>8
  <2>2. /\ new \in JobT /\ new.pc = "call" /\ new.kind = j.kind /\ new.rev = j.rev /\ new.id = j.id
        /\ new.snap = j.snap /\ new.write = j.write /\ new.run = j.run
    BY <1>0, <1>1 DEF JobT
  <2> HIDE DEF new
  <2>3. Shape(w, new)
    BY <1>0, <1>1, <2>2 DEF Shape, Rendered
  <2>4. Real(j.snap.run, j.rev)' /\ Real(j.run, j.rev)'
    BY <1>0, <1>1, <1>7 DEF JobOK
  <2>5. Real(new.snap.run, new.rev)' /\ Real(new.run, new.rev)'
    BY <2>2, <2>4
  <2>6. JobOK(new)'
    BY <2>2, <2>5 DEF JobOK
  <2>7. pending' \in Seq(PendingT) /\ QueueOK'
    BY <1>4, <1>8, QueueKept
  <2> QED
    BY <1>0, <1>4, <1>5, <1>6, <2>1, <2>2, <2>3, <2>6, <2>7, WriteKeeps
<1>9. CASE GiveUp(w) /\ pending' = IF j.kind = "drain" THEN SetDue(KeyOf(j), FALSE) ELSE pending
  BY <1>0, <1>4, <1>5, <1>6, <1>7, <1>9, GiveUpKeeps
<1> QED
  BY <1>1, <1>8, <1>9 DEF CallFails

\* The queue loses the one write of a key.
LEMMA RemoveAtEntries ==
    ASSUME NEW S, NEW s \in Seq(S), NEW i \in 1..Len(s)
    PROVE  /\ RemoveAt(s, i) \in Seq(S)
           /\ \A k \in 1..Len(RemoveAt(s, i)) : \E m \in 1..Len(s) : RemoveAt(s, i)[k] = s[m]
           /\ \A m \in 1..Len(s) : m # i => \E k \in 1..Len(RemoveAt(s, i)) : RemoveAt(s, i)[k] = s[m]
<1>0. PICK n \in Nat : n = Len(s) /\ i \in 1..n /\ i \in Int /\ \A k \in 1..n : s[k] \in S
  OBVIOUS
<1>1. PICK a, b, c : a = SubSeq(s, 1, i - 1) /\ b = SubSeq(s, i + 1, n) /\ c = RemoveAt(s, i)
  OBVIOUS
<1>2. a \in Seq(S) /\ Len(a) = i - 1 /\ \A k \in 1..(i - 1) : a[k] = s[k]
  <2>1. 1 \in Int /\ i - 1 \in Int /\ \A k \in 1..(i - 1) : s[k] \in S
    BY <1>0
  <2>2. a \in Seq(S) /\ Len(a) = (IF 1 <= i - 1 THEN (i - 1) - 1 + 1 ELSE 0) /\ \A k \in 1..((i - 1) - 1 + 1) : a[k] = s[1 + k - 1]
    BY <1>1, <2>1, SubSeqProperties
  <2> QED
    BY <1>0, <2>2
<1>3. b \in Seq(S) /\ Len(b) = n - i /\ \A k \in 1..(n - i) : b[k] = s[k + i]
  <2>1. i + 1 \in Int /\ n \in Int /\ \A k \in (i + 1)..n : s[k] \in S
    BY <1>0
  <2>2. b \in Seq(S) /\ Len(b) = (IF i + 1 <= n THEN n - (i + 1) + 1 ELSE 0) /\ \A k \in 1..(n - (i + 1) + 1) : b[k] = s[(i + 1) + k - 1]
    BY <1>1, <2>1, SubSeqProperties
  <2> QED
    BY <1>0, <2>2
<1>4. c = a \o b
  BY <1>0, <1>1 DEF RemoveAt
<1>5. /\ c \in Seq(S) /\ Len(c) = Len(a) + Len(b)
      /\ \A k \in 1..(Len(a) + Len(b)) : c[k] = IF k <= Len(a) THEN a[k] ELSE b[k - Len(a)]
  BY <1>2, <1>3, <1>4, ConcatProperties
<1>6. Len(c) = n - 1
  BY <1>0, <1>2, <1>3, <1>5
<1>7. ASSUME NEW k \in 1..(n - 1) PROVE c[k] = IF k < i THEN s[k] ELSE s[k + 1]
  <2>1. CASE k < i
    <3>1. c[k] = a[k] /\ k \in 1..(i - 1)
      BY <1>0, <1>2, <1>3, <1>5, <2>1
    <3> QED
      BY <1>2, <2>1, <3>1
  <2>2. CASE ~(k < i)
    <3>0. PICK h \in Int : h = k - (i - 1)
      BY <1>0
    <3>1. h \in 1..(n - i) /\ h + i = k + 1 /\ k \in 1..(Len(a) + Len(b)) /\ ~(k <= Len(a)) /\ k - Len(a) = h
      BY <1>0, <1>2, <1>3, <2>2, <3>0
    <3>2. c[k] = b[h]
      BY <1>5, <3>1
    <3> QED
      BY <1>3, <2>2, <3>1, <3>2
  <2> QED
    BY <2>1, <2>2
<1>8. ASSUME NEW k \in 1..(n - 1) PROVE \E m \in 1..n : c[k] = s[m]
  <2>1. k \in 1..n /\ k + 1 \in 1..n
    BY <1>0
  <2> QED
    BY <1>7, <2>1
<1>9. ASSUME NEW m \in 1..n, m # i PROVE \E k \in 1..(n - 1) : c[k] = s[m]
  <2>1. CASE m < i
    <3>1. m \in 1..(n - 1)
      BY <1>0, <2>1
    <3> QED
      BY <1>7, <2>1, <3>1
  <2>2. CASE ~(m < i)
    <3>0. PICK k \in Int : k = m - 1
      BY <1>0
    <3>1. k \in 1..(n - 1) /\ k + 1 = m /\ ~(k < i)
      BY <1>0, <1>9, <2>2, <3>0
    <3> QED
      BY <1>7, <3>1
  <2> QED
    BY <2>1, <2>2
<1> QED
  BY <1>0, <1>1, <1>5, <1>6, <1>8, <1>9

\* MarkDelivered: the writes that stay keep their runs, and the revision of
\* the one that goes is on GitHub.
LEMMA WithoutKeeps ==
    ASSUME ConnIInv, NEW key, NEW v, v = key[1], pending' = Without(key), UNCHANGED <<github, strays, faults>>,
           faults = 0 => OnGitHub(v)
    PROVE  pending' \in Seq(PendingT) /\ QueueOK' /\ VisibleKept /\ GitHubGrows /\ github' \in Seq(CheckT)
<1> DEFINE at == {i \in 1..Len(pending) : pending[i].key = key}
<1>0. PICK n \in Nat : n = Len(pending) /\ pending \in Seq(PendingT)
  BY DEF ConnIInv, ConnTypeOK
<1>1. GitHubGrows /\ github' \in Seq(CheckT)
  BY DEF GitHubGrows, ConnIInv, ConnTypeOK
<1>2. CASE at = {}
  <2>1. UNCHANGED pending
    BY <1>2 DEF Without
  <2>2. SameWrites
    BY <1>0, <2>1 DEF SameWrites
  <2> QED
    BY <2>2, SameWritesKeep
<1>3. CASE at # {}
  <2>1. PICK i \in 1..n : i = (CHOOSE x \in at : TRUE) /\ pending[i].key = key
    BY <1>0, <1>3
  <2>2. pending' = RemoveAt(pending, i)
    BY <1>3, <2>1 DEF Without
  <2>3. /\ pending' \in Seq(PendingT)
        /\ \A k \in 1..Len(pending') : \E m \in 1..n : pending'[k] = pending[m]
        /\ \A m \in 1..n : m # i => \E k \in 1..Len(pending') : pending'[k] = pending[m]
    <3>1. PICK q \in Seq(PendingT) : q = pending /\ n = Len(q)
      BY <1>0
    <3>2. RemoveAt(q, i) = pending'
      BY <2>2, <3>1
    <3> HIDE DEF at
    <3>3. i \in 1..Len(q)
      BY <2>1, <3>1
    <3>4. /\ RemoveAt(q, i) \in Seq(PendingT)
          /\ \A k \in 1..Len(RemoveAt(q, i)) : \E m \in 1..Len(q) : RemoveAt(q, i)[k] = q[m]
          /\ \A m \in 1..Len(q) : m # i => \E k \in 1..Len(RemoveAt(q, i)) : RemoveAt(q, i)[k] = q[m]
      BY <3>3, RemoveAtEntries
    <3>5. PICK rest : rest = RemoveAt(q, i)
      OBVIOUS
    <3>6. /\ rest \in Seq(PendingT)
          /\ \A k \in 1..Len(rest) : \E m \in 1..n : rest[k] = pending[m]
          /\ \A m \in 1..n : m # i => \E k \in 1..Len(rest) : rest[k] = pending[m]
      BY <3>1, <3>4, <3>5, Zenon
    <3>7. pending' = rest
      BY <3>2, <3>5
    <3> QED
      BY <3>6, <3>7, Zenon
  <2>4. QueueOK'
    BY <1>0, <2>3 DEF QueueOK, Real, ConnIInv
  <2>5. ASSUME faults' = 0, NEW u \in Revs, Visible(u) PROVE Visible(u)'
    <3>1. CASE OnGitHub(u)
      BY <3>1 DEF Visible, OnGitHub
    <3>2. CASE ~OnGitHub(u)
      <4>1. PICK m \in 1..n : pending[m].key[1] = u
        BY <1>0, <2>5, <3>2 DEF Visible
      <4>2. m # i
        BY <2>1, <2>5, <3>2, <4>1
      <4> QED
        BY <2>3, <4>1, <4>2 DEF Visible
    <3> QED
      BY <3>1, <3>2
  <2> QED
    BY <1>1, <2>3, <2>4, <2>5 DEF VisibleKept
<1> QED
  BY <1>2, <1>3

\* A record, by its fields.
LEMMA RecFields ==
    ASSUME NEW r \in RecT
    PROVE  /\ r.run \in Nat /\ r.phase \in Phases \cup {"none"} /\ r.concl \in Conclusions
           /\ r.dec \in Decided \cup {"-"} /\ r.last \in Decided \cup {"-"}
BY DEF RecT

\* RecordCheckReport's merge, of a report in which a completed phase carries
\* a justified conclusion.
LEMMA UpsertKeeps ==
    ASSUME NEW r \in RecT, NEW s \in RecT, s.phase # "none",
           s.phase = "completed" =>
              Justified(s.concl, IF s.dec # "-" THEN s.dec ELSE r.dec)
    PROVE  LET u == Upsert(r, s) IN
           /\ u \in RecT /\ u.run \in {r.run, s.run} /\ u.phase = s.phase
           /\ u.phase = "completed" => Justified(u.concl, u.dec)
           /\ s.dec = s.last /\ r.dec = r.last => u.dec = u.last
<1> DEFINE u == Upsert(r, s)
<1>1. /\ u.run = (IF s.run # 0 THEN s.run ELSE r.run) /\ u.phase = s.phase
      /\ u.concl = (IF s.phase = "completed" \/ r.phase = Untracked THEN s.concl ELSE r.concl)
      /\ u.dec = (IF s.dec # "-" THEN s.dec ELSE r.dec) /\ u.last = (IF s.last # "-" THEN s.last ELSE r.last)
      /\ u = [run |-> u.run, phase |-> u.phase, concl |-> u.concl, dec |-> u.dec, last |-> u.last]
  BY DEF Upsert
<1> HIDE DEF u
<1>2. /\ u.run \in Nat /\ u.phase \in Phases \cup {"none"} /\ u.concl \in Conclusions
      /\ u.dec \in Decided \cup {"-"} /\ u.last \in Decided \cup {"-"}
  BY <1>1, RecFields
<1>3. u \in RecT
  BY <1>1, <1>2 DEF RecT
<1>4. u.phase = "completed" => Justified(u.concl, u.dec)
  BY <1>1
<1>5. s.dec = s.last /\ r.dec = r.last => u.dec = u.last
  BY <1>1
<1> QED
  BY <1>1, <1>3, <1>4, <1>5 DEF u

\* What each flow saves is a report that keeps the record's invariant.
LEMMA SavedKeeps ==
    ASSUME ConnIInv, NEW w \in Writers, NEW j \in JobT, Shape(w, j), JobOK(j), j.pc = "save", j.kind # "drain"
    PROVE  LET s == Saved(j) IN
           /\ s \in RecT /\ s.phase # "none" /\ Real(s.run, j.rev)
           /\ s.phase = "completed" => Justified(s.concl, s.dec) \/ s.concl = "neutral"
           /\ Policy = "replay_cached" => s.dec = s.last
<1>1. /\ j.kind \in {"decision", "lifecycle", "rerun_requested", "sweep"} /\ Rendered(j)
      /\ j.run \in Nat /\ j.snap \in RecT /\ j.write \in WriteT
  BY DEF Shape, JobT
<1>2. Real(j.run, j.rev) /\ Real(j.snap.run, j.rev)
  BY DEF JobOK
<1>3. CASE j.kind = "decision"
  <2> DEFINE s == [run |-> j.run, phase |-> "completed", concl |-> j.write.concl, dec |-> j.id, last |-> j.id]
  <2>1. j.id \in Decided /\ j.write = RenderDecision(j.id)
    BY <1>1, <1>3 DEF Shape, Rendered
  <2>2. j.write.concl = ConclusionForVerb(Verb[j.id]) /\ j.write.concl \in Conclusions /\ j.id # "-"
    BY <2>1, DecidedConcludes
  <2>3. s \in RecT /\ s.run = j.run /\ s.phase = "completed" /\ s.concl = j.write.concl /\ s.dec = j.id /\ s.last = j.id
    BY <1>1, <2>1, <2>2 DEF RecT, Phases
  <2>4. Saved(j) = s
    BY <1>3 DEF Saved
  <2> HIDE DEF s
  <2> QED
    BY <1>2, <2>2, <2>3, <2>4 DEF Justified
<1>4. CASE j.kind = "lifecycle"
  <2> DEFINE s == [NoRec EXCEPT !.run = j.run, !.phase = j.id]
  <2>1. j.id \in {"queued", "in_progress"}
    BY <1>4 DEF Shape, Open
  <2>2. s \in RecT /\ s.run = j.run /\ s.phase = j.id /\ s.dec = "-" /\ s.last = "-"
    BY <1>1, <2>1, ConnConstants DEF RecT, Phases
  <2>3. Saved(j) = s
    BY <1>4 DEF Saved
  <2> HIDE DEF s
  <2> QED
    BY <1>2, <2>1, <2>2, <2>3
<1>5. CASE j.kind = "rerun_requested"
  <2> DEFINE s == [run |-> j.snap.run, phase |-> j.write.status, concl |-> j.write.concl,
                   dec |-> IF j.write.status = "queued" THEN "-" ELSE j.snap.dec, last |-> j.snap.last]
  <2>1. /\ j.snap.run \in Nat /\ j.snap.dec \in Decided \cup {"-"} /\ j.snap.last \in Decided \cup {"-"}
        /\ j.write.status \in Phases /\ j.write.concl \in Conclusions
    BY <1>1, RecFields DEF WriteT, Rendered
  <2>2. /\ s \in RecT /\ s.run = j.snap.run /\ s.phase = j.write.status /\ s.concl = j.write.concl
        /\ s.dec = (IF j.write.status = "queued" THEN "-" ELSE j.snap.dec) /\ s.last = j.snap.last
    BY <2>1 DEF RecT
  <2>3. Saved(j) = s
    BY <1>5 DEF Saved
  <2> HIDE DEF s
  <2>4. /\ j.write.status = "completed" => Justified(j.write.concl, j.snap.dec)
        /\ Policy = "replay_cached" => j.write.status = "completed" /\ j.snap.dec = j.snap.last
    BY <1>1, <1>5 DEF Rendered, Shape
  <2> QED
    BY <1>2, <2>1, <2>2, <2>3, <2>4 DEF Phases
<1>6. CASE j.kind = "sweep"
  <2> DEFINE s == [NoRec EXCEPT !.run = j.run, !.phase = "completed", !.concl = "neutral"]
  <2>1. s \in RecT /\ s.run = j.run /\ s.phase = "completed" /\ s.concl = "neutral" /\ s.dec = "-" /\ s.last = "-"
    BY <1>1, ConnConstants DEF RecT, Phases, Conclusions
  <2>2. Saved(j) = s
    BY <1>6 DEF Saved
  <2> HIDE DEF s
  <2> QED
    BY <1>2, <2>1, <2>2
<1> QED
  BY <1>1, <1>3, <1>4, <1>5, <1>6

\* The save of a report.
LEMMA RecordKeeps ==
    ASSUME ConnIInv, NEW v \in Revs, NEW s \in RecT, s.phase # "none", Real(s.run, v),
           s.phase = "completed" => Justified(s.concl, s.dec) \/ s.concl = "neutral",
           Policy = "replay_cached" => s.dec = s.last,
           faults = 0 => Visible(v),
           rec' = [rec EXCEPT ![v] = Upsert(@, s)], UNCHANGED <<pending, github, strays, faults>>
    PROVE  rec' \in [Revs -> RecT] /\ RecsOK'
<1>1. rec \in [Revs -> RecT] /\ rec[v] \in RecT /\ \A x \in Revs : RecOK(x)
  BY DEF ConnIInv, ConnTypeOK, RecsOK
<1>2. PICK u : u = Upsert(rec[v], s)
  OBVIOUS
<1>3. s.phase = "completed" => Justified(s.concl, IF s.dec # "-" THEN s.dec ELSE rec[v].dec)
  BY DEF Justified
<1>4. /\ u \in RecT /\ u.run \in {rec[v].run, s.run}
      /\ u.phase = "completed" => Justified(u.concl, u.dec)
      /\ s.dec = s.last /\ rec[v].dec = rec[v].last => u.dec = u.last
  BY <1>1, <1>2, <1>3, UpsertKeeps
<1>5. rec' \in [Revs -> RecT] /\ rec'[v] = u /\ \A x \in Revs : x # v => rec'[x] = rec[x]
  BY <1>1, <1>2, <1>4
<1>6. \A run, x : (Real(run, x) <=> Real(run, x)') /\ (Visible(x) <=> Visible(x)')
  BY DEF Real, Visible, OnGitHub
<1>7. ASSUME NEW x \in Revs PROVE RecOK(x)'
  <2>1. CASE x = v
    <3>1. Real(rec[v].run, v) /\ (Policy = "replay_cached" => rec[v].dec = rec[v].last)
      BY <1>1 DEF RecOK
    <3>2. Real(u.run, v)
      BY <1>4, <3>1
    <3> QED
      BY <1>4, <1>5, <1>6, <2>1, <3>1, <3>2 DEF RecOK
  <2>2. CASE x # v
    BY <1>1, <1>5, <1>6, <2>2 DEF RecOK
  <2> QED
    BY <2>1, <2>2
<1> QED
  BY <1>5, <1>7 DEF RecsOK

\* RecordCheckReport or MarkDelivered.
LEMMA SaveKeeps ==
    ASSUME ConnIInv, NEW w \in Writers, Save(w)
    PROVE  ConnIInv'
<1>0. UNCHANGED <<github, strays, todo, spent, faults>> /\ job[w].pc = "save" /\ FaultsGrow /\ faults' \in Nat
  BY FaultAdds DEF Save, At, memory
<1>1. PICK j \in JobT : j = job[w] /\ Shape(w, j) /\ JobOK(j) /\ j.pc = "save"
  BY <1>0, JobKnown
<1>2. PICK v \in Revs : v = j.rev /\ (faults = 0 => IF j.kind = "drain" THEN OnGitHub(v) ELSE Visible(v))
  BY <1>1 DEF Shape, JobOK
<1>3. PICK new \in JobT : job' = [job EXCEPT ![w] = new] /\ new.pc \in {"idle", "answered"} /\ new.snap.run = 0 /\ new.run = 0
  <2>0. PICK code \in Codes : code = 202
    BY DEF Codes
  <2> DEFINE answered == [Idle EXCEPT !.pc = "answered", !.code = code]
  <2>1. answered \in JobT /\ answered.pc = "answered" /\ answered.snap = NoRec /\ answered.run = 0
    BY RestedJob
  <2>2. job' = [job EXCEPT ![w] = answered] \/ job' = [job EXCEPT ![w] = Idle]
    BY <2>0 DEF Save, Finish, Reply
  <2> HIDE DEF answered
  <2>3. NoRec.run = 0 /\ Idle \in JobT /\ Idle.pc = "idle" /\ Idle.snap = NoRec /\ Idle.run = 0
    BY ConnConstants
  <2>4. CASE job' = [job EXCEPT ![w] = answered]
    BY <2>1, <2>3, <2>4
  <2>5. CASE job' = [job EXCEPT ![w] = Idle]
    BY <2>3, <2>5
  <2> QED
    BY <2>2, <2>4, <2>5
<1>4. Shape(w, new) /\ JobOK(new)' /\ new.pc # "ctrl"
  BY <1>3 DEF Shape, JobOK, Real
<1>5. CASE j.kind = "drain"
  <2>0. KeyOf(j)[1] = v
    BY <1>2 DEF KeyOf
  <2>1. PICK key : key = KeyOf(j) /\ v = key[1]
    BY <2>0
  <2>2. pending' = Without(key) /\ UNCHANGED rec
    BY <1>1, <1>5, <2>1 DEF Save
  <2>3. faults = 0 => OnGitHub(v)
    BY <1>2, <1>5
  <2>4. pending' \in Seq(PendingT) /\ QueueOK' /\ VisibleKept /\ GitHubGrows /\ github' \in Seq(CheckT)
    BY <1>0, <2>1, <2>2, <2>3, WithoutKeeps
  <2>5. rec' \in [Revs -> RecT] /\ RecsOK'
    BY <1>0, <2>2, <2>4, RecsKept
  <2> QED
    BY <1>0, <1>3, <1>4, <2>4, <2>5, WriteKeeps
<1>6. CASE j.kind # "drain"
  <2>1. PICK s : s = Saved(j)
    OBVIOUS
  <2>2. /\ s \in RecT /\ s.phase # "none" /\ Real(s.run, v)
        /\ s.phase = "completed" => Justified(s.concl, s.dec) \/ s.concl = "neutral"
        /\ Policy = "replay_cached" => s.dec = s.last
    BY <1>1, <1>2, <1>6, <2>1, SavedKeeps
  <2>3. rec' = [rec EXCEPT ![v] = Upsert(@, s)] /\ UNCHANGED pending
    BY <1>1, <1>2, <1>6, <2>1 DEF Save
  <2>4. faults = 0 => Visible(v)
    BY <1>2, <1>6
  <2>5. rec' \in [Revs -> RecT] /\ RecsOK'
    BY <1>0, <2>2, <2>3, <2>4, RecordKeeps
  <2>6. SameWrites
    BY <2>3 DEF SameWrites, ConnIInv, ConnTypeOK
  <2>7. pending' \in Seq(PendingT) /\ QueueOK' /\ VisibleKept /\ GitHubGrows /\ github' \in Seq(CheckT)
    BY <1>0, <2>6, SameWritesKeep
  <2> QED
    BY <1>0, <1>3, <1>4, <2>5, <2>7, WriteKeeps
<1> QED
  BY <1>5, <1>6

\* The failures that end a handler or a loop's item.
LEMMA FailuresKeep ==
    ASSUME ConnIInv, NEW w \in Writers,
           EnqueueFails(w) \/ SaveFails(w) \/ ReadFails(w) \/ ClientTimeout(w)
    PROVE  ConnIInv'
<1>1. UNCHANGED <<rec, pending, github, strays, todo, spent>> /\ Fault
  BY DEF EnqueueFails, SaveFails, ReadFails, ClientTimeout, memory
<1>2. 503 \in Codes /\ 504 \in Codes
  BY DEF Codes
<1>3. GiveUp(w) \/ Finish(w) \/ \E code \in Codes : Reply(w, code)
  BY <1>2 DEF EnqueueFails, SaveFails, ReadFails, ClientTimeout
<1> QED
  BY <1>1, <1>3, EndsKeeps

\* The replay check of serveDecision.
LEMMA FindKeeps ==
    ASSUME ConnIInv, NEW t \in Posters, FindByDecision(t)
    PROVE  ConnIInv'
<1>1. /\ UNCHANGED <<rec, pending, github, strays, todo, spent, faults>> /\ job[t].pc = "find" /\ t \in Writers
      /\ FaultsGrow /\ faults' \in Nat
  BY FaultAdds, ConnConstants DEF FindByDecision, At, memory
<1>2. CASE Reply(t, 200)
  BY <1>1, <1>2, ReplyKeeps DEF Codes
<1>3. CASE Goto(t, "load")
  BY <1>1, <1>3, GotoKeeps
<1> QED
  BY <1>2, <1>3 DEF FindByDecision

----------------------------------------------------------------------------

\* A loop fetches its items.
LEMMA FetchKeeps ==
    ASSUME ConnIInv, UNCHANGED <<rec, pending, github, strays, memory, job, faults>>,
           NEW w \in Loops, NEW items \in Seq(Task), \A k \in 1..Len(items) : TaskOK(items[k]),
           todo' = [todo EXCEPT ![w] = items]
    PROVE  ConnIInv'
<1>1. /\ todo' \in [Loops -> Seq(Task)] /\ todo'[w] = items /\ \A u \in Loops : u # w => todo'[u] = todo[u]
  BY DEF ConnIInv, ConnTypeOK
<1>2. \A i : TaskOK(i) => TaskOK(i)'
  BY DEF TaskOK, Real
<1>3. ASSUME NEW u \in Loops, NEW k \in 1..Len(todo'[u]) PROVE TaskOK(todo[u][k])'
  <2>1. CASE u = w
    <3>1. PICK i : i = items[k] /\ TaskOK(i) /\ i = todo'[u][k]
      BY <1>1, <1>3, <2>1
    <3>2. TaskOK(i)'
      BY <1>2, <3>1
    <3> QED
      BY <3>1, <3>2 DEF TaskOK
  <2>2. CASE u # w
    <3>1. PICK i : i = todo[u][k] /\ TaskOK(i) /\ i = todo'[u][k]
      BY <1>1, <1>3, <2>2 DEF ConnIInv, TodoOK
    <3>2. TaskOK(i)'
      BY <1>2, <3>1
    <3> QED
      BY <3>1, <3>2 DEF TaskOK
  <2> QED
    BY <2>1, <2>2
<1>4. TodoOK'
  BY <1>3 DEF TodoOK
<1>5. QueueOK' /\ RecsOK'
  BY DEF ConnIInv, QueueOK, RecsOK, RecOK, Real, Visible, OnGitHub
<1>6. JobsOK' /\ RerunOverrunBounded'
  BY DEF ConnIInv, JobsOK, JobOK, Shape, Real, Visible, OnGitHub, RerunOverrunBounded, At, memory
<1> QED
  BY <1>1, <1>4, <1>5, <1>6 DEF ConnIInv, ConnTypeOK, memory

\* An ordering of a finite set holds its elements.
LEMMA OrderedElements ==
    ASSUME NEW S, IsFiniteSet(S), NEW q \in SetToSeqs(S)
    PROVE  q \in Seq(S) /\ \A k \in 1..Len(q) : q[k] \in S
<1>1. Cardinality(S) \in Nat
  BY FS_CardinalityType
<1>2. q \in [1..Cardinality(S) -> S]
  BY DEF SetToSeqs
<1> QED
  BY <1>1, <1>2

\* tick of the sweeper.
LEMMA SweepKeeps ==
    ASSUME ConnIInv, SweepTick
    PROVE  ConnIInv'
<1>1. PICK old \in SUBSET Revs :
         \E items \in SetToSeqs({Stalled(v) : v \in old}) : todo' = [todo EXCEPT !["sweeper"] = items]
  BY DEF SweepTick
<1> DEFINE S == {Stalled(v) : v \in old}
           f == [v \in old |-> Stalled(v)]
<1>2. PICK items \in SetToSeqs(S) : todo' = [todo EXCEPT !["sweeper"] = items]
  BY <1>1
<1>3. IsFiniteSet(S)
  <2>1. IsFiniteSet(old)
    BY ConnectorConstants, FS_Subset
  <2>2. f \in Surjection(old, S)
    BY DEF Surjection
  <2> QED
    BY <2>1, <2>2, FS_Surjection
<1>4. ASSUME NEW v \in Revs PROVE Stalled(v) \in Task /\ TaskOK(Stalled(v))
  <2>1. rec[v] \in RecT /\ Real(rec[v].run, v)
    BY DEF ConnIInv, ConnTypeOK, RecsOK, RecOK
  <2>2. PICK snap \in RecT : snap = RunOf(rec[v]) /\ snap.run = rec[v].run
    BY <2>1, SnapTyped
  <2>3. PICK i : i = [kind |-> "sweep", rev |-> v, snap |-> snap, write |-> RenderStalled]
    OBVIOUS
  <2>4. i \in Task /\ i.kind = "sweep" /\ i.rev = v /\ i.snap = snap /\ i.write = RenderStalled
    BY <2>3, ConnConstants DEF Task
  <2>5. Stalled(v) = i
    BY <2>2, <2>3 DEF Stalled
  <2> QED
    BY <2>1, <2>2, <2>4, <2>5, ConnConstants DEF TaskOK
<1>5. \A i \in S : i \in Task /\ TaskOK(i)
  BY <1>4
<1> HIDE DEF S
<1>6. items \in Seq(S) /\ \A k \in 1..Len(items) : items[k] \in S
  BY <1>2, <1>3, OrderedElements
<1>7. items \in Seq(Task) /\ \A k \in 1..Len(items) : TaskOK(items[k])
  BY <1>5, <1>6
<1> QED
  BY <1>2, <1>7, FetchKeeps, ConnConstants DEF SweepTick

Queued(p) == [kind |-> "drain", rev |-> p.key[1], snap |-> [NoRec EXCEPT !.run = p.run],
              write |-> [status |-> p.key[2], concl |-> "-"]]

\* A queued write as the drainer takes it up.
LEMMA QueuedTask ==
    ASSUME NEW p \in PendingT, Real(p.run, p.key[1])
    PROVE  Queued(p) \in Task /\ TaskOK(Queued(p))
<1>1. PICK v \in Revs, status \in Phases : v = p.key[1] /\ status = p.key[2]
  <2>1. p.key \in KeyT
    BY DEF PendingT
  <2> QED
    BY <2>1 DEF KeyT
<1>2. p.run \in Nat
  BY DEF PendingT
<1>3. PICK snap \in RecT : snap = [NoRec EXCEPT !.run = p.run] /\ snap.run = p.run
  <2> DEFINE snap == [NoRec EXCEPT !.run = p.run]
  <2>1. snap \in RecT /\ snap.run = p.run
    BY <1>2, ConnConstants DEF RecT
  <2> QED
    BY <2>1
<1>4. PICK write \in WriteT : write = [status |-> status, concl |-> "-"] /\ write.status = status
  <2> DEFINE write == [status |-> status, concl |-> "-"]
  <2>1. write \in WriteT /\ write.status = status
    BY DEF WriteT, Conclusions
  <2> QED
    BY <2>1
<1>5. PICK i : i = [kind |-> "drain", rev |-> v, snap |-> snap, write |-> write]
  OBVIOUS
<1>6. i \in Task /\ i.kind = "drain" /\ i.rev = v /\ i.snap = snap /\ i.write = write
  BY <1>5 DEF Task
<1>7. Queued(p) = i
  BY <1>1, <1>3, <1>4, <1>5 DEF Queued
<1>8. status # "-"
  BY DEF Phases
<1> QED
  BY <1>1, <1>3, <1>4, <1>6, <1>7, <1>8 DEF TaskOK

\* tick of the drainer.
LEMMA DrainKeeps ==
    ASSUME ConnIInv, DrainTick
    PROVE  ConnIInv'
<1> DEFINE due == {i \in 1..Len(pending) : pending[i].due}
<1>0. PICK n \in Nat : n = Len(pending) /\ pending \in Seq(PendingT)
  BY DEF ConnIInv, ConnTypeOK
<1>1. PICK order \in SetToSeqs(due) :
         todo' = [todo EXCEPT !["drainer"] =
                    [k \in 1..(IF Len(order) < DueLimit THEN Len(order) ELSE DueLimit) |-> Queued(pending[order[k]])]]
  BY DEF DrainTick, Queued
<1>2. IsFiniteSet(due)
  <2>1. IsFiniteSet(1..n)
    BY FS_Interval
  <2> QED
    BY <1>0, <2>1, FS_Subset
<1>3. due \subseteq 1..n
  BY <1>0
<1> HIDE DEF due
<1>4. order \in Seq(due) /\ \A k \in 1..Len(order) : order[k] \in 1..n
  BY <1>1, <1>2, <1>3, OrderedElements
<1>5. PICK m \in Nat : m = (IF Len(order) < DueLimit THEN Len(order) ELSE DueLimit) /\ m <= Len(order)
  BY <1>4, ConnectorConstants
<1>6. PICK items : items = [k \in 1..m |-> Queued(pending[order[k]])]
  OBVIOUS
<1>7. ASSUME NEW k \in 1..m PROVE items[k] \in Task /\ TaskOK(items[k])
  <2>1. PICK i \in 1..n : i = order[k]
    BY <1>4, <1>5
  <2>2. pending[i] \in PendingT /\ Real(pending[i].run, pending[i].key[1])
    BY <1>0 DEF ConnIInv, QueueOK
  <2>3. Queued(pending[i]) \in Task /\ TaskOK(Queued(pending[i]))
    BY <2>2, QueuedTask
  <2> QED
    BY <1>6, <2>1, <2>3
<1>8. items \in Seq(Task) /\ Len(items) = m
  <2>1. items \in [1..m -> Task]
    BY <1>6, <1>7
  <2> QED
    BY <2>1
<1>9. todo' = [todo EXCEPT !["drainer"] = items]
  BY <1>1, <1>5, <1>6
<1> QED
  BY <1>7, <1>8, <1>9, FetchKeeps, ConnConstants DEF DrainTick

\* flipOne and deliverOne start on the next item.
LEMMA NextItemKeeps ==
    ASSUME ConnIInv, NEW w \in Loops, NextItem(w)
    PROVE  ConnIInv'
<1>0. /\ UNCHANGED <<rec, pending, github, strays, spent, faults>> /\ w \in Writers /\ FaultsGrow /\ faults' \in Nat
      /\ todo[w] # <<>>
  BY FaultAdds, ConnConstants DEF NextItem, memory
<1>1. PICK q \in Seq(Task) : q = todo[w] /\ q # <<>> /\ \A k \in 1..Len(q) : TaskOK(q[k])
  BY <1>0 DEF ConnIInv, ConnTypeOK, TodoOK
<1>2. PICK i \in Task : i = Head(todo[w]) /\ TaskOK(i)
  BY <1>1
<1>3. /\ Tail(q) \in Seq(Task)
      /\ \A k \in 1..Len(Tail(q)) : k + 1 \in 1..Len(q) /\ Tail(q)[k] = q[k + 1]
  BY <1>1
<1>4. \A x : TaskOK(x) => TaskOK(x)'
  BY <1>0 DEF TaskOK, Real
<1>5. todo' = [todo EXCEPT ![w] = Tail(q)]
  BY <1>1 DEF NextItem
<1>6. /\ todo' \in [Loops -> Seq(Task)] /\ todo'[w] = Tail(q) /\ \A u \in Loops : u # w => todo'[u] = todo[u]
  BY <1>3, <1>5 DEF ConnIInv, ConnTypeOK
<1>7. ASSUME NEW u \in Loops, NEW k \in 1..Len(todo'[u]) PROVE TaskOK(todo[u][k])'
  <2>1. PICK x : x = todo'[u][k] /\ TaskOK(x)
    <3>1. CASE u = w
      BY <1>1, <1>3, <1>6, <1>7, <3>1
    <3>2. CASE u # w
      BY <1>6, <1>7, <3>2 DEF ConnIInv, TodoOK
    <3> QED
      BY <3>1, <3>2
  <2>2. TaskOK(x)'
    BY <1>4, <2>1
  <2> QED
    BY <2>1, <2>2 DEF TaskOK
<1>8. TodoOK'
  BY <1>7 DEF TodoOK
<1> DEFINE new == [Idle EXCEPT !.pc = "acquire", !.kind = i.kind, !.rev = i.rev, !.snap = i.snap, !.write = i.write]
<1>9. i.kind \in {"sweep", "drain"} /\ i.rev \in Revs /\ i.snap \in RecT /\ i.write \in WriteT
  BY DEF Task
<1>10. /\ new \in JobT /\ new.pc = "acquire" /\ new.kind = i.kind /\ new.rev = i.rev
       /\ new.snap = i.snap /\ new.write = i.write /\ new.run = 0
  BY <1>9, ConnConstants DEF JobT
<1>11. job' = [job EXCEPT ![w] = new]
  BY <1>2 DEF NextItem
<1> HIDE DEF new
<1>12. Shape(w, new) /\ JobOK(new)
  <2>1. Real(i.snap.run, i.rev) /\ i.write.status # "-" /\ (i.kind = "sweep" => i.write = RenderStalled)
    BY <1>2 DEF TaskOK
  <2>2. Rendered(new)
    BY <1>9, <1>10, <2>1 DEF Rendered
  <2>3. Shape(w, new)
    BY <1>9, <1>10, <2>2 DEF Shape
  <2> QED
    BY <1>10, <2>1, <2>3 DEF JobOK, Real
<1>13. spent' \in [Revs -> Nat]
  BY <1>0 DEF ConnIInv, ConnTypeOK
<1>14. job'[w] = new /\ \A u \in Writers : u # w => job'[u] = job[u]
  BY <1>0, <1>11 DEF ConnIInv, ConnTypeOK
<1>15. RerunOverrunBounded'
  <2>1. \A v \in Revs : spent'[v] <= spent[v] /\ InCtrl(v)' \subseteq InCtrl(v)
    BY <1>0, <1>10, <1>13, <1>14, ConnConstants DEF InCtrl, At
  <2> QED
    BY <1>13, <2>1, BudgetKept
<1> QED
  BY <1>0, <1>6, <1>8, <1>10, <1>11, <1>12, <1>13, <1>15, QuietJob

\* Clocks.
LEMMA ClockKeeps ==
    ASSUME ConnIInv, ClockStep
    PROVE  ConnIInv'
<1>1. UNCHANGED <<rec, github, strays, spent, job, todo, faults>>
  BY DEF ClockStep, Refill, RetryDue, HourTurns, rerunVars, memory
<1>2. SameWrites
  <2>0. PICK n \in Nat : n = Len(pending) /\ pending \in Seq(PendingT)
    BY DEF ConnIInv, ConnTypeOK
  <2>1. CASE UNCHANGED pending
    BY <2>0, <2>1 DEF SameWrites
  <2>2. ASSUME NEW i \in 1..Len(pending), RetryDue(i) PROVE SameWrites
    <3>1. PICK p \in PendingT : p = pending[i]
      BY <2>0
    <3>2. PICK q \in PendingT : q = [p EXCEPT !.due = TRUE] /\ q.key = p.key /\ q.run = p.run
      <4> DEFINE q == [p EXCEPT !.due = TRUE]
      <4>1. q \in PendingT /\ q.key = p.key /\ q.run = p.run
        BY DEF PendingT
      <4> QED
        BY <4>1
    <3>3. pending' = [pending EXCEPT ![i] = q]
      BY <2>2, <3>1, <3>2 DEF RetryDue
    <3>4. pending' \in Seq(PendingT) /\ Len(pending') = n /\ pending'[i] = q /\ \A k \in 1..n : k # i => pending'[k] = pending[k]
      BY <2>0, <3>3
    <3> QED
      BY <2>0, <3>1, <3>2, <3>4 DEF SameWrites
  <2> QED
    BY <2>1, <2>2 DEF ClockStep, Refill, HourTurns
<1>3. pending' \in Seq(PendingT) /\ QueueOK' /\ VisibleKept /\ GitHubGrows /\ github' \in Seq(CheckT)
  BY <1>1, <1>2, SameWritesKeep
<1>0. FaultsGrow
  BY <1>1 DEF FaultsGrow
<1>4. rec' \in [Revs -> RecT] /\ RecsOK' /\ TodoOK'
  BY <1>0, <1>1, <1>3, RecsKept, TodoKept
<1>5. JobsOK'
  <2>1. ASSUME NEW w \in Writers PROVE Shape(w, job'[w]) /\ JobOK(job[w])'
    <3>1. PICK j : j = job[w] /\ Shape(w, j) /\ JobOK(j) /\ j = job'[w]
      BY <1>1, JobKnown
    <3>2. JobOK(j)'
      BY <1>0, <1>3, <3>1, JobKept DEF ConnIInv
    <3> QED
      BY <3>1, <3>2 DEF JobOK
  <2> QED
    BY <2>1 DEF JobsOK, Shape
<1>6. RerunOverrunBounded'
  BY <1>1 DEF ConnIInv, RerunOverrunBounded, At
<1> QED
  BY <1>1, <1>3, <1>4, <1>5, <1>6 DEF ConnIInv, ConnTypeOK

Resting(j) == j \in JobT /\ j.pc \in {"idle", "answered"} /\ j.snap = NoRec /\ j.run = 0

\* Any number of writers come to rest.
LEMMA RestsKeep ==
    ASSUME ConnIInv, UNCHANGED <<rec, pending, github, strays>>, FaultsGrow, faults' \in Nat,
           todo' \in [Loops -> Seq(Task)], TodoOK',
           spent' \in [Revs -> Nat], \A v \in Revs : spent'[v] <= spent[v],
           NEW next, job' = [w \in Writers |-> next[w]],
           \A w \in Writers : next[w] = job[w] \/ Resting(next[w])
    PROVE  ConnIInv'
<1>1. github' \in Seq(CheckT) /\ GitHubGrows /\ VisibleKept
  BY DEF ConnIInv, ConnTypeOK, GitHubGrows, VisibleKept, Visible, OnGitHub
<1>2. RecsOK' /\ QueueOK' /\ rec' \in [Revs -> RecT] /\ pending' \in Seq(PendingT)
  BY <1>1, RecsKept, QueueKept
<1>3. ASSUME NEW w \in Writers
      PROVE  job'[w] \in JobT /\ Shape(w, job'[w]) /\ JobOK(job[w])' /\ (job'[w] = job[w] \/ Resting(job'[w]))
  <2>1. PICK j : j = next[w] /\ j = job'[w] /\ (j = job[w] \/ Resting(j))
    <3>1. job'[w] = next[w]
      OBVIOUS
    <3> QED
      BY <3>1
  <2>2. CASE j = job[w]
    <3>1. j \in JobT /\ Shape(w, j) /\ JobOK(j)
      BY <2>2, JobKnown
    <3>2. JobOK(j)'
      BY <1>1, <3>1, JobKept DEF ConnIInv
    <3> QED
      BY <2>1, <2>2, <3>1, <3>2 DEF JobOK
  <2>3. CASE Resting(j)
    <3>1. j \in JobT /\ Shape(w, j) /\ JobOK(j)'
      BY <2>3, ConnConstants DEF Resting, Shape, JobOK, Real
    <3> QED
      BY <2>1, <2>3, <3>1 DEF JobOK
  <2> QED
    BY <2>1, <2>2, <2>3
<1>4. job' \in [Writers -> JobT]
  <2>1. job' = [w \in Writers |-> job'[w]]
    OBVIOUS
  <2> QED
    BY <1>3, <2>1
<1>5. JobsOK'
  BY <1>3 DEF JobsOK, Shape
<1>6. \A v \in Revs : spent'[v] <= spent[v] /\ InCtrl(v)' \subseteq InCtrl(v)
  <2>1. ASSUME NEW v \in Revs, NEW t \in InCtrl(v)' PROVE t \in InCtrl(v)
    <3>1. t \in Posters /\ t \in Writers /\ job'[t].pc = "ctrl" /\ job'[t].rev = v
      BY ConnConstants DEF InCtrl, At
    <3>2. job'[t] = job[t]
      BY <1>3, <3>1 DEF Resting
    <3> QED
      BY <3>1, <3>2 DEF InCtrl, At
  <2> QED
    BY <2>1
<1>7. RerunOverrunBounded'
  BY <1>6, BudgetKept
<1> QED
  BY <1>1, <1>2, <1>4, <1>5, <1>7 DEF ConnIInv, ConnTypeOK

\* The process stops: every client is answered, the loops start empty, and
\* the rerun budget is forgotten.
LEMMA CrashKeeps ==
    ASSUME ConnIInv, ConnectorCrash
    PROVE  ConnIInv'
<1>0. PICK sent \in SUBSET {t \in Posters : At(t, "answered")} :
         job' = [w \in Writers |-> IF job[w].pc = "idle" \/ w \in Loops THEN Idle
                                   ELSE IF w \in sent THEN job[w]
                                   ELSE [Idle EXCEPT !.pc = "answered", !.code = 504]]
  BY DEF ConnectorCrash
<1> DEFINE next == [w \in Writers |-> IF job[w].pc = "idle" \/ w \in Loops THEN Idle
                                      ELSE IF w \in sent THEN job[w]
                                      ELSE [Idle EXCEPT !.pc = "answered", !.code = 504]]
<1>1. UNCHANGED <<rec, pending, github, strays>> /\ FaultsGrow /\ faults' \in Nat
  BY FaultAdds DEF ConnectorCrash
<1>2. todo' = [w \in Loops |-> <<>>] /\ spent' = [v \in Revs |-> 0]
  BY DEF ConnectorCrash, FreshMemory
<1>3. todo' \in [Loops -> Seq(Task)] /\ \A w \in Loops : Len(todo'[w]) = 0
  BY <1>2
<1>4. TodoOK'
  BY <1>3 DEF TodoOK
<1>5. spent' \in [Revs -> Nat] /\ \A v \in Revs : spent'[v] <= spent[v]
  BY <1>2 DEF ConnIInv, ConnTypeOK
<1>6. \A w \in Writers : next[w] = job[w] \/ Resting(next[w])
  <2>1. PICK code \in Codes : code = 504
    BY DEF Codes
  <2> DEFINE answered == [Idle EXCEPT !.pc = "answered", !.code = code]
  <2>2. answered \in JobT /\ answered.pc = "answered" /\ answered.snap = NoRec /\ answered.run = 0
    BY RestedJob
  <2>3. Resting(answered) /\ Resting(Idle)
    BY <2>2, ConnConstants DEF Resting
  <2>4. \A w \in Writers : next[w] = answered \/ next[w] = Idle \/ next[w] = job[w]
    BY <2>1
  <2> HIDE DEF answered, next
  <2> QED
    BY <2>3, <2>4
<1>7. job' = [w \in Writers |-> next[w]]
  BY <1>0
<1> HIDE DEF next
<1> QED
  BY <1>1, <1>3, <1>4, <1>5, <1>6, <1>7, RestsKeep

\* Clients leave.
LEMMA LeaveKeeps ==
    ASSUME ConnIInv, NEW T \in SUBSET Posters, Leave(T)
    PROVE  ConnIInv'
<1> DEFINE next == [w \in Writers |-> IF w \in T THEN Idle ELSE job[w]]
<1>1. UNCHANGED <<rec, pending, github, strays, todo, spent, faults>> /\ FaultsGrow /\ faults' \in Nat
  BY FaultAdds DEF Leave, memory
<1>2. spent' \in [Revs -> Nat] /\ (\A v \in Revs : spent'[v] <= spent[v]) /\ todo' \in [Loops -> Seq(Task)] /\ TodoOK'
  BY <1>1 DEF ConnIInv, ConnTypeOK, TodoOK, TaskOK, Real
<1>3. Resting(Idle)
  BY ConnConstants DEF Resting
<1>4. \A w \in Writers : next[w] = job[w] \/ Resting(next[w])
  BY <1>3
<1>5. job' = [w \in Writers |-> next[w]]
  BY DEF Leave
<1> HIDE DEF next
<1> QED
  BY <1>1, <1>2, <1>4, <1>5, RestsKeep

\* Nothing happens to the connector.
LEMMA IdleKeeps ==
    ASSUME ConnIInv, UNCHANGED connVars
    PROVE  ConnIInv'
<1>1. ConnTypeOK' /\ TodoOK' /\ QueueOK' /\ RerunOverrunBounded'
  BY DEF connVars, ConnIInv, ConnTypeOK, TodoOK, TaskOK, QueueOK, Real, RerunOverrunBounded, At
<1>2. JobsOK' /\ RecsOK'
  BY DEF connVars, ConnIInv, JobsOK, JobOK, RecsOK, RecOK, Shape, Real, Visible, OnGitHub
<1> QED
  BY <1>1, <1>2 DEF ConnIInv

----------------------------------------------------------------------------

\* The empty connector.
LEMMA ConnInitInv == ConnectorInit => ConnIInv
<1> SUFFICES ASSUME ConnectorInit PROVE ConnIInv
  OBVIOUS
<1>1. ConnTypeOK
  BY ConnConstants DEF ConnectorInit, ConnTypeOK
<1>2. JobsOK
  BY RestedJob DEF ConnectorInit, JobsOK
<1>3. TodoOK /\ QueueOK
  BY DEF ConnectorInit, TodoOK, QueueOK
<1>4. RecsOK
  BY ConnConstants DEF ConnectorInit, RecsOK, RecOK, Real
<1>5. RerunOverrunBounded
  <2> SUFFICES ASSUME NEW v \in Revs
               PROVE  spent[v] + Cardinality(InCtrl(v)) <= MaxPerCandidate + Cardinality(Posters) - 1
    BY DEF RerunOverrunBounded, InCtrl
  <2>1. InCtrl(v) = {}
    BY ConnConstants DEF ConnectorInit, InCtrl, At
  <2>2. Cardinality(InCtrl(v)) = 0
    BY <2>1, FS_EmptySet
  <2>3. Cardinality(Posters) \in Nat /\ Cardinality(Posters) # 0
    BY ConnectorConstants, FS_CardinalityType, FS_EmptySet
  <2> QED
    BY <2>2, <2>3, ConnectorConstants DEF ConnectorInit
<1> QED
  BY <1>1, <1>2, <1>3, <1>4, <1>5 DEF ConnIInv

\* Every step of the connector and of its clients keeps the invariant.
LEMMA ConnStepInv ==
    ASSUME ConnIInv, ConnectorStep \/ ClientStep
    PROVE  ConnIInv'
<1>1. ASSUME NEW t \in Posters, HandlerStep(t, Policy) PROVE ConnIInv'
  <2>1. t \in Writers
    BY ConnConstants
  <2>2. CASE ReadFails(t) \/ ClientTimeout(t)
    BY <2>1, <2>2, FailuresKeep
  <2>3. CASE FindByDecision(t)
    BY <2>3, FindKeeps
  <2>4. CASE LookupCheckReport(t)
    BY <2>4, LookupKeeps
  <2>5. CASE Allow(t, Policy)
    BY <2>5, AllowKeeps
  <2>6. ASSUME NEW a \in Answers, Replan(t, a) PROVE ConnIInv'
    BY <2>6, ReplanKeeps
  <2> QED
    BY <1>1, <2>2, <2>3, <2>4, <2>5, <2>6 DEF HandlerStep
<1>2. ASSUME NEW w \in Writers, WriterStep(w) PROVE ConnIInv'
  <2>1. CASE TryAcquire(w)
    BY <2>1, TryAcquireKeeps
  <2>2. CASE EnqueueFails(w) \/ SaveFails(w)
    BY <2>2, FailuresKeep
  <2>3. CASE DryWrite(w)
    BY <2>3, DryWriteKeeps
  <2>4. CASE CallGitHub(w)
    BY <2>4, CallKeeps
  <2>5. CASE CallFails(w)
    BY <2>5, CallFailsKeeps
  <2>6. CASE Save(w)
    BY <2>6, SaveKeeps
  <2>7. CASE ResolveFails(w)
    BY <2>7, ResolveFailsKeeps
  <2> QED
    BY <1>2, <2>1, <2>2, <2>3, <2>4, <2>5, <2>6, <2>7 DEF WriterStep
<1>3. CASE LoopStep
  BY <1>3, SweepKeeps, DrainKeeps, NextItemKeeps DEF LoopStep
<1>4. CASE ClientStep
  BY <1>4, ReceiveKeeps, LeaveKeeps DEF ClientStep
<1> QED
  BY <1>1, <1>2, <1>3, <1>4, ClockKeeps, CrashKeeps DEF ConnectorStep

\* The invariant of the connector: whatever writers have in hand, stale or
\* not, fits the revision it is about.
THEOREM ConnectorInvariant == ConnectorSpec => []ConnIInv
<1>1. ConnectorInit => ConnIInv
  BY ConnInitInv
<1>2. ConnIInv /\ [ConnectorStep \/ ClientStep]_connVars => ConnIInv'
  BY ConnStepInv, IdleKeeps
<1> QED
  BY <1>1, <1>2, PTL DEF ConnectorSpec

\* The run id of a record, a snapshot or a queued write is one that GitHub
\* holds for that revision (Create's id through snapshot, queue and upsert).
THEOREM ConnectorRunIds == ConnectorSpec => []RunIdsReal
<1>1. ConnIInv => RunIdsReal
  BY DEF ConnIInv, RecsOK, RecOK, QueueOK, JobsOK, JobOK, Real, RunIdsReal
<1> QED
  BY <1>1, ConnectorInvariant, PTL

\* A completed record shows its decision's conclusion, or neutral
\* (RecordCheckReport's merge).
THEOREM ConnectorConclusions == ConnectorSpec => []ConclusionJustified
<1>1. ConnIInv => ConclusionJustified
  BY DEF ConnIInv, RecsOK, RecOK, Justified, ConclusionJustified
<1> QED
  BY <1>1, ConnectorInvariant, PTL

\* Without failures a tracked revision is on GitHub or queued ("queued,
\* never silently dropped").
THEOREM ConnectorVisible == ConnectorSpec => []TrackedIsVisible
<1>1. ConnIInv => TrackedIsVisible
  BY ConnConstants DEF ConnIInv, RecsOK, RecOK, Visible, OnGitHub, TrackedIsVisible
<1> QED
  BY <1>1, ConnectorInvariant, PTL

\* The rerun cap is overrun by at most the handlers between Budget.Allow and
\* Budget.Record.
THEOREM ConnectorBudget == ConnectorSpec => []RerunOverrunBounded
<1>1. ConnIInv => RerunOverrunBounded
  BY DEF ConnIInv
<1> QED
  BY <1>1, ConnectorInvariant, PTL
=============================================================================
