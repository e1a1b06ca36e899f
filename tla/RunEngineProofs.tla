--------------------------- MODULE RunEngineProofs ---------------------------
(***************************************************************************)
(* Theorems about RunEngine for any candidates, finite set of runs, plans, *)
(* limits and events of the environment.                                   *)
(*                                                                         *)
(* Every transaction is a chain of store operations, functions from the    *)
(* tables to the tables.  The invariant of the tables (TablesOK) is kept   *)
(* by each of them under what its callers guarantee; the rest of the       *)
(* invariant says what the scheduler may rely on about things it read some *)
(* steps ago.                                                              *)
(***************************************************************************)
EXTENDS RunEngine, TLAPS, FiniteSetTheorems, SequenceTheorems, WellFoundedInduction

Repairs == {"none", "authorized", "aborted"}
LeaseStates == {"granted", "expired", "revoked"}
Db == [cand : [Cands -> CandStates], rerun : [Cands -> 0..MaxRerun], run : [Runs -> Row],
       evidence : SUBSET (Runs \X Nat), decisions : [Cands -> Seq(Verbs)], repair : [Cands -> Repairs],
       announced : SUBSET Cands, lease : LeaseStates, used : [Counters -> Nat],
       window : [Counters -> 0..MaxHour], processed : SUBSET (Runs \X Nat),
       retries : [Runs -> 0..MaxFeedAttempts]]

\* Candidates whose runs may be dispatched, or once were.
Started(st) == st \notin {"absent", "blocked_representative"}

\* A run has a row only of a plan its candidate has had; a dispatched one has
\* the fence of the first claim and a candidate that was open once.
RowsOK(d) ==
    \A r \in Runs :
        /\ d.run[r].state # "absent" => d.cand[CandOf[r]] # "absent" /\ Plan[r] <= d.rerun[CandOf[r]]
        /\ d.run[r].state = "dispatched" => Started(d.cand[CandOf[r]]) /\ d.run[r].fence = LeaseFence

\* Runs whose slot nobody released, and that they cover the counter.  A run
\* that is not in flight keeps its slot only after a replan cancelled it.
Holding(d) == {r \in Runs : d.run[r].conc = 1}
SlotsOK(d) ==
    /\ d.used["conc"] <= Cardinality(Holding(d))
    /\ \A r \in Holding(d) : \/ d.run[r].state = "dispatched"
                             \/ d.run[r].state = "cancelled" /\ "revalidate" \in Env

VerdictsOK(d) ==
    \A c \in Cands : (\E i \in 1..Len(d.decisions[c]) : d.decisions[c][i] = "eligible") =>
        d.decisions[c] = <<"eligible">> /\ d.cand[c] = "eligible"

\* The fleet accepted an executed pass of r in the epoch of its dispatch.
Passed(r) == cell[r].result = "pass" /\ cell[r].epoch = LeaseFence
Earned(c) == \A k \in Required : \E r \in Runs : CandOf[r] = c /\ Kind[r] = k /\ Passed(r)
EvidenceOK(d) ==
    /\ \A e \in d.evidence : Passed(e[1])
    /\ \A c \in Cands : d.cand[c] = "eligible" => Earned(c)

TablesOK(d) == d \in Db /\ RowsOK(d) /\ SlotsOK(d) /\ VerdictsOK(d) /\ EvidenceOK(d)

\* A job with a result is closed.
FleetOK ==
    /\ cell \in [Runs -> Job!Cell] /\ jobAttempt \in [Runs -> Nat] /\ feed \in Seq(Runs)
    /\ \A r \in Runs : cell[r].result # "none" => cell[r].phase = "closed"

\* A run that was admitted and is still queued has an open candidate: what
\* closes a candidate meanwhile cancels its queued runs.
Admission == [run : Runs, conc : 0..1]
Dispatchable(d, r) ==
    d.run[r].state # "absent" /\ (d.run[r].state = "queued" => d.cand[CandOf[r]] \in Open)
\* Runs of tier t admitted and not yet dispatched.
Reserved(t) ==
    Cardinality({a \in todo : Tier[a.run] = t})
    + (IF pc = "committing" /\ Tier[hand.run] = t THEN 1 ELSE 0)

SchedulerOK ==
    /\ pc \in {Idle, "dispatching", "committing", "ingesting", "applying"}
    /\ todo \subseteq Admission /\ IsFiniteSet(todo) /\ inbox \in Seq(Runs)
    /\ pc \notin {"dispatching", "committing"} => todo = {}
    /\ pc \in {"ingesting", "applying"} => inbox # <<>>
    /\ \A a \in todo : Dispatchable(db, a.run)
    /\ pc = "committing" => hand \in Admission /\ Dispatchable(db, hand.run)
    /\ \A r \in Runs : Cardinality(InFlight(db, Tier[r])) + Reserved(Tier[r]) <= WIPCap[Tier[r]]

\* What the completion in hand was read as: only the scheduler makes a
\* candidate eligible, so one that was not decided then is not eligible now.
Loaded == [run : Runs, row : Row, cand : CandStates]
HandOK ==
    pc = "applying" =>
        /\ hand \in Loaded
        /\ hand.row.state = "dispatched" => /\ Started(db.cand[CandOf[hand.run]]) /\ hand.row.fence = LeaseFence
                                            /\ db.run[hand.run].state # "absent"
        /\ ~CandTerminal(hand.cand) => db.cand[CandOf[hand.run]] # "eligible"

ReadersOK ==
    /\ scan \subseteq Runs
    /\ replan = Nothing \/ (replan \in [cand : Cands, prior : SUBSET Runs] /\ "revalidate" \in Env)

EngineIInv ==
    TablesOK(db) /\ hour \in 0..MaxHour /\ FleetOK /\ SchedulerOK /\ HandOK /\ ReadersOK

----------------------------------------------------------------------------
(***************************************************************************)
(* Tables and operations on them                                           *)
(***************************************************************************)

\* Tables that an operation leaves alone.
Tables == {"cand", "rerun", "run", "evidence", "decisions", "repair", "announced", "lease", "used", "window",
           "processed", "retries"}
Same(d, e, T) == \A t \in T : e[t] = d[t]

\* Writing one table.
LEMMA SetRun ==
    ASSUME NEW d \in Db, NEW v \in [Runs -> Row], NEW e, e = [d EXCEPT !.run = v]
    PROVE  e \in Db /\ e.run = v /\ Same(d, e, Tables \ {"run"})
BY DEF Db, Same, Tables

\* Candidates.
LEMMA SetCand ==
    ASSUME NEW d \in Db, NEW v \in [Cands -> CandStates], NEW e, e = [d EXCEPT !.cand = v]
    PROVE  e \in Db /\ e.cand = v /\ Same(d, e, Tables \ {"cand"})
BY DEF Db, Same, Tables

\* Evidence records.
LEMMA SetEvidence ==
    ASSUME NEW d \in Db, NEW v \in SUBSET (Runs \X Nat), NEW e, e = [d EXCEPT !.evidence = v]
    PROVE  e \in Db /\ e.evidence = v /\ Same(d, e, Tables \ {"evidence"})
BY DEF Db, Same, Tables

\* Verdicts.
LEMMA SetDecisions ==
    ASSUME NEW d \in Db, NEW v \in [Cands -> Seq(Verbs)], NEW e, e = [d EXCEPT !.decisions = v]
    PROVE  e \in Db /\ e.decisions = v /\ Same(d, e, Tables \ {"decisions"})
BY DEF Db, Same, Tables

\* Repair contracts.
LEMMA SetRepair ==
    ASSUME NEW d \in Db, NEW v \in [Cands -> Repairs], NEW e, e = [d EXCEPT !.repair = v]
    PROVE  e \in Db /\ e.repair = v /\ Same(d, e, Tables \ {"repair"})
BY DEF Db, Same, Tables

\* Announced supersessions.
LEMMA SetAnnounced ==
    ASSUME NEW d \in Db, NEW v \in SUBSET Cands, NEW e, e = [d EXCEPT !.announced = v]
    PROVE  e \in Db /\ e.announced = v /\ Same(d, e, Tables \ {"announced"})
BY DEF Db, Same, Tables

\* The intent's lease.
LEMMA SetLease ==
    ASSUME NEW d \in Db, NEW v \in LeaseStates, NEW e, e = [d EXCEPT !.lease = v]
    PROVE  e \in Db /\ e.lease = v /\ Same(d, e, Tables \ {"lease"})
BY DEF Db, Same, Tables

\* Budget counters.
LEMMA SetUsed ==
    ASSUME NEW d \in Db, NEW v \in [Counters -> Nat], NEW e, e = [d EXCEPT !.used = v]
    PROVE  e \in Db /\ e.used = v /\ Same(d, e, Tables \ {"used"})
BY DEF Db, Same, Tables

\* Their hours.
LEMMA SetWindow ==
    ASSUME NEW d \in Db, NEW v \in [Counters -> 0..MaxHour], NEW e, e = [d EXCEPT !.window = v]
    PROVE  e \in Db /\ e.window = v /\ Same(d, e, Tables \ {"window"})
BY DEF Db, Same, Tables

\* Processed completions.
LEMMA SetProcessed ==
    ASSUME NEW d \in Db, NEW v \in SUBSET (Runs \X Nat), NEW e, e = [d EXCEPT !.processed = v]
    PROVE  e \in Db /\ e.processed = v /\ Same(d, e, Tables \ {"processed"})
BY DEF Db, Same, Tables

\* Failed ingestions.
LEMMA SetRetries ==
    ASSUME NEW d \in Db, NEW v \in [Runs -> 0..MaxFeedAttempts], NEW e, e = [d EXCEPT !.retries = v]
    PROVE  e \in Db /\ e.retries = v /\ Same(d, e, Tables \ {"retries"})
BY DEF Db, Same, Tables

\* Revalidations.
LEMMA SetRerun ==
    ASSUME NEW d \in Db, NEW v \in [Cands -> 0..MaxRerun], NEW e, e = [d EXCEPT !.rerun = v]
    PROVE  e \in Db /\ e.rerun = v /\ Same(d, e, Tables \ {"rerun"})
BY DEF Db, Same, Tables

\* What no transaction does: change a decided candidate, take back that a
\* candidate was started or a run inserted, or, but for the dispatch, put a run
\* in flight.
Moves(d, e) ==
    /\ \A c \in Cands : CandTerminal(d.cand[c]) => e.cand[c] = d.cand[c]
    /\ \A c \in Cands : Started(d.cand[c]) => Started(e.cand[c])
    /\ \A r \in Runs : d.run[r].state # "absent" => e.run[r].state # "absent"
    /\ \A r \in Runs : e.run[r].state = "dispatched" => d.run[r].state = "dispatched"

\* Such transactions compose.
LEMMA MovesOn ==
    ASSUME NEW d, NEW e, NEW f, Moves(d, e), Moves(e, f)
    PROVE  Moves(d, f)
BY DEF Moves

\* Fields of a row.
LEMMA RowFields ==
    ASSUME NEW d \in Db, NEW r \in Runs
    PROVE  /\ d.run[r] \in Row /\ d.run[r].state \in RunStates /\ d.run[r].attempt \in Nat
           /\ d.run[r].fence \in Nat /\ d.run[r].late \in BOOLEAN /\ d.run[r].conc \in 0..1
           /\ d.cand[CandOf[r]] \in CandStates /\ d.rerun[CandOf[r]] \in 0..MaxRerun /\ CandOf[r] \in Cands
           /\ d.used["conc"] \in Nat /\ d.used["cpu"] \in Nat
BY EngineConstants DEF Db, Row, Counters

\* The runs that hold a slot are finitely many.
LEMMA HoldingFinite ==
    ASSUME NEW d
    PROVE  IsFiniteSet(Holding(d)) /\ Cardinality(Holding(d)) \in Nat
<1>1. IsFiniteSet(Holding(d))
  BY EngineConstants, FS_Subset DEF Holding
<1> QED
  BY <1>1, FS_CardinalityType

\* The tables with a history are left alone.
LEMMA QuietTables ==
    ASSUME NEW d, TablesOK(d), NEW e \in Db, Same(d, e, {"cand", "rerun", "run", "evidence", "decisions"}),
           e.used["conc"] <= d.used["conc"]
    PROVE  TablesOK(e) /\ Moves(d, e)
<1>1. e.cand = d.cand /\ e.rerun = d.rerun /\ e.run = d.run /\ e.evidence = d.evidence /\ e.decisions = d.decisions
  BY DEF Same
<1>2. RowsOK(e) /\ VerdictsOK(e) /\ EvidenceOK(e) /\ Moves(d, e)
  BY <1>1 DEF TablesOK, RowsOK, VerdictsOK, EvidenceOK, Moves
<1>3. SlotsOK(e)
  <2>1. Holding(e) = Holding(d)
    BY <1>1 DEF Holding
  <2>2. d.used["conc"] \in Nat /\ e.used["conc"] \in Nat /\ Cardinality(Holding(d)) \in Nat
    BY HoldingFinite DEF TablesOK, Db, Counters
  <2>3. e.used["conc"] <= Cardinality(Holding(d))
    BY <2>2 DEF TablesOK, SlotsOK
  <2> QED
    BY <1>1, <2>1, <2>3 DEF TablesOK, SlotsOK
<1> QED
  BY <1>2, <1>3 DEF TablesOK

\* Rows end, or go back to the queue.
LEMMA RowsMove ==
    ASSUME NEW d, TablesOK(d), NEW e \in Db, Same(d, e, {"cand", "rerun", "evidence", "decisions"}), SlotsOK(e),
           \A r \in Runs : \/ e.run[r].state = d.run[r].state /\ e.run[r].fence = d.run[r].fence
                           \/ d.run[r].state # "absent" /\ e.run[r].state \notin {"absent", "dispatched"}
    PROVE  TablesOK(e) /\ Moves(d, e)
<1>1. e.cand = d.cand /\ e.rerun = d.rerun /\ e.evidence = d.evidence /\ e.decisions = d.decisions
  BY DEF Same
<1>2. RowsOK(e)
  BY <1>1 DEF TablesOK, RowsOK
<1>3. VerdictsOK(e) /\ EvidenceOK(e) /\ Moves(d, e)
  BY <1>1 DEF TablesOK, VerdictsOK, EvidenceOK, Moves
<1> QED
  BY <1>2, <1>3 DEF TablesOK

\* Slots whose rows stay as they are.
Parked(d, e) ==
    /\ \A r \in Runs : e.run[r].conc = d.run[r].conc
    /\ \A r \in Holding(d) : \/ e.run[r].state = d.run[r].state
                             \/ e.run[r].state = "cancelled" /\ "revalidate" \in Env

\* Parked slots still cover the counter.
LEMMA SlotsStay ==
    ASSUME NEW d, TablesOK(d), NEW e \in Db, e.used = d.used, Parked(d, e)
    PROVE  SlotsOK(e)
<1>1. Holding(e) = Holding(d)
  BY DEF Holding, Parked
<1> QED
  BY <1>1 DEF TablesOK, SlotsOK, Parked

\* The runs S end and give back a slot each, whether they hold one or not.
LEMMA SlotsReleased ==
    ASSUME NEW d, TablesOK(d), NEW e \in Db, NEW S \in SUBSET Runs, NEW n \in Nat, n = Cardinality(S),
           e.used["conc"] = IF d.used["conc"] < n THEN 0 ELSE d.used["conc"] - n,
           \A r \in Runs : IF r \in S THEN e.run[r].conc = 0
                           ELSE e.run[r].conc = d.run[r].conc /\ (r \in Holding(d) => e.run[r].state = d.run[r].state)
    PROVE  SlotsOK(e)
<1>1. Holding(e) = Holding(d) \ S
  BY DEF Holding
<1>2. PICK h \in Nat, k \in Nat, m \in Nat :
         h = Cardinality(Holding(d)) /\ k = Cardinality(Holding(d) \ S) /\ m = Cardinality(Holding(d) \cap S)
  <2>1. IsFiniteSet(Holding(d) \ S) /\ IsFiniteSet(Holding(d) \cap S)
    BY HoldingFinite, FS_Subset
  <2> QED
    BY <2>1, HoldingFinite, FS_CardinalityType
<1>3. h - k = m
  <2>1. Cardinality(Holding(d) \ S) = Cardinality(Holding(d)) - Cardinality(Holding(d) \cap S)
    BY HoldingFinite, FS_Difference
  <2> QED
    BY <1>2, <2>1
<1>4. m <= n
  <2>1. IsFiniteSet(S)
    BY EngineConstants, FS_Subset
  <2>2. Cardinality(Holding(d) \cap S) <= Cardinality(S)
    BY <2>1, FS_Subset
  <2> QED
    BY <1>2, <2>2
<1>5. d.used["conc"] \in Nat /\ d.used["conc"] <= h
  BY <1>2 DEF TablesOK, SlotsOK, Db, Counters
<1>6. e.used["conc"] <= k
  BY <1>3, <1>4, <1>5
<1>7. \A r \in Holding(e) : e.run[r].state = d.run[r].state /\ r \in Holding(d)
  BY <1>1 DEF Holding
<1> QED
  BY <1>1, <1>2, <1>6, <1>7 DEF TablesOK, SlotsOK

\* Live candidates are decided against, or start a repair.
LEMMA CandsMove ==
    ASSUME NEW d, TablesOK(d), NEW e \in Db, Same(d, e, {"rerun", "run", "evidence", "decisions", "used"}),
           \A c \in Cands : \/ e.cand[c] = d.cand[c]
                            \/ Live(d.cand[c]) /\ e.cand[c] \in {"superseded", "cancelled", "rejected", "repairing"}
    PROVE  TablesOK(e) /\ Moves(d, e)
<1>1. e.run = d.run /\ e.rerun = d.rerun /\ e.evidence = d.evidence /\ e.decisions = d.decisions /\ e.used = d.used
  BY DEF Same
<1>2. \A c \in Cands : /\ CandTerminal(d.cand[c]) => e.cand[c] = d.cand[c]
                       /\ Started(d.cand[c]) => Started(e.cand[c])
                       /\ d.cand[c] # "absent" => e.cand[c] # "absent"
                       /\ e.cand[c] = "eligible" => d.cand[c] = "eligible"
  BY DEF Live, CandTerminal, Started
<1>3. \A r \in Runs : CandOf[r] \in Cands
  BY EngineConstants
<1>4. RowsOK(e)
  BY <1>1, <1>2, <1>3 DEF TablesOK, RowsOK
<1>5. SlotsOK(e)
  BY <1>1 DEF TablesOK, SlotsOK, Holding
<1>6. VerdictsOK(e)
  BY <1>1, <1>2 DEF TablesOK, VerdictsOK, CandTerminal
<1>7. EvidenceOK(e) /\ Moves(d, e)
  BY <1>1, <1>2 DEF TablesOK, EvidenceOK, Moves
<1> QED
  BY <1>4, <1>5, <1>6, <1>7 DEF TablesOK

----------------------------------------------------------------------------
(***************************************************************************)
(* Estimates                                                               *)
(***************************************************************************)

\* Induction over the naturals, by sets.
LEMMA SetInduction ==
    ASSUME NEW S \in SUBSET Nat, 0 \in S, \A n \in S : n + 1 \in S
    PROVE  S = Nat
<1> DEFINE T == {0..n : n \in Nat \ S}
           R == StrictSubsetOrdering(Nat)
<1>1. SUFFICES ASSUME Nat \ S # {} PROVE FALSE
  OBVIOUS
<1>2. T # {}
  BY <1>1
<1>3. T \subseteq FiniteSubsetsOf(Nat)
  <2> SUFFICES ASSUME NEW n \in Nat PROVE 0..n \in FiniteSubsetsOf(Nat)
    OBVIOUS
  <2>1. IsFiniteSet(0..n)
    BY FS_Interval
  <2> QED
    BY <2>1 DEF FiniteSubsetsOf
<1>4. IsWellFoundedOn(R, FiniteSubsetsOf(Nat))
  BY FS_StrictSubsetOrderingWellFounded
<1> HIDE DEF R, T
<1>5. PICK x \in T : \A y \in T : ~(<<y, x>> \in R)
  BY <1>2, <1>3, <1>4, WFMin
<1> USE DEF T, R
<1>6. PICK n \in Nat \ S : x = 0..n
  OBVIOUS
<1>7. n # 0 /\ n - 1 \in Nat /\ n - 1 \notin S
  <2>1. n - 1 \in Nat
    OBVIOUS
  <2>2. (n - 1) + 1 = n
    OBVIOUS
  <2> QED
    BY <2>1, <2>2
<1>8. 0..(n - 1) \in T
  BY <1>7
<1>9. <<0..(n - 1), 0..n>> \in R
  <2>1. 0..(n - 1) \in SUBSET Nat /\ 0..n \in SUBSET Nat /\ 0..(n - 1) \subseteq 0..n
    OBVIOUS
  <2>2. n \in 0..n /\ n \notin 0..(n - 1)
    OBVIOUS
  <2> QED
    BY <2>1, <2>2 DEF StrictSubsetOrdering
<1> QED
  BY <1>5, <1>6, <1>8, <1>9

\* The subsets of S of at most n runs, and one recursive sum over them.
Small(S, n) == {T \in SUBSET S : Cardinality(T) <= n}
Pick(T) == CHOOSE r \in T : TRUE
Sums(f, D) == f = [T \in D |-> IF T = {} THEN 0 ELSE ActualCPUMinutes(Pick(T), 0) + f[T \ {Pick(T)}]]

\* Taking the picked run away.
LEMMA Picked ==
    ASSUME NEW S \in SUBSET Runs, NEW n \in Nat, NEW T \in Small(S, n), T # {}
    PROVE  /\ Pick(T) \in T /\ ActualCPUMinutes(Pick(T), 0) \in Nat
           /\ T \ {Pick(T)} \in SUBSET S /\ n # 0 /\ n - 1 \in Nat /\ T \ {Pick(T)} \in Small(S, n - 1)
<1>1. Pick(T) \in T
  BY DEF Pick
<1>2. ActualCPUMinutes(Pick(T), 0) \in Nat
  BY <1>1, EngineConstants DEF ActualCPUMinutes, Small
<1>3. IsFiniteSet(T)
  BY EngineConstants, FS_Subset DEF Small
<1>4. PICK m \in Nat, k \in Nat : m = Cardinality(T) /\ k = Cardinality(T \ {Pick(T)}) /\ m <= n
  <2>1. IsFiniteSet(T \ {Pick(T)})
    BY <1>3, FS_Subset
  <2> QED
    BY <1>3, <2>1, FS_CardinalityType DEF Small
<1>5. k = m - 1
  BY <1>1, <1>3, <1>4, FS_RemoveElement
<1>6. k <= n - 1 /\ n # 0 /\ n - 1 \in Nat
  BY <1>4, <1>5
<1> QED
  BY <1>1, <1>2, <1>4, <1>6 DEF Small

\* A sum over the small subsets exists: it is extended size by size.
LEMMA SumsExist ==
    ASSUME NEW S \in SUBSET Runs, NEW N \in Nat
    PROVE  \E f : Sums(f, Small(S, N))
<1> DEFINE P == {n \in Nat : \E f : Sums(f, Small(S, n))}
<1>1. 0 \in P
  <2> DEFINE f == [T \in Small(S, 0) |-> 0]
  <2>1. \A T \in Small(S, 0) : T = {}
    <3> SUFFICES ASSUME NEW T \in Small(S, 0), T # {} PROVE FALSE
      OBVIOUS
    <3> QED
      BY Picked
  <2>2. f = [T \in Small(S, 0) |-> IF T = {} THEN 0 ELSE ActualCPUMinutes(Pick(T), 0) + f[T \ {Pick(T)}]]
    BY <2>1
  <2>3. Sums(f, Small(S, 0))
    BY <2>2 DEF Sums
  <2> HIDE DEF f
  <2> QED
    BY <2>3
<1>2. ASSUME NEW n \in P PROVE n + 1 \in P
  <2>1. PICK f : Sums(f, Small(S, n))
    OBVIOUS
  <2>2. n \in Nat /\ n + 1 \in Nat /\ (n + 1) - 1 = n
    OBVIOUS
  <2>3. PICK v : v = [T \in Small(S, n) |-> IF T = {} THEN 0 ELSE ActualCPUMinutes(Pick(T), 0) + f[T \ {Pick(T)}]]
    OBVIOUS
  <2>4. f = v
    BY <2>1, <2>3 DEF Sums
  <2>5. \A T \in Small(S, n) : f[T] = IF T = {} THEN 0 ELSE ActualCPUMinutes(Pick(T), 0) + f[T \ {Pick(T)}]
    BY <2>3, <2>4
  <2> DEFINE D == Small(S, n + 1)
             g == [T \in D |-> IF T \in Small(S, n) THEN f[T] ELSE ActualCPUMinutes(Pick(T), 0) + f[T \ {Pick(T)}]]
  <2>6. \A T \in Small(S, n) : T \in D
    <3> SUFFICES ASSUME NEW T \in Small(S, n) PROVE T \in D
      OBVIOUS
    <3>1. IsFiniteSet(T)
      BY EngineConstants, FS_Subset DEF Small
    <3>2. Cardinality(T) \in Nat
      BY <3>1, FS_CardinalityType
    <3> QED
      BY <2>2, <3>2 DEF Small
  <2>7. {} \in Small(S, n)
    BY <2>2, FS_EmptySet DEF Small
  <2>8. ASSUME NEW T \in D, T # {} PROVE T \ {Pick(T)} \in Small(S, n)
    <3>1. PICK m \in Nat : m = n + 1
      BY <2>2
    <3>2. T \in Small(S, m) /\ m - 1 = n
      BY <2>2, <3>1
    <3> HIDE DEF D
    <3> QED
      BY <2>8, <3>2, Picked
  <2>9. ASSUME NEW T \in D PROVE g[T] = IF T = {} THEN 0 ELSE ActualCPUMinutes(Pick(T), 0) + g[T \ {Pick(T)}]
    <3>1. CASE T = {}
      BY <2>5, <2>7, <3>1
    <3>2. CASE T # {}
      <4>1. T \ {Pick(T)} \in Small(S, n) /\ T \ {Pick(T)} \in D
        BY <2>6, <2>8, <3>2
      <4>2. PICK U : U = T \ {Pick(T)}
        OBVIOUS
      <4>3. g[U] = f[U]
        BY <4>1, <4>2
      <4>4. g[T] = ActualCPUMinutes(Pick(T), 0) + f[U]
        BY <2>5, <3>2, <4>2
      <4> QED
        BY <3>2, <4>2, <4>3, <4>4
    <3> QED
      BY <3>1, <3>2
  <2>10. g = [T \in D |-> IF T = {} THEN 0 ELSE ActualCPUMinutes(Pick(T), 0) + g[T \ {Pick(T)}]]
    <3>1. PICK k : k = [T \in D |-> IF T = {} THEN 0 ELSE ActualCPUMinutes(Pick(T), 0) + g[T \ {Pick(T)}]]
      OBVIOUS
    <3>2. \A T \in D : g[T] = k[T]
      BY <2>9, <3>1
    <3>3. g = [T \in D |-> g[T]] /\ k = [T \in D |-> k[T]]
      BY <3>1
    <3> HIDE DEF g, D
    <3> QED
      BY <3>1, <3>2, <3>3
  <2>11. Sums(g, D)
    BY <2>10 DEF Sums
  <2> HIDE DEF g
  <2> QED
    BY <2>2, <2>11
<1>3. P \subseteq Nat
  OBVIOUS
<1> HIDE DEF P
<1>4. P = Nat
  BY <1>1, <1>2, <1>3, SetInduction
<1> QED
  BY <1>4 DEF P

\* The estimates of some runs are a number of minutes.
LEMMA EstimatesNat ==
    ASSUME NEW S \in SUBSET Runs
    PROVE  Estimates(S) \in Nat
<1>1. IsFiniteSet(S) /\ Cardinality(S) \in Nat
  BY EngineConstants, FS_Subset, FS_CardinalityType
<1>2. PICK N \in Nat : N = Cardinality(S)
  BY <1>1
<1>3. Small(S, N) = SUBSET S
  BY <1>1, <1>2, FS_Subset DEF Small
<1> DEFINE f == CHOOSE f : f = [T \in SUBSET S |-> IF T = {} THEN 0
                                 ELSE LET r == CHOOSE r \in T : TRUE IN ActualCPUMinutes(r, 0) + f[T \ {r}]]
<1>4. Estimates(S) = f[S]
  BY DEF Estimates
<1>5. \E g : g = [T \in SUBSET S |-> IF T = {} THEN 0
                    ELSE LET r == CHOOSE r \in T : TRUE IN ActualCPUMinutes(r, 0) + g[T \ {r}]]
  <2>1. \E g : Sums(g, Small(S, N))
    BY SumsExist
  <2> QED
    BY <1>3, <2>1 DEF Sums, Pick
<1>6. f = [T \in SUBSET S |-> IF T = {} THEN 0 ELSE ActualCPUMinutes(Pick(T), 0) + f[T \ {Pick(T)}]]
  BY <1>5 DEF Pick
<1> HIDE DEF f
<1>7. \A T \in SUBSET S : f[T] = IF T = {} THEN 0 ELSE ActualCPUMinutes(Pick(T), 0) + f[T \ {Pick(T)}]
  <2>1. PICK v : v = [T \in SUBSET S |-> IF T = {} THEN 0 ELSE ActualCPUMinutes(Pick(T), 0) + f[T \ {Pick(T)}]]
    OBVIOUS
  <2>2. f = v
    BY <1>6, <2>1
  <2> QED
    BY <2>1, <2>2
<1> DEFINE P == {n \in Nat : \A T \in Small(S, n) : f[T] \in Nat}
<1>8. 0 \in P
  <2> SUFFICES ASSUME NEW T \in Small(S, 0) PROVE f[T] \in Nat
    OBVIOUS
  <2>1. T = {}
    BY Picked
  <2> QED
    BY <1>7, <2>1
<1>9. ASSUME NEW n \in P PROVE n + 1 \in P
  <2>1. PICK m \in Nat : m = n + 1
    OBVIOUS
  <2>2. SUFFICES ASSUME NEW T \in Small(S, m) PROVE f[T] \in Nat
    BY <2>1
  <2>3. n \in Nat /\ m - 1 = n /\ \A U \in Small(S, n) : f[U] \in Nat
    BY <2>1
  <2> HIDE DEF P
  <2>4. CASE T = {}
    BY <1>7, <2>4 DEF Small
  <2>5. CASE T # {}
    <3>1. ActualCPUMinutes(Pick(T), 0) \in Nat /\ T \ {Pick(T)} \in Small(S, m - 1)
      BY <2>5, Picked
    <3>2. f[T \ {Pick(T)}] \in Nat
      BY <2>3, <3>1
    <3>3. T \in SUBSET S
      BY DEF Small
    <3> QED
      BY <1>7, <2>5, <3>1, <3>2, <3>3
  <2> QED
    BY <2>4, <2>5
<1>10. P \subseteq Nat
  OBVIOUS
<1> HIDE DEF P
<1>11. P = Nat
  BY <1>8, <1>9, <1>10, SetInduction
<1>12. S \in Small(S, N)
  BY <1>3
<1> QED
  BY <1>4, <1>11, <1>12 DEF P

----------------------------------------------------------------------------
(***************************************************************************)
(* Store operations                                                        *)
(***************************************************************************)

\* Writing the counters and the rows.
LEMMA SetUsedRun ==
    ASSUME NEW d \in Db, NEW u \in [Counters -> Nat], NEW v \in [Runs -> Row],
           NEW e, e = [d EXCEPT !.used = u, !.run = v]
    PROVE  e \in Db /\ e.used = u /\ e.run = v /\ Same(d, e, Tables \ {"used", "run"})
BY DEF Db, Same, Tables

\* A row with another slot.
LEMMA RowConc ==
    ASSUME NEW w \in Row, NEW v, v = [w EXCEPT !.conc = 0]
    PROVE  v \in Row /\ v.state = w.state /\ v.fence = w.fence /\ v.attempt = w.attempt /\ v.conc = 0
BY DEF Row

\* ReleaseBudgetsTx.
Released(d, e, S, n) ==
    /\ e.used["conc"] = IF d.used["conc"] < n THEN 0 ELSE d.used["conc"] - n
    /\ \A r \in Runs : /\ e.run[r].state = d.run[r].state /\ e.run[r].fence = d.run[r].fence
                       /\ e.run[r].conc = IF r \in S THEN 0 ELSE d.run[r].conc

\* Release writes what Released says.
LEMMA ReleaseWrites ==
    ASSUME NEW d \in Db, NEW S \in SUBSET Runs, NEW n \in Nat, n = Cardinality(S), NEW cpu \in Nat,
           NEW e, e = Release(d, S, cpu)
    PROVE  e \in Db /\ Same(d, e, Tables \ {"used", "run"}) /\ Released(d, e, S, n)
<1> DEFINE Minus(a, b) == IF a < b THEN 0 ELSE a - b
           u == [k \in Counters |-> Minus(d.used[k], IF k = "cpu" THEN cpu ELSE Cardinality(S))]
           v == [r \in Runs |-> IF r \in S THEN [d.run[r] EXCEPT !.conc = 0] ELSE d.run[r]]
<1>1. e = [d EXCEPT !.used = u, !.run = v]
  BY DEF Release
<1>2. d.used["conc"] \in Nat /\ d.used["cpu"] \in Nat
  BY DEF Db, Counters
<1>3. u \in [Counters -> Nat] /\ u["conc"] = IF d.used["conc"] < n THEN 0 ELSE d.used["conc"] - n
  BY <1>2 DEF Counters
<1>4. ASSUME NEW r \in Runs
      PROVE  /\ v[r] \in Row /\ v[r].state = d.run[r].state /\ v[r].fence = d.run[r].fence
             /\ v[r].conc = IF r \in S THEN 0 ELSE d.run[r].conc
  <2>1. d.run[r] \in Row
    BY DEF Db
  <2>2. CASE r \in S
    <3>1. PICK w : w = [d.run[r] EXCEPT !.conc = 0]
      OBVIOUS
    <3>2. v[r] = w
      BY <2>2, <3>1
    <3> HIDE DEF v
    <3> QED
      BY <2>1, <2>2, <3>1, <3>2, RowConc
  <2>3. CASE r \notin S
    <3>1. v[r] = d.run[r]
      BY <2>3
    <3> HIDE DEF v
    <3> QED
      BY <2>1, <2>3, <3>1
  <2> QED
    BY <2>2, <2>3
<1>5. v \in [Runs -> Row]
  BY <1>4
<1> HIDE DEF u, v
<1>6. e \in Db /\ e.used = u /\ e.run = v /\ Same(d, e, Tables \ {"used", "run"})
  BY <1>1, <1>3, <1>5, SetUsedRun
<1> QED
  BY <1>3, <1>4, <1>6 DEF Released

\* Rows end as in d1; the runs S among them give back a slot each.
Ended(d, e, S) ==
    \A r \in Runs :
        /\ \/ e.run[r].state = d.run[r].state /\ e.run[r].fence = d.run[r].fence
           \/ d.run[r].state # "absent" /\ e.run[r].state \notin {"absent", "dispatched"}
        /\ e.run[r].conc = d.run[r].conc
        /\ r \in Holding(d) \ S => e.run[r].state = d.run[r].state

Freed(d, e, S) == (\A r \in Runs : e.run[r].state = d.run[r].state) /\ \A r \in S : e.run[r].conc = 0

\* Runs that end and release their slots keep the invariant of the tables.
LEMMA EndKeeps ==
    ASSUME NEW d, TablesOK(d), NEW d1 \in Db, Same(d, d1, Tables \ {"run"}), NEW S \in SUBSET Runs, NEW cpu \in Nat,
           Ended(d, d1, S), NEW e, e = Release(d1, S, cpu)
    PROVE  TablesOK(e) /\ Moves(d, e) /\ Same(d, e, Tables \ {"used", "run"}) /\ Freed(d1, e, S)
<1>1. PICK n \in Nat : n = Cardinality(S)
  BY EngineConstants, FS_Subset, FS_CardinalityType
<1>2. e \in Db /\ Same(d1, e, Tables \ {"used", "run"}) /\ Released(d1, e, S, n)
  BY <1>1, ReleaseWrites
<1>3. Same(d, e, Tables \ {"used", "run"}) /\ d1.used = d.used
  BY <1>2 DEF Same, Tables
<1>4. SlotsOK(e)
  <2>1. e.used["conc"] = IF d.used["conc"] < n THEN 0 ELSE d.used["conc"] - n
    BY <1>2, <1>3 DEF Released
  <2>2. \A r \in Runs : IF r \in S THEN e.run[r].conc = 0
                        ELSE e.run[r].conc = d.run[r].conc /\ (r \in Holding(d) => e.run[r].state = d.run[r].state)
    BY <1>2 DEF Released, Ended
  <2> QED
    BY <1>1, <1>2, <2>1, <2>2, SlotsReleased
<1>5. Same(d, e, {"cand", "rerun", "evidence", "decisions"})
  BY <1>3 DEF Same, Tables
<1>6. TablesOK(e) /\ Moves(d, e)
  <2>1. \A r \in Runs : \/ e.run[r].state = d.run[r].state /\ e.run[r].fence = d.run[r].fence
                        \/ d.run[r].state # "absent" /\ e.run[r].state \notin {"absent", "dispatched"}
    BY <1>2 DEF Released, Ended
  <2> QED
    BY <1>2, <1>4, <1>5, <2>1, RowsMove
<1> QED
  BY <1>2, <1>3, <1>6 DEF Released, Freed

\* CancelRuns.
Cancelled(d, e, S) ==
    \A r \in Runs :
        /\ e.run[r].conc = d.run[r].conc
        /\ IF r \in S /\ d.run[r].state \in {"queued", "dispatched"} THEN e.run[r].state = "cancelled"
           ELSE e.run[r].state = d.run[r].state /\ e.run[r].fence = d.run[r].fence

\* CancelRuns writes what Cancelled says.
LEMMA CancelWrites ==
    ASSUME NEW d \in Db, NEW S, NEW e, e = CancelRuns(d, S)
    PROVE  e \in Db /\ Same(d, e, Tables \ {"run"}) /\ Cancelled(d, e, S)
<1> DEFINE v == [r \in Runs |-> IF r \in S /\ d.run[r].state \in {"queued", "dispatched"}
                                THEN [d.run[r] EXCEPT !.state = "cancelled"] ELSE d.run[r]]
<1>1. e = [d EXCEPT !.run = v]
  BY DEF CancelRuns
<1>2. ASSUME NEW r \in Runs
      PROVE  /\ v[r] \in Row /\ v[r].conc = d.run[r].conc
             /\ IF r \in S /\ d.run[r].state \in {"queued", "dispatched"} THEN v[r].state = "cancelled"
                ELSE v[r].state = d.run[r].state /\ v[r].fence = d.run[r].fence
  <2>1. d.run[r] \in Row
    BY DEF Db
  <2>2. CASE r \in S /\ d.run[r].state \in {"queued", "dispatched"}
    <3>1. v[r] = [d.run[r] EXCEPT !.state = "cancelled"]
      BY <2>2
    <3> HIDE DEF v
    <3> QED
      BY <2>1, <2>2, <3>1 DEF Row, RunStates
  <2>3. CASE ~(r \in S /\ d.run[r].state \in {"queued", "dispatched"})
    <3>1. v[r] = d.run[r]
      BY <2>3
    <3> HIDE DEF v
    <3> QED
      BY <2>1, <2>3, <3>1
  <2> QED
    BY <2>2, <2>3
<1>3. v \in [Runs -> Row]
  BY <1>2
<1> HIDE DEF v
<1>4. e \in Db /\ e.run = v /\ Same(d, e, Tables \ {"run"})
  BY <1>1, <1>3, SetRun
<1> QED
  BY <1>2, <1>4 DEF Cancelled

\* CancelRunsForCandidateTx.
LEMMA CancelForKeeps ==
    ASSUME NEW d, TablesOK(d), NEW C, NEW e, e = CancelRunsForCandidates(d, C)
    PROVE  TablesOK(e) /\ Moves(d, e) /\ Same(d, e, Tables \ {"used", "run"})
<1> DEFINE In(st) == {r \in Runs : CandOf[r] \in C /\ d.run[r].state = st}
<1>1. PICK S \in SUBSET Runs, T \in SUBSET Runs : S = In("dispatched") /\ T = In("queued") \cup In("dispatched")
  OBVIOUS
<1>2. Estimates(S) \in Nat
  BY EstimatesNat
<1>3. PICK d1 : d1 = CancelRuns(d, T)
  OBVIOUS
<1>4. e = Release(d1, S, Estimates(S))
  BY <1>1, <1>3 DEF CancelRunsForCandidates
<1>5. d \in Db
  BY DEF TablesOK
<1>6. d1 \in Db /\ Same(d, d1, Tables \ {"run"}) /\ Cancelled(d, d1, T)
  BY <1>3, <1>5, CancelWrites
<1>7. \A r \in Holding(d) \ S : r \notin T
  BY <1>1 DEF TablesOK, SlotsOK
<1>8. Ended(d, d1, S)
  BY <1>6, <1>7 DEF Ended, Cancelled, Holding
<1>9. PICK cpu \in Nat : cpu = Estimates(S)
  BY <1>2
<1> QED
  BY <1>4, <1>6, <1>8, <1>9, EndKeeps

\* Writing one row.
RowWritten(d, e, r, w) == e.run[r] = w /\ \A q \in Runs \ {r} : e.run[q] = d.run[q]

\* One row is written.
LEMMA SetRow ==
    ASSUME NEW d \in Db, NEW r \in Runs, NEW w \in Row, NEW e, e = [d EXCEPT !.run[r] = w]
    PROVE  e \in Db /\ Same(d, e, Tables \ {"run"}) /\ RowWritten(d, e, r, w)
<1>1. PICK v : v = [d.run EXCEPT ![r] = w]
  OBVIOUS
<1>2. e = [d EXCEPT !.run = v]
  BY <1>1
<1>3. v \in [Runs -> Row] /\ v[r] = w /\ \A q \in Runs \ {r} : v[q] = d.run[q]
  BY <1>1 DEF Db
<1>4. e \in Db /\ e.run = v /\ Same(d, e, Tables \ {"run"})
  BY <1>2, <1>3, SetRun
<1> QED
  BY <1>3, <1>4 DEF RowWritten

\* What a completion finds and leaves: the run is there, and holds no slot.
Settled(d, r) == d.run[r].state # "absent" /\ d.run[r].conc = 0

\* appendCompletedTx and the release that follows it.
LEMMA CompletedKeeps ==
    ASSUME NEW d, TablesOK(d), FleetOK, NEW r \in Runs, d.run[r].state # "absent", NEW x, NEW cpu \in Nat,
           NEW e, e = Release(AppendCompleted(d, r, x), {r}, cpu)
    PROVE  TablesOK(e) /\ Moves(d, e) /\ Same(d, e, Tables \ {"used", "run"}) /\ Settled(e, r)
<1>1. PICK d1 : d1 = AppendCompleted(d, r, x)
  OBVIOUS
<1>2. e = Release(d1, {r}, cpu)
  BY <1>1
<1>3. d \in Db
  BY DEF TablesOK
<1>4. d1 \in Db /\ Same(d, d1, Tables \ {"run"}) /\ Ended(d, d1, {r}) /\ d1.run[r].state # "absent"
  <2>1. CASE d.run[r].state = "cancelled"
    <3>1. d1 = d
      BY <1>1, <2>1 DEF AppendCompleted
    <3> QED
      BY <1>3, <2>1, <3>1 DEF Same, Ended
  <2>2. CASE d.run[r].state # "cancelled"
    <3>1. PICK s \in {"succeeded", "failed", "timed_out", "cancelled"}, f \in Nat : s = Status(x) /\ f = cell[r].epoch
      <4>1. cell[r].epoch \in Nat
        BY DEF FleetOK, Job!Cell
      <4>2. Status(x) \in {"succeeded", "failed", "timed_out", "cancelled"}
        BY DEF Status
      <4> QED
        BY <4>1, <4>2
    <3>2. PICK w : w = [d.run[r] EXCEPT !.state = s, !.fence = f]
      OBVIOUS
    <3>3. w \in Row /\ w.state = s /\ w.fence = f /\ w.conc = d.run[r].conc
      BY <1>3, <3>2, RowFields DEF Row, RunStates
    <3>4. d1 = [d EXCEPT !.run[r].state = s, !.run[r].fence = f]
      BY <1>1, <2>2, <3>1 DEF AppendCompleted
    <3>5. d1 = [d EXCEPT !.run[r] = w]
      BY <1>3, <3>2, <3>4 DEF Db
    <3>6. d1 \in Db /\ Same(d, d1, Tables \ {"run"}) /\ RowWritten(d, d1, r, w)
      BY <1>3, <3>3, <3>5, SetRow
    <3> QED
      BY <3>3, <3>6 DEF RowWritten, Ended
  <2> QED
    BY <2>1, <2>2
<1>5. PICK S \in SUBSET Runs : S = {r}
  OBVIOUS
<1>6. TablesOK(e) /\ Moves(d, e) /\ Same(d, e, Tables \ {"used", "run"}) /\ Freed(d1, e, S)
  BY <1>2, <1>4, <1>5, EndKeeps
<1> QED
  BY <1>4, <1>5, <1>6 DEF Settled, Freed

\* retryRun.
LEMMA RetryKeeps ==
    ASSUME NEW d, TablesOK(d), NEW r \in Runs, Settled(d, r), NEW row \in Row, NEW e, e = RetryRun(d, r, row)
    PROVE  TablesOK(e) /\ Moves(d, e) /\ Same(d, e, Tables \ {"run"})
<1>1. PICK a \in Nat, f \in Nat : a = row.attempt + 1 /\ f = row.fence + 1
  BY DEF Row
<1>2. PICK w : w = [d.run[r] EXCEPT !.state = "queued", !.attempt = a, !.fence = f]
  OBVIOUS
<1>3. d \in Db
  BY DEF TablesOK
<1>4. w \in Row /\ w.state = "queued" /\ w.conc = d.run[r].conc
  BY <1>2, <1>3, RowFields DEF Row, RunStates
<1>5. e = [d EXCEPT !.run[r].state = "queued", !.run[r].attempt = a, !.run[r].fence = f]
  BY <1>1 DEF RetryRun
<1>6. e = [d EXCEPT !.run[r] = w]
  BY <1>2, <1>3, <1>5, ZenonT(30) DEF Db
<1>7. e \in Db /\ Same(d, e, Tables \ {"run"}) /\ RowWritten(d, e, r, w)
  BY <1>3, <1>4, <1>6, SetRow
<1>8. SlotsOK(e)
  <2>1. e.used = d.used /\ \A q \in Runs : e.run[q].conc = d.run[q].conc
    BY <1>4, <1>7 DEF RowWritten, Same, Tables
  <2>2. \A q \in Holding(d) : e.run[q].state = d.run[q].state
    BY <1>7 DEF RowWritten, Settled, Holding
  <2>3. Parked(d, e)
    BY <2>1, <2>2 DEF Parked
  <2> QED
    BY <1>7, <2>1, <2>3, SlotsStay
<1>9. Same(d, e, {"cand", "rerun", "evidence", "decisions"})
  BY <1>7 DEF Same, Tables
<1>10. \A q \in Runs : \/ e.run[q].state = d.run[q].state /\ e.run[q].fence = d.run[q].fence
                       \/ d.run[q].state # "absent" /\ e.run[q].state \notin {"absent", "dispatched"}
  BY <1>4, <1>7 DEF RowWritten, Settled
<1> QED
  BY <1>7, <1>8, <1>9, <1>10, RowsMove

\* Tables whose content no invariant is about.
Books == {"lease", "retries", "processed", "announced", "repair"}

\* Writing them keeps the invariant of the tables.
LEMMA BooksKeep ==
    ASSUME NEW d, TablesOK(d), NEW e \in Db, Same(d, e, Tables \ Books)
    PROVE  TablesOK(e) /\ Moves(d, e)
<1>1. Same(d, e, {"cand", "rerun", "run", "evidence", "decisions"}) /\ e.used = d.used
  BY DEF Same, Tables, Books
<1>2. d.used["conc"] \in Nat
  BY DEF TablesOK, Db, Counters
<1>3. e.used["conc"] <= d.used["conc"]
  BY <1>1, <1>2
<1> QED
  BY <1>1, <1>3, QuietTables

\* The books of the feed: MarkProcessed, ClearFeedRetries and a failed attempt.
LEMMA MarkProcessedKeeps ==
    ASSUME NEW d, TablesOK(d), FleetOK, NEW r \in Runs, NEW e, e = MarkProcessed(d, Key(r))
    PROVE  TablesOK(e) /\ Moves(d, e) /\ Same(d, e, Tables \ {"processed"})
<1>1. PICK key \in Runs \X Nat : key = Key(r)
  BY DEF Key, FleetOK, Job!Cell
<1>2. PICK v \in SUBSET (Runs \X Nat) : v = d.processed \cup {key}
  BY <1>1 DEF TablesOK, Db
<1>3. e = [d EXCEPT !.processed = v] /\ d \in Db
  BY <1>1, <1>2 DEF MarkProcessed, TablesOK
<1>4. e \in Db /\ Same(d, e, Tables \ {"processed"})
  BY <1>2, <1>3, SetProcessed
<1>5. Same(d, e, Tables \ Books)
  BY <1>4 DEF Same, Books
<1> QED
  BY <1>4, <1>5, BooksKeep

\* The count of failed ingestions.
LEMMA RetriesKeep ==
    ASSUME NEW d, TablesOK(d), NEW v \in [Runs -> 0..MaxFeedAttempts], NEW e, e = [d EXCEPT !.retries = v]
    PROVE  TablesOK(e) /\ Moves(d, e) /\ Same(d, e, Tables \ {"retries"})
<1>1. d \in Db
  BY DEF TablesOK
<1>2. e \in Db /\ Same(d, e, Tables \ {"retries"})
  BY <1>1, SetRetries
<1>3. Same(d, e, Tables \ Books)
  BY <1>2 DEF Same, Books
<1> QED
  BY <1>2, <1>3, BooksKeep

\* ClearFeedRetries.
LEMMA ClearKeeps ==
    ASSUME NEW d, TablesOK(d), NEW r \in Runs, NEW e, e = ClearFeedRetries(d, r)
    PROVE  TablesOK(e) /\ Moves(d, e) /\ Same(d, e, Tables \ {"retries"})
<1>1. MaxFeedAttempts \in Nat
  BY EngineConstants
<1>2. PICK v : v = [d.retries EXCEPT ![r] = 0]
  OBVIOUS
<1>3. v \in [Runs -> 0..MaxFeedAttempts]
  BY <1>1, <1>2 DEF TablesOK, Db
<1>4. e = [d EXCEPT !.retries = v]
  BY <1>2 DEF ClearFeedRetries
<1> QED
  BY <1>3, <1>4, RetriesKeep

\* maybeRevokeLease, and any other end of the lease.
LEMMA LeaseKeeps ==
    ASSUME NEW d, TablesOK(d), NEW v \in LeaseStates, NEW e, e = [d EXCEPT !.lease = v]
    PROVE  TablesOK(e) /\ Moves(d, e) /\ Same(d, e, Tables \ {"lease"}) /\ e.lease = v
<1>1. d \in Db
  BY DEF TablesOK
<1>2. e \in Db /\ Same(d, e, Tables \ {"lease"}) /\ e.lease = v
  BY <1>1, SetLease
<1>3. Same(d, e, Tables \ Books)
  BY <1>2 DEF Same, Books
<1> QED
  BY <1>2, <1>3, BooksKeep

\* The lease of an intent is revoked when it has no live candidate left.
Lapses(d, e) == d.lease = "granted" /\ e.lease = "revoked" => \A c \in Cands : ~Live(e.cand[c])

\* maybeRevokeLease.
LEMMA RevokeKeeps ==
    ASSUME NEW d, TablesOK(d), NEW e, e = MaybeRevokeLease(d)
    PROVE  TablesOK(e) /\ Moves(d, e) /\ Same(d, e, Tables \ {"lease"}) /\ Lapses(d, e)
<1>1. CASE d.lease = "granted" /\ \A c \in Cands : ~Live(d.cand[c])
  <2>1. PICK v \in LeaseStates : v = "revoked"
    BY DEF LeaseStates
  <2>2. e = [d EXCEPT !.lease = v]
    BY <1>1, <2>1 DEF MaybeRevokeLease
  <2>3. TablesOK(e) /\ Moves(d, e) /\ Same(d, e, Tables \ {"lease"})
    BY <2>2, LeaseKeeps
  <2>4. e.cand = d.cand
    BY <2>3 DEF Same, Tables
  <2> QED
    BY <1>1, <2>3, <2>4 DEF Lapses
<1>2. CASE ~(d.lease = "granted" /\ \A c \in Cands : ~Live(d.cand[c]))
  <2>1. e = d
    BY <1>2 DEF MaybeRevokeLease
  <2> QED
    BY <2>1 DEF Moves, Same, Lapses
<1> QED
  BY <1>1, <1>2

\* Writing one candidate.
CandWritten(d, e, c, st) == e.cand[c] = st /\ \A q \in Cands \ {c} : e.cand[q] = d.cand[q]

\* One candidate is written.
LEMMA SetOneCand ==
    ASSUME NEW d \in Db, NEW c \in Cands, NEW st \in CandStates, NEW e, e = [d EXCEPT !.cand[c] = st]
    PROVE  e \in Db /\ Same(d, e, Tables \ {"cand"}) /\ CandWritten(d, e, c, st)
<1>1. PICK v : v = [d.cand EXCEPT ![c] = st]
  OBVIOUS
<1>2. e = [d EXCEPT !.cand = v]
  BY <1>1
<1>3. v \in [Cands -> CandStates] /\ v[c] = st /\ \A q \in Cands \ {c} : v[q] = d.cand[q]
  BY <1>1 DEF Db
<1>4. e \in Db /\ e.cand = v /\ Same(d, e, Tables \ {"cand"})
  BY <1>2, <1>3, SetCand
<1> QED
  BY <1>3, <1>4 DEF CandWritten

\* MarkCandidateStateTx: a decision against, or a repair of, an open candidate.
LEMMA MarkKeeps ==
    ASSUME NEW d, TablesOK(d), NEW c \in Cands, NEW st \in {"rejected", "repairing"},
           NEW from, from \subseteq Open, NEW e, e = Mark(d, c, st, from)
    PROVE  TablesOK(e) /\ Moves(d, e) /\ Same(d, e, Tables \ {"cand"})
<1>1. CASE d.cand[c] \in from
  <2>1. e = [d EXCEPT !.cand[c] = st]
    BY <1>1 DEF Mark
  <2>2. d \in Db /\ st \in CandStates
    BY DEF TablesOK, CandStates
  <2>3. e \in Db /\ Same(d, e, Tables \ {"cand"}) /\ CandWritten(d, e, c, st)
    BY <2>1, <2>2, SetOneCand
  <2>4. Same(d, e, {"rerun", "run", "evidence", "decisions", "used"})
    BY <2>3 DEF Same, Tables
  <2>5. \A q \in Cands : \/ e.cand[q] = d.cand[q]
                         \/ Live(d.cand[q]) /\ e.cand[q] \in {"superseded", "cancelled", "rejected", "repairing"}
    BY <1>1, <2>3 DEF CandWritten, Live, CandTerminal, Open
  <2> QED
    BY <2>3, <2>4, <2>5, CandsMove
<1>2. CASE d.cand[c] \notin from
  <2>1. e = d
    BY <1>2 DEF Mark
  <2> QED
    BY <2>1 DEF Moves, Same
<1> QED
  BY <1>1, <1>2

\* A verdict other than eligible on a candidate that is not eligible.
LEMMA SaidKeeps ==
    ASSUME NEW d, TablesOK(d), NEW c \in Cands, d.cand[c] # "eligible", NEW verb \in {"rejected", "deferred"},
           NEW e, e = [d EXCEPT !.decisions[c] = Append(@, verb)]
    PROVE  TablesOK(e) /\ Moves(d, e) /\ Same(d, e, Tables \ {"decisions"})
<1>1. d \in Db /\ d.decisions[c] \in Seq(Verbs) /\ verb \in Verbs
  BY DEF TablesOK, Db, Verbs
<1>2. PICK q : q = Append(d.decisions[c], verb)
  OBVIOUS
<1>3. /\ q \in Seq(Verbs) /\ Len(q) = Len(d.decisions[c]) + 1
      /\ \A i \in 1..Len(d.decisions[c]) : q[i] = d.decisions[c][i]
      /\ q[Len(d.decisions[c]) + 1] = verb
  BY <1>1, <1>2
<1>4. PICK v : v = [d.decisions EXCEPT ![c] = q]
  OBVIOUS
<1>5. v \in [Cands -> Seq(Verbs)] /\ v[c] = q /\ \A x \in Cands \ {c} : v[x] = d.decisions[x]
  BY <1>1, <1>3, <1>4 DEF Db
<1>6. e = [d EXCEPT !.decisions = v]
  BY <1>2, <1>4
<1>7. e \in Db /\ e.decisions = v /\ Same(d, e, Tables \ {"decisions"})
  BY <1>1, <1>5, <1>6, SetDecisions
<1>8. e.cand = d.cand /\ e.run = d.run /\ e.rerun = d.rerun /\ e.used = d.used /\ e.evidence = d.evidence
  BY <1>7 DEF Same, Tables
<1>9. RowsOK(e) /\ SlotsOK(e) /\ EvidenceOK(e) /\ Moves(d, e)
  BY <1>8 DEF TablesOK, RowsOK, SlotsOK, Holding, EvidenceOK, Moves
<1>10. VerdictsOK(e)
  <2> SUFFICES ASSUME NEW x \in Cands, NEW i \in 1..Len(e.decisions[x]), e.decisions[x][i] = "eligible"
               PROVE  e.decisions[x] = <<"eligible">> /\ e.cand[x] = "eligible"
    BY DEF VerdictsOK
  <2>1. CASE x # c
    <3>1. e.decisions[x] = d.decisions[x]
      BY <1>5, <1>7, <2>1
    <3> QED
      BY <1>8, <3>1 DEF TablesOK, VerdictsOK
  <2>2. CASE x = c
    <3>1. e.decisions[x] = q
      BY <1>5, <1>7, <2>2
    <3>2. i \in 1..Len(d.decisions[c])
      BY <1>1, <1>3, <3>1
    <3>3. d.decisions[c][i] = "eligible"
      BY <1>3, <3>1, <3>2
    <3> QED
      BY <3>2, <3>3 DEF TablesOK, VerdictsOK
  <2> QED
    BY <2>1, <2>2
<1> QED
  BY <1>7, <1>9, <1>10 DEF TablesOK

\* renderDecision, rejected or deferred.
LEMMA NegativeKeeps ==
    ASSUME NEW d, TablesOK(d), NEW c \in Cands, d.cand[c] # "eligible", NEW verb \in {"rejected", "deferred"},
           NEW e, e = RenderDecision(d, c, verb)
    PROVE  TablesOK(e) /\ Moves(d, e) /\ Lapses(d, e) /\ Same(d, e, {"retries"})
<1>1. PICK said : said = [d EXCEPT !.decisions[c] = Append(@, verb)]
  OBVIOUS
<1>2. TablesOK(said) /\ Moves(d, said) /\ Same(d, said, Tables \ {"decisions"})
  BY <1>1, SaidKeeps
<1>3. PICK m : m = IF verb = "rejected" THEN Mark(said, c, "rejected", Open) ELSE said
  OBVIOUS
<1>4. TablesOK(m) /\ Moves(said, m) /\ Same(said, m, Tables \ {"cand"})
  <2>1. CASE verb = "rejected"
    <3>1. m = Mark(said, c, verb, Open) /\ verb \in {"rejected", "repairing"}
      BY <1>3, <2>1
    <3>2. PICK from : from = Open
      OBVIOUS
    <3>3. from \subseteq Open
      BY <3>2
    <3> QED
      BY <1>2, <3>1, <3>2, <3>3, MarkKeeps
  <2>2. CASE verb # "rejected"
    <3>1. m = said
      BY <1>3, <2>2
    <3> QED
      BY <1>2, <3>1 DEF Moves, Same
  <2> QED
    BY <2>1, <2>2
<1>5. e = MaybeRevokeLease(m)
  BY <1>1, <1>3 DEF RenderDecision
<1>6. TablesOK(e) /\ Moves(m, e) /\ Same(m, e, Tables \ {"lease"}) /\ Lapses(m, e)
  BY <1>4, <1>5, RevokeKeeps
<1>7. Moves(d, e)
  BY <1>2, <1>4, <1>6, MovesOn
<1>8. Same(d, e, {"retries"}) /\ m.lease = d.lease
  BY <1>2, <1>4, <1>6 DEF Same, Tables
<1> QED
  BY <1>6, <1>7, <1>8 DEF Lapses

\* The verdict eligible on an open candidate without a verdict, and its mark.
LEMMA ElectKeeps ==
    ASSUME NEW d, TablesOK(d), NEW c \in Cands, d.cand[c] = "submitted", d.decisions[c] = <<>>, Earned(c),
           NEW said, said = [d EXCEPT !.decisions[c] = Append(@, "eligible")],
           NEW e, e = Mark(said, c, "eligible", Open)
    PROVE  TablesOK(e) /\ Moves(d, e) /\ Same(d, e, Tables \ {"decisions", "cand"})
<1>1. d \in Db
  BY DEF TablesOK
<1>2. PICK q \in Seq(Verbs) : q = Append(d.decisions[c], "eligible") /\ q = <<"eligible">>
  <2>1. PICK verb \in Verbs : verb = "eligible"
    BY DEF Verbs
  <2>2. <<verb>> \in Seq(Verbs) /\ Append(<<>>, verb) = <<verb>>
    OBVIOUS
  <2> QED
    BY <2>1, <2>2
<1>3. PICK v : v = [d.decisions EXCEPT ![c] = q]
  OBVIOUS
<1>4. v \in [Cands -> Seq(Verbs)] /\ v[c] = q /\ \A x \in Cands \ {c} : v[x] = d.decisions[x]
  BY <1>1, <1>3 DEF Db
<1>5. said = [d EXCEPT !.decisions = v]
  BY <1>2, <1>3
<1>6. said \in Db /\ said.decisions = v /\ Same(d, said, Tables \ {"decisions"})
  BY <1>1, <1>4, <1>5, SetDecisions
<1>7. said.cand = d.cand
  BY <1>6 DEF Same, Tables
<1>8. PICK st \in CandStates : st = "eligible"
  BY DEF CandStates
<1>9. e = [said EXCEPT !.cand[c] = st]
  BY <1>7, <1>8 DEF Mark, Open
<1>10. e \in Db /\ Same(said, e, Tables \ {"cand"}) /\ CandWritten(said, e, c, st)
  BY <1>6, <1>9, SetOneCand
<1>11. Same(d, e, Tables \ {"decisions", "cand"}) /\ e.decisions = v
  BY <1>6, <1>10 DEF Same, Tables
<1>12. e.run = d.run /\ e.rerun = d.rerun /\ e.used = d.used /\ e.evidence = d.evidence
  BY <1>11 DEF Same, Tables
<1>13. e.cand[c] = "eligible" /\ \A x \in Cands \ {c} : e.cand[x] = d.cand[x]
  BY <1>7, <1>8, <1>10 DEF CandWritten
<1>14. \A r \in Runs : CandOf[r] \in Cands
  BY EngineConstants
<1>15. RowsOK(e) /\ Moves(d, e)
  BY <1>12, <1>13, <1>14 DEF TablesOK, RowsOK, Moves, Started, CandTerminal
<1>16. SlotsOK(e) /\ EvidenceOK(e)
  BY <1>12, <1>13, ZenonT(30) DEF TablesOK, SlotsOK, Holding, EvidenceOK
<1>17. VerdictsOK(e)
  <2>1. \A x \in Cands \ {c} : e.decisions[x] = d.decisions[x]
    BY <1>4, <1>11
  <2>2. e.decisions[c] = <<"eligible">>
    BY <1>2, <1>4, <1>11
  <2> SUFFICES ASSUME NEW x \in Cands, NEW i \in 1..Len(e.decisions[x]), e.decisions[x][i] = "eligible"
               PROVE  e.decisions[x] = <<"eligible">> /\ e.cand[x] = "eligible"
    BY DEF VerdictsOK
  <2>3. CASE x = c
    BY <1>13, <2>2, <2>3
  <2>4. CASE x # c
    BY <1>13, <2>1, <2>4 DEF TablesOK, VerdictsOK
  <2> QED
    BY <2>3, <2>4
<1> QED
  BY <1>10, <1>11, <1>15, <1>16, <1>17 DEF TablesOK

\* propagateSupersession.
LEMMA PropagateKeeps ==
    ASSUME NEW d, TablesOK(d), NEW c \in Cands, NEW e, e = PropagateSupersession(d, c)
    PROVE  TablesOK(e) /\ Moves(d, e) /\ Same(d, e, {"lease", "retries"})
<1>1. CASE Relation[c] = "none"
  <2>1. e = d
    BY <1>1 DEF PropagateSupersession
  <2> QED
    BY <2>1 DEF Moves, Same
<1>2. CASE Relation[c] # "none"
  <2>1. PICK losers \in SUBSET Cands :
           losers = {q \in Cands : Relation[q] \in {"duplicate_of", "alternative_of"} /\ d.cand[q] # "absent"}
    OBVIOUS
  <2>2. PICK a, v : /\ a = d.announced \cup losers
                    /\ v = [q \in Cands |-> IF q \in losers /\ Live(d.cand[q]) THEN "superseded" ELSE d.cand[q]]
    OBVIOUS
  <2>3. d \in Db /\ a \in SUBSET Cands
    BY <2>2 DEF TablesOK, Db
  <2>4. v \in [Cands -> CandStates] /\ \A q \in Cands : v[q] = d.cand[q] \/ (Live(d.cand[q]) /\ v[q] = "superseded")
    BY <2>2, <2>3 DEF Db, CandStates
  <2>5. PICK marked : marked = [d EXCEPT !.announced = a, !.cand = v]
    OBVIOUS
  <2>6. e = CancelRunsForCandidates(marked, losers)
    BY <1>2, <2>1, <2>2, <2>5 DEF PropagateSupersession
  <2>7. PICK d1 : d1 = [d EXCEPT !.announced = a]
    OBVIOUS
  <2>8. d1 \in Db /\ Same(d, d1, Tables \ {"announced"})
    BY <2>3, <2>7, SetAnnounced
  <2>9. marked = [d1 EXCEPT !.cand = v]
    BY <2>3, <2>5, <2>7 DEF Db
  <2>10. marked \in Db /\ marked.cand = v /\ Same(d1, marked, Tables \ {"cand"})
    BY <2>4, <2>8, <2>9, SetCand
  <2>11. Same(d, marked, {"rerun", "run", "evidence", "decisions", "used"}) /\ Same(d, marked, {"lease", "retries"})
    BY <2>8, <2>10 DEF Same, Tables
  <2>12. \A q \in Cands : \/ marked.cand[q] = d.cand[q]
                          \/ /\ Live(d.cand[q])
                             /\ marked.cand[q] \in {"superseded", "cancelled", "rejected", "repairing"}
    BY <2>4, <2>10
  <2>13. TablesOK(marked) /\ Moves(d, marked)
    BY <2>10, <2>11, <2>12, CandsMove
  <2>14. TablesOK(e) /\ Moves(marked, e) /\ Same(marked, e, Tables \ {"used", "run"})
    BY <2>6, <2>13, CancelForKeeps
  <2>15. Moves(d, e)
    BY <2>13, <2>14, MovesOn
  <2> QED
    BY <2>11, <2>14, <2>15 DEF Same, Tables
<1> QED
  BY <1>1, <1>2

\* renderDecision, eligible.
LEMMA EligibleKeeps ==
    ASSUME NEW d, TablesOK(d), NEW c \in Cands, d.cand[c] = "submitted", d.decisions[c] = <<>>, Earned(c),
           NEW e, e = RenderDecision(d, c, "eligible")
    PROVE  TablesOK(e) /\ Moves(d, e) /\ Lapses(d, e) /\ Same(d, e, {"retries"})
<1>1. PICK said : said = [d EXCEPT !.decisions[c] = Append(@, "eligible")]
  OBVIOUS
<1>2. PICK m : m = Mark(said, c, "eligible", Open)
  OBVIOUS
<1>3. TablesOK(m) /\ Moves(d, m) /\ Same(d, m, Tables \ {"decisions", "cand"})
  BY <1>1, <1>2, ElectKeeps
<1>4. PICK p : p = PropagateSupersession(m, c)
  OBVIOUS
<1>5. TablesOK(p) /\ Moves(m, p) /\ Same(m, p, {"lease", "retries"})
  BY <1>3, <1>4, PropagateKeeps
<1>6. e = MaybeRevokeLease(p)
  BY <1>1, <1>2, <1>4 DEF RenderDecision
<1>7. TablesOK(e) /\ Moves(p, e) /\ Same(p, e, Tables \ {"lease"}) /\ Lapses(p, e)
  BY <1>5, <1>6, RevokeKeeps
<1>8. Moves(d, p)
  BY <1>3, <1>5, MovesOn
<1>9. Moves(d, e)
  BY <1>7, <1>8, MovesOn
<1>10. Same(d, e, {"retries"}) /\ p.lease = d.lease
  BY <1>3, <1>5, <1>7 DEF Same, Tables
<1> QED
  BY <1>7, <1>9, <1>10 DEF Lapses

\* maybeRenderEligible of a candidate whose run was dispatched.
LEMMA MaybeEligibleKeeps ==
    ASSUME NEW d, TablesOK(d), NEW c \in Cands, Started(d.cand[c]), NEW e, e = MaybeRenderEligible(d, c)
    PROVE  TablesOK(e) /\ Moves(d, e) /\ Lapses(d, e) /\ Same(d, e, {"retries"})
<1> DEFINE Ready == /\ d.decisions[c] = <<>> /\ FailedRequired(d, c) = {}
                    /\ ~CandTerminal(d.cand[c]) /\ d.cand[c] # "repairing" /\ Sufficient(d, c)
<1>1. CASE Ready
  <2>1. d.cand[c] = "submitted"
    BY <1>1 DEF TablesOK, Db, CandStates, CandTerminal, Started
  <2>2. Earned(c)
    <3> SUFFICES ASSUME NEW k \in Required PROVE \E r \in Runs : CandOf[r] = c /\ Kind[r] = k /\ Passed(r)
      BY DEF Earned
    <3>1. PICK v \in d.evidence : CandOf[v[1]] = c /\ Kind[v[1]] = k
      BY <1>1 DEF Sufficient
    <3>2. v \in Runs \X Nat /\ Passed(v[1])
      BY <3>1 DEF TablesOK, Db, EvidenceOK
    <3> QED
      BY <3>1, <3>2
  <2>3. e = RenderDecision(d, c, "eligible")
    BY <1>1 DEF MaybeRenderEligible
  <2> QED
    BY <1>1, <2>1, <2>2, <2>3, EligibleKeeps
<1>2. CASE ~Ready
  <2>1. e = d
    BY <1>2 DEF MaybeRenderEligible
  <2> QED
    BY <2>1 DEF Moves, Same, Lapses
<1> QED
  BY <1>1, <1>2

\* A record of an executed pass.
PassedAll(v) == \A w \in v : Passed(w[1])

\* Records of executed passes may be added.
LEMMA EvidenceKeeps ==
    ASSUME NEW d, TablesOK(d), NEW v \in SUBSET (Runs \X Nat), PassedAll(v), NEW e, e = [d EXCEPT !.evidence = v]
    PROVE  TablesOK(e) /\ Moves(d, e) /\ Same(d, e, {"cand", "lease", "retries"})
<1>1. d \in Db
  BY DEF TablesOK
<1>2. e \in Db /\ e.evidence = v /\ Same(d, e, Tables \ {"evidence"})
  BY <1>1, SetEvidence
<1>3. e.run = d.run /\ e.rerun = d.rerun /\ e.used = d.used /\ e.decisions = d.decisions /\ e.cand = d.cand
  BY <1>2 DEF Same, Tables
<1>4. RowsOK(e) /\ SlotsOK(e) /\ VerdictsOK(e) /\ Moves(d, e)
  BY <1>3 DEF TablesOK, RowsOK, SlotsOK, Holding, VerdictsOK, Moves
<1>5. EvidenceOK(e)
  BY <1>2, <1>3 DEF TablesOK, EvidenceOK, PassedAll
<1> QED
  BY <1>2, <1>4, <1>5 DEF TablesOK, Same, Tables

\* onRunSucceeded.
LEMMA SucceededKeeps ==
    ASSUME NEW d, TablesOK(d), NEW r \in Runs, Started(d.cand[CandOf[r]]), NEW attempt \in Nat,
           NEW x, x = "pass" => Passed(r), NEW e, e = OnRunSucceeded(d, r, attempt, x)
    PROVE  TablesOK(e) /\ Moves(d, e) /\ Lapses(d, e) /\ Same(d, e, {"retries"})
<1>1. PICK d1 : d1 = IF Kind[r] \in Required /\ x = "pass" THEN [d EXCEPT !.evidence = @ \cup {<<r, attempt>>}] ELSE d
  OBVIOUS
<1>2. PICK c \in Cands : c = CandOf[r]
  BY EngineConstants
<1>3. e = MaybeRenderEligible(d1, c)
  BY <1>1, <1>2 DEF OnRunSucceeded
<1>4. TablesOK(d1) /\ Moves(d, d1) /\ Same(d, d1, {"cand", "lease", "retries"})
  <2>1. CASE Kind[r] \in Required /\ x = "pass"
    <3>1. PICK p \in Runs \X Nat : p = <<r, attempt>>
      OBVIOUS
    <3>2. p[1] = r
      BY <3>1
    <3>3. PICK v \in SUBSET (Runs \X Nat) : v = d.evidence \cup {p}
      BY DEF TablesOK, Db
    <3>4. PassedAll(v)
      BY <2>1, <3>2, <3>3 DEF PassedAll, TablesOK, EvidenceOK
    <3>5. d1 = [d EXCEPT !.evidence = v]
      BY <1>1, <2>1, <3>1, <3>3
    <3> QED
      BY <3>4, <3>5, EvidenceKeeps
  <2>2. CASE ~(Kind[r] \in Required /\ x = "pass")
    <3>1. d1 = d
      BY <1>1, <2>2
    <3> QED
      BY <3>1 DEF Moves, Same
  <2> QED
    BY <2>1, <2>2
<1>5. Started(d1.cand[c])
  BY <1>2, <1>4 DEF Same
<1>6. TablesOK(e) /\ Moves(d1, e) /\ Lapses(d1, e) /\ Same(d1, e, {"retries"})
  BY <1>3, <1>4, <1>5, MaybeEligibleKeeps
<1>7. Moves(d, e)
  BY <1>4, <1>6, MovesOn
<1> QED
  BY <1>4, <1>6, <1>7 DEF Lapses, Same

\* The repair contract of a candidate.
LEMMA RepairKeeps ==
    ASSUME NEW d, TablesOK(d), NEW c \in Cands, NEW e, e = AuthorizeRepair(d, c)
    PROVE  TablesOK(e) /\ Moves(d, e) /\ Lapses(d, e) /\ Same(d, e, {"retries"})
<1>1. PICK v : v = [d.repair EXCEPT ![c] = "authorized"]
  OBVIOUS
<1>2. d \in Db /\ v \in [Cands -> Repairs]
  BY <1>1 DEF TablesOK, Db, Repairs
<1>3. PICK d1 : d1 = [d EXCEPT !.repair = v]
  OBVIOUS
<1>4. d1 \in Db /\ Same(d, d1, Tables \ {"repair"})
  BY <1>2, <1>3, SetRepair
<1>5. Same(d, d1, Tables \ Books)
  BY <1>4 DEF Same, Books
<1>6. TablesOK(d1) /\ Moves(d, d1)
  BY <1>4, <1>5, BooksKeep
<1>7. PICK st \in {"rejected", "repairing"}, from \in SUBSET Open : st = "repairing" /\ from = {"submitted"}
  BY DEF Open
<1>8. e = Mark(d1, c, st, from)
  BY <1>1, <1>3, <1>7 DEF AuthorizeRepair
<1>9. TablesOK(e) /\ Moves(d1, e) /\ Same(d1, e, Tables \ {"cand"})
  BY <1>6, <1>8, MarkKeeps
<1>10. Moves(d, e)
  BY <1>6, <1>9, MovesOn
<1>11. e.lease = d.lease /\ Same(d, e, {"retries"})
  BY <1>4, <1>9 DEF Same, Tables
<1> QED
  BY <1>9, <1>10, <1>11 DEF Lapses

\* onRunFailed.
LEMMA FailedKeeps ==
    ASSUME NEW d, TablesOK(d), NEW r \in Runs, Settled(d, r), d.cand[CandOf[r]] # "eligible",
           NEW row \in Row, NEW x, NEW e, e = OnRunFailed(d, r, row, x)
    PROVE  TablesOK(e) /\ Moves(d, e) /\ Lapses(d, e) /\ Same(d, e, {"retries"})
<1>1. PICK c \in Cands : c = CandOf[r]
  BY EngineConstants
<1>2. \/ e = RetryRun(d, r, row)
      \/ e = RenderDecision(d, c, "rejected")
      \/ e = AuthorizeRepair(d, c)
      \/ e = RenderDecision(d, c, "deferred")
  BY <1>1 DEF OnRunFailed
<1>3. CASE e = RetryRun(d, r, row)
  <2>1. TablesOK(e) /\ Moves(d, e) /\ Same(d, e, Tables \ {"run"})
    BY <1>3, RetryKeeps
  <2> QED
    BY <2>1 DEF Same, Tables, Lapses
<1>4. ASSUME NEW verb \in {"rejected", "deferred"}, e = RenderDecision(d, c, verb)
      PROVE  TablesOK(e) /\ Moves(d, e) /\ Lapses(d, e) /\ Same(d, e, {"retries"})
  BY <1>1, <1>4, NegativeKeeps
<1>5. CASE e = AuthorizeRepair(d, c)
  BY <1>5, RepairKeeps
<1> QED
  BY <1>2, <1>3, <1>4, <1>5

\* The effect transaction: the run was loaded in flight, its candidate open,
\* and the completion carries the epoch of the dispatch.
LEMMA EffectsKeep ==
    ASSUME NEW d, TablesOK(d), FleetOK, NEW r \in Runs, NEW row \in Row, NEW m \in Nat,
           d.run[r].state # "absent", Started(d.cand[CandOf[r]]), d.cand[CandOf[r]] # "eligible",
           cell[r].epoch = LeaseFence, NEW e, e = Effects(d, r, row, m)
    PROVE  TablesOK(e) /\ Moves(d, e) /\ Lapses(d, e)
<1>1. PICK x : x = cell[r].result
  OBVIOUS
<1>2. PICK cpu \in Nat : cpu = ActualCPUMinutes(r, m)
  BY EngineConstants DEF ActualCPUMinutes
<1>3. PICK d1 : d1 = MarkProcessed(d, Key(r))
  OBVIOUS
<1>4. TablesOK(d1) /\ Moves(d, d1) /\ Same(d, d1, Tables \ {"processed"})
  BY <1>3, MarkProcessedKeeps
<1>5. d1.run = d.run /\ d1.cand = d.cand /\ d1.lease = d.lease
  BY <1>4 DEF Same, Tables
<1>6. PICK d2 : d2 = Release(AppendCompleted(d1, r, x), {r}, cpu)
  OBVIOUS
<1>7. d1.run[r].state # "absent"
  BY <1>5
<1>8. TablesOK(d2) /\ Moves(d1, d2) /\ Same(d1, d2, Tables \ {"used", "run"}) /\ Settled(d2, r)
  BY <1>4, <1>6, <1>7, CompletedKeeps
<1>9. d2.cand = d.cand /\ d2.lease = d.lease
  BY <1>5, <1>8 DEF Same, Tables
<1>10. Started(d2.cand[CandOf[r]]) /\ d2.cand[CandOf[r]] # "eligible"
  BY <1>9
<1>11. PICK d3 : d3 = CASE Status(x) = "succeeded" -> OnRunSucceeded(d2, r, row.attempt, x)
                         [] Status(x) = "cancelled" -> d2
                         [] OTHER -> OnRunFailed(d2, r, row, x)
  OBVIOUS
<1>12. TablesOK(d3) /\ Moves(d2, d3) /\ Lapses(d2, d3)
  <2>1. CASE Status(x) = "succeeded"
    <3>1. PICK attempt \in Nat : attempt = row.attempt
      BY DEF Row
    <3>2. d3 = OnRunSucceeded(d2, r, attempt, x)
      BY <1>11, <2>1, <3>1
    <3>3. x = "pass" => Passed(r)
      BY <1>1 DEF Passed
    <3> QED
      BY <1>8, <1>10, <3>2, <3>3, SucceededKeeps
  <2>2. CASE Status(x) = "cancelled"
    <3>1. d3 = d2
      BY <1>11, <2>2
    <3> QED
      BY <1>8, <3>1 DEF Moves, Lapses
  <2>3. CASE Status(x) \notin {"succeeded", "cancelled"}
    <3>1. d3 = OnRunFailed(d2, r, row, x)
      BY <1>11, <2>3
    <3> QED
      BY <1>8, <1>10, <3>1, FailedKeeps
  <2> QED
    BY <2>1, <2>2, <2>3
<1>13. e = ClearFeedRetries(d3, r)
  BY <1>1, <1>2, <1>3, <1>6, <1>11 DEF Effects
<1>14. TablesOK(e) /\ Moves(d3, e) /\ Same(d3, e, Tables \ {"retries"})
  BY <1>12, <1>13, ClearKeeps
<1>15. Moves(d, d2)
  BY <1>4, <1>8, MovesOn
<1>16. Moves(d, d3)
  BY <1>12, <1>15, MovesOn
<1>17. Moves(d, e)
  BY <1>14, <1>16, MovesOn
<1>18. e.cand = d3.cand /\ e.lease = d3.lease
  BY <1>14 DEF Same, Tables
<1> QED
  BY <1>9, <1>12, <1>14, <1>17, <1>18 DEF Lapses

\* applyCompletion of what is in hand.
LEMMA IngestKeeps ==
    ASSUME NEW d, d = db, TablesOK(d), FleetOK, HandOK, pc = "applying", NEW h, h = hand, NEW m \in Nat,
           NEW e, e = IngestDb(h, m)
    PROVE  TablesOK(e) /\ Moves(d, e) /\ Lapses(d, e)
<1>1. /\ h \in Loaded
      /\ h.row.state = "dispatched" => /\ Started(d.cand[CandOf[h.run]]) /\ h.row.fence = LeaseFence
                                       /\ d.run[h.run].state # "absent"
      /\ ~CandTerminal(h.cand) => d.cand[CandOf[h.run]] # "eligible"
  BY DEF HandOK
<1>2. PICK r \in Runs, row \in Row : r = h.run /\ row = h.row
  BY <1>1 DEF Loaded
<1>3. ASSUME NEW q, q = Absorbed(d, r) PROVE TablesOK(q) /\ Moves(d, q) /\ Lapses(d, q)
  <2>1. PICK d1 : d1 = MarkProcessed(d, Key(r))
    OBVIOUS
  <2>2. TablesOK(d1) /\ Moves(d, d1) /\ Same(d, d1, Tables \ {"processed"})
    BY <2>1, MarkProcessedKeeps
  <2>3. q = ClearFeedRetries(d1, r)
    BY <1>3, <2>1 DEF Absorbed
  <2>4. TablesOK(q) /\ Moves(d1, q) /\ Same(d1, q, Tables \ {"retries"})
    BY <2>2, <2>3, ClearKeeps
  <2>5. Moves(d, q)
    BY <2>2, <2>4, MovesOn
  <2>6. q.lease = d.lease
    BY <2>2, <2>4 DEF Same, Tables
  <2> QED
    BY <2>4, <2>5, <2>6 DEF Lapses
<1>4. \/ e = Absorbed(d, r)
      \/ e = MarkProcessed(d, Key(r))
      \/ e = [d EXCEPT !.retries[r] = IF @ < MaxFeedAttempts THEN @ + 1 ELSE @]
      \/ e = d
      \/ ~Stale(h) /\ ~Diagnostic(h.row, h.cand) /\ e = Effects(d, r, row, m)
  BY <1>2 DEF IngestDb
<1>5. CASE e = Absorbed(d, r)
  BY <1>3, <1>5
<1>6. CASE e = MarkProcessed(d, Key(r))
  <2>1. TablesOK(e) /\ Moves(d, e) /\ Same(d, e, Tables \ {"processed"})
    BY <1>6, MarkProcessedKeeps
  <2> QED
    BY <2>1 DEF Same, Tables, Lapses
<1>7. CASE e = [d EXCEPT !.retries[r] = IF @ < MaxFeedAttempts THEN @ + 1 ELSE @]
  <2>1. MaxFeedAttempts \in Nat /\ d.retries \in [Runs -> 0..MaxFeedAttempts]
    BY EngineConstants DEF TablesOK, Db
  <2>2. PICK n \in 0..MaxFeedAttempts : n = IF d.retries[r] < MaxFeedAttempts THEN d.retries[r] + 1 ELSE d.retries[r]
    BY <2>1
  <2>3. PICK v : v = [d.retries EXCEPT ![r] = n]
    OBVIOUS
  <2>4. v \in [Runs -> 0..MaxFeedAttempts]
    BY <2>1, <2>2, <2>3
  <2>5. e = [d EXCEPT !.retries = v]
    BY <1>7, <2>2, <2>3
  <2>6. TablesOK(e) /\ Moves(d, e) /\ Same(d, e, Tables \ {"retries"})
    BY <2>4, <2>5, RetriesKeep
  <2> QED
    BY <2>6 DEF Same, Tables, Lapses
<1>8. CASE e = d
  BY <1>8 DEF Moves, Lapses
<1>9. CASE ~Stale(h) /\ ~Diagnostic(h.row, h.cand) /\ e = Effects(d, r, row, m)
  <2>1. row.state = "dispatched" /\ ~CandTerminal(h.cand)
    BY <1>2, <1>9 DEF Diagnostic
  <2>2. cell[r].epoch = LeaseFence
    BY <1>1, <1>2, <1>9, <2>1 DEF Stale
  <2>3. d.run[r].state # "absent" /\ Started(d.cand[CandOf[r]]) /\ d.cand[CandOf[r]] # "eligible"
    BY <1>1, <1>2, <2>1
  <2> QED
    BY <1>9, <2>2, <2>3, EffectsKeep
<1> QED
  BY <1>4, <1>5, <1>6, <1>7, <1>8, <1>9

----------------------------------------------------------------------------
(***************************************************************************)
(* Handlers and the reconciler                                             *)
(***************************************************************************)

\* What the other threads leave to the scheduler: a run it admitted stays
\* fit for dispatch, and nobody else makes a candidate eligible.
Calm(d, e) ==
    /\ \A r \in Runs : Dispatchable(d, r) => Dispatchable(e, r)
    /\ \A c \in Cands : e.cand[c] = "eligible" => d.cand[c] = "eligible"

\* Calm steps compose.
LEMMA CalmOn ==
    ASSUME NEW d, NEW e, NEW f, Calm(d, e), Calm(e, f)
    PROVE  Calm(d, f)
BY DEF Calm

\* A handler that writes no row and no candidate.
LEMMA CalmSame ==
    ASSUME NEW d, NEW e, Same(d, e, {"run", "cand"})
    PROVE  Calm(d, e)
BY DEF Calm, Same, Dispatchable

\* Rows end, go back to the queue, or are inserted.
Sprout(d, e) ==
    \A r \in Runs :
        \/ e.run[r].state = d.run[r].state /\ e.run[r].fence = d.run[r].fence
        \/ d.run[r].state # "absent" /\ e.run[r].state \notin {"absent", "dispatched"}
        \/ /\ e.run[r].state \notin {"absent", "dispatched"}
           /\ e.cand[CandOf[r]] # "absent" /\ Plan[r] <= e.rerun[CandOf[r]]

\* Rows that sprout keep the invariant of the tables.
LEMMA SproutKeeps ==
    ASSUME NEW d, TablesOK(d), NEW e \in Db, Same(d, e, {"cand", "evidence", "decisions"}), SlotsOK(e),
           \A c \in Cands : d.rerun[c] <= e.rerun[c], Sprout(d, e)
    PROVE  TablesOK(e) /\ Moves(d, e)
<1>1. e.cand = d.cand /\ e.evidence = d.evidence /\ e.decisions = d.decisions
  BY DEF Same
<1>2. ASSUME NEW r \in Runs
      PROVE  /\ e.run[r].state # "absent" => e.cand[CandOf[r]] # "absent" /\ Plan[r] <= e.rerun[CandOf[r]]
             /\ e.run[r].state = "dispatched" => Started(e.cand[CandOf[r]]) /\ e.run[r].fence = LeaseFence
  <2>1. PICK c \in Cands, m \in Nat, n \in Nat, p \in Nat :
           c = CandOf[r] /\ m = d.rerun[c] /\ n = e.rerun[c] /\ p = Plan[r] /\ m <= n
    BY EngineConstants DEF TablesOK, Db
  <2>2. d.run[r].state # "absent" => d.cand[c] # "absent" /\ p <= m
    BY <2>1 DEF TablesOK, RowsOK
  <2>3. d.run[r].state = "dispatched" => Started(d.cand[c]) /\ d.run[r].fence = LeaseFence
    BY <2>1 DEF TablesOK, RowsOK
  <2> QED
    BY <1>1, <2>1, <2>2, <2>3 DEF Sprout
<1>3. RowsOK(e)
  BY <1>2 DEF RowsOK
<1>4. VerdictsOK(e) /\ EvidenceOK(e) /\ Moves(d, e)
  BY <1>1 DEF TablesOK, VerdictsOK, EvidenceOK, Moves, Sprout
<1> QED
  BY <1>3, <1>4 DEF TablesOK

\* A new row.
LEMMA NewRowFields == NewRow \in Row /\ NewRow.state = "queued" /\ NewRow.conc = 0
<1>1. PICK w : w = NoRow
  OBVIOUS
<1>2. w \in Row /\ w.conc = 0
  BY <1>1 DEF NoRow, Row, RunStates
<1>3. NewRow = [w EXCEPT !.state = "queued", !.attempt = 1]
  BY <1>1 DEF NewRow
<1> QED
  BY <1>2, <1>3 DEF Row, RunStates

\* INSERT of runs.
Inserted(d, e, c, p) ==
    \A r \in Runs : IF CandOf[r] = c /\ Plan[r] = p THEN e.run[r].state = "queued" /\ e.run[r].conc = 0
                    ELSE e.run[r] = d.run[r]

\* InsertRuns writes what Inserted says.
LEMMA InsertWrites ==
    ASSUME NEW d \in Db, NEW c, NEW p, NEW e, e = InsertRuns(d, c, p)
    PROVE  e \in Db /\ Same(d, e, Tables \ {"run"}) /\ Inserted(d, e, c, p)
<1> DEFINE v == [r \in Runs |-> IF CandOf[r] = c /\ Plan[r] = p THEN NewRow ELSE d.run[r]]
<1>1. e = [d EXCEPT !.run = v]
  BY DEF InsertRuns
<1>2. NewRow \in Row /\ NewRow.state = "queued" /\ NewRow.conc = 0
  BY NewRowFields
<1>3. v \in [Runs -> Row]
  BY <1>2 DEF Db
<1>4. e \in Db /\ e.run = v /\ Same(d, e, Tables \ {"run"})
  BY <1>1, <1>3, SetRun
<1> QED
  BY <1>2, <1>4 DEF Inserted

\* SubmitCandidateTx of a new candidate.
LEMMA SubmitKeeps ==
    ASSUME NEW d, TablesOK(d), NEW c \in Cands, d.cand[c] = "absent", NEW e, e = SubmitCandidateTx(d, c)
    PROVE  /\ TablesOK(e) /\ Moves(d, e) /\ Calm(d, e) /\ Same(d, e, Tables \ {"cand", "run"})
           /\ \A q \in Cands \ {c} : e.cand[q] = d.cand[q]
<1>1. PICK st \in {"blocked_representative", "submitted"} :
         st = IF Relation[c] = "duplicate_of" THEN "blocked_representative" ELSE "submitted"
  OBVIOUS
<1>2. PICK d1 : d1 = [d EXCEPT !.cand[c] = st]
  OBVIOUS
<1>3. d \in Db /\ st \in CandStates
  BY DEF TablesOK, CandStates
<1>4. d1 \in Db /\ Same(d, d1, Tables \ {"cand"}) /\ CandWritten(d, d1, c, st)
  BY <1>2, <1>3, SetOneCand
<1>5. /\ d1.run = d.run /\ d1.rerun = d.rerun /\ d1.used = d.used /\ d1.decisions = d.decisions
      /\ d1.evidence = d.evidence /\ d1.cand[c] = st /\ \A q \in Cands \ {c} : d1.cand[q] = d.cand[q]
  BY <1>4 DEF Same, Tables, CandWritten
<1>6. \A r \in Runs : CandOf[r] = c => d.run[r].state = "absent"
  BY DEF TablesOK, RowsOK
<1>7. \A r \in Runs : CandOf[r] \in Cands
  BY EngineConstants
<1>8. TablesOK(d1) /\ Moves(d, d1)
  <2>1. RowsOK(d1) /\ Moves(d, d1)
    BY <1>5, <1>6, <1>7 DEF TablesOK, RowsOK, Moves, Started, CandTerminal
  <2>2. SlotsOK(d1) /\ EvidenceOK(d1) /\ VerdictsOK(d1)
    BY <1>5 DEF TablesOK, SlotsOK, Holding, EvidenceOK, VerdictsOK
  <2> QED
    BY <1>4, <2>1, <2>2 DEF TablesOK
<1>9. PICK p \in Nat : p = 0
  OBVIOUS
<1>10. e = InsertRuns(d1, c, p)
  BY <1>1, <1>2, <1>9 DEF SubmitCandidateTx
<1>11. e \in Db /\ Same(d1, e, Tables \ {"run"}) /\ Inserted(d1, e, c, p)
  BY <1>4, <1>10, InsertWrites
<1>12. Same(d1, e, {"cand", "evidence", "decisions"}) /\ e.used = d1.used /\ e.rerun = d1.rerun
  BY <1>11 DEF Same, Tables
<1>13. SlotsOK(e)
  <2>1. \A r \in Runs : CandOf[r] = c => d1.run[r].conc = 0 /\ r \notin Holding(d1)
    <3> SUFFICES ASSUME NEW r \in Runs, CandOf[r] = c PROVE d1.run[r].conc = 0 /\ r \notin Holding(d1)
      OBVIOUS
    <3>1. d1.run[r].conc \in 0..1
      BY <1>4, RowFields
    <3>2. r \notin Holding(d1)
      BY <1>5, <1>6, <1>8 DEF TablesOK, SlotsOK
    <3> QED
      BY <3>1, <3>2 DEF Holding
  <2>2. \A r \in Runs : e.run[r].conc = d1.run[r].conc
    BY <1>11, <2>1 DEF Inserted
  <2>3. \A r \in Holding(d1) : e.run[r].state = d1.run[r].state
    BY <1>11, <2>1 DEF Inserted, Holding
  <2>4. Parked(d1, e)
    BY <2>2, <2>3 DEF Parked
  <2> QED
    BY <1>8, <1>11, <1>12, <2>4, SlotsStay
<1>14. \A q \in Cands : d1.rerun[q] <= e.rerun[q] /\ 0 <= e.rerun[q]
  BY <1>11, <1>12, <1>4 DEF Db
<1>15. Sprout(d1, e)
  <2>1. e.cand[c] # "absent"
    BY <1>5, <1>12 DEF Same
  <2> QED
    BY <1>7, <1>9, <1>11, <1>14, <2>1 DEF Sprout, Inserted
<1>16. TablesOK(e) /\ Moves(d1, e)
  BY <1>8, <1>11, <1>12, <1>13, <1>14, <1>15, SproutKeeps
<1>17. Moves(d, e)
  BY <1>8, <1>16, MovesOn
<1>18. e.cand[c] = st /\ \A q \in Cands \ {c} : e.cand[q] = d.cand[q]
  BY <1>5, <1>12 DEF Same
<1>19. Calm(d, e)
  <2>1. ASSUME NEW r \in Runs, Dispatchable(d, r) PROVE Dispatchable(e, r)
    <3>1. CandOf[r] # c
      BY <1>6, <2>1 DEF Dispatchable
    <3>2. e.run[r] = d.run[r] /\ e.cand[CandOf[r]] = d.cand[CandOf[r]]
      BY <1>5, <1>7, <1>11, <1>18, <3>1 DEF Inserted
    <3> QED
      BY <2>1, <3>2 DEF Dispatchable
  <2> QED
    BY <1>18, <2>1 DEF Calm
<1>20. Same(d, e, Tables \ {"cand", "run"})
  BY <1>4, <1>11 DEF Same
<1> QED
  BY <1>16, <1>17, <1>18, <1>19, <1>20

\* Live candidates leave and their queued runs with them.
Retired(d, e, S, st) == \A c \in Cands : e.cand[c] = IF c \in S THEN st ELSE d.cand[c]

\* Retire closes candidates and takes their runs off the queue, so that an
\* admitted run that is still queued has an open candidate.
LEMMA RetireKeeps ==
    ASSUME NEW d, TablesOK(d), NEW S \in SUBSET Cands, \A c \in S : Live(d.cand[c]),
           NEW st \in {"superseded", "cancelled"}, NEW e, e = Retire(d, S, st)
    PROVE  /\ TablesOK(e) /\ Moves(d, e) /\ Calm(d, e) /\ Same(d, e, Tables \ {"cand", "run"})
           /\ Retired(d, e, S, st)
<1>1. PICK v : v = [c \in Cands |-> IF c \in S THEN st ELSE d.cand[c]]
  OBVIOUS
<1>2. d \in Db /\ v \in [Cands -> CandStates] /\ \A c \in Cands : v[c] = IF c \in S THEN st ELSE d.cand[c]
  BY <1>1 DEF TablesOK, Db, CandStates
<1>3. PICK d1 : d1 = [d EXCEPT !.cand = v]
  OBVIOUS
<1>4. d1 \in Db /\ d1.cand = v /\ Same(d, d1, Tables \ {"cand"})
  BY <1>2, <1>3, SetCand
<1>5. Same(d, d1, {"rerun", "run", "evidence", "decisions", "used"}) /\ d1.run = d.run
  BY <1>4 DEF Same, Tables
<1>6. \A c \in Cands : \/ d1.cand[c] = d.cand[c]
                       \/ Live(d.cand[c]) /\ d1.cand[c] \in {"superseded", "cancelled", "rejected", "repairing"}
  BY <1>2, <1>4
<1>7. TablesOK(d1) /\ Moves(d, d1)
  BY <1>4, <1>5, <1>6, CandsMove
<1>8. PICK T : T = UNION {Queued(d, c) : c \in S}
  OBVIOUS
<1>9. \A r \in Runs : r \in T <=> CandOf[r] \in S /\ d.run[r].state = "queued"
  BY <1>8 DEF Queued
<1>10. e = CancelRuns(d1, T)
  BY <1>1, <1>3, <1>8 DEF Retire
<1>11. e \in Db /\ Same(d1, e, Tables \ {"run"}) /\ Cancelled(d1, e, T)
  BY <1>4, <1>10, CancelWrites
<1>12. Same(d1, e, {"cand", "rerun", "evidence", "decisions"}) /\ e.used = d1.used /\ e.cand = v
  BY <1>4, <1>11 DEF Same, Tables
<1>13. SlotsOK(e)
  <2>1. \A r \in Runs : e.run[r].conc = d1.run[r].conc
    BY <1>11 DEF Cancelled
  <2>2. \A r \in Holding(d1) : e.run[r].state = d1.run[r].state
    BY <1>5, <1>7, <1>9, <1>11 DEF Cancelled, Holding, TablesOK, SlotsOK
  <2>3. Parked(d1, e)
    BY <2>1, <2>2 DEF Parked
  <2> QED
    BY <1>7, <1>11, <1>12, <2>3, SlotsStay
<1>14. \A r \in Runs : \/ e.run[r].state = d1.run[r].state /\ e.run[r].fence = d1.run[r].fence
                       \/ d1.run[r].state # "absent" /\ e.run[r].state \notin {"absent", "dispatched"}
  BY <1>11 DEF Cancelled
<1>15. TablesOK(e) /\ Moves(d1, e)
  BY <1>7, <1>11, <1>12, <1>13, <1>14, RowsMove
<1>16. Moves(d, e)
  BY <1>7, <1>15, MovesOn
<1>17. Retired(d, e, S, st)
  BY <1>2, <1>12 DEF Retired
<1>18. Calm(d, e)
  <2>1. ASSUME NEW r \in Runs, Dispatchable(d, r) PROVE Dispatchable(e, r)
    <3>1. CandOf[r] \in Cands
      BY EngineConstants
    <3>2. CASE CandOf[r] \in S
      BY <1>5, <1>9, <1>11, <2>1, <3>2 DEF Cancelled, Dispatchable
    <3>3. CASE CandOf[r] \notin S
      BY <1>5, <1>9, <1>11, <1>17, <2>1, <3>1, <3>3 DEF Cancelled, Dispatchable, Retired
    <3> QED
      BY <3>2, <3>3
  <2> QED
    BY <1>17, <2>1 DEF Calm, Retired
<1>19. Same(d, e, Tables \ {"cand", "run"})
  BY <1>4, <1>11 DEF Same
<1> QED
  BY <1>15, <1>16, <1>17, <1>18, <1>19

\* supersedeCandidateTx.
LEMMA SupersedeKeeps ==
    ASSUME NEW d, TablesOK(d), NEW S \in SUBSET Cands, \A c \in S : Live(d.cand[c]), NEW e, e = Supersede(d, S)
    PROVE  TablesOK(e) /\ Moves(d, e) /\ Calm(d, e) /\ Same(d, e, {"lease"})
<1>1. PICK st \in {"superseded", "cancelled"} : st = "superseded"
  OBVIOUS
<1>2. PICK d1 : d1 = Retire(d, S, st)
  OBVIOUS
<1>3. /\ TablesOK(d1) /\ Moves(d, d1) /\ Calm(d, d1) /\ Same(d, d1, Tables \ {"cand", "run"})
      /\ Retired(d, d1, S, st)
  BY <1>2, RetireKeeps
<1>4. d \in Db /\ d1 \in Db
  BY <1>3 DEF TablesOK
<1>5. PICK a, v : /\ a = d1.announced \cup S
                  /\ v = [c \in Cands |-> IF c \in S /\ d.repair[c] = "authorized" THEN "aborted" ELSE d.repair[c]]
  OBVIOUS
<1>6. a \in SUBSET Cands /\ v \in [Cands -> Repairs]
  BY <1>4, <1>5 DEF Db, Repairs
<1>7. e = [d1 EXCEPT !.announced = a, !.repair = v]
  BY <1>1, <1>2, <1>5 DEF Supersede
<1>8. e \in Db /\ Same(d1, e, Tables \ {"announced", "repair"})
  BY <1>4, <1>6, <1>7 DEF Db, Same, Tables
<1>9. Same(d1, e, Tables \ Books) /\ Same(d1, e, {"run", "cand"})
  BY <1>8 DEF Same, Books, Tables
<1>10. TablesOK(e) /\ Moves(d1, e)
  BY <1>3, <1>8, <1>9, BooksKeep
<1>11. Calm(d1, e)
  BY <1>9, CalmSame
<1>12. Moves(d, e)
  BY <1>3, <1>10, MovesOn
<1>13. Calm(d, e)
  BY <1>3, <1>11, CalmOn
<1>14. Same(d, e, {"lease"})
  BY <1>3, <1>8 DEF Same, Tables
<1> QED
  BY <1>10, <1>12, <1>13, <1>14

\* A revalidation: the runs of the next plan are inserted, the prior ones
\* cancelled, in flight or not, and their slots kept.
LEMMA ReplanKeeps ==
    ASSUME NEW d, TablesOK(d), NEW c \in Cands, d.rerun[c] < MaxRerun, d.cand[c] # "absent",
           NEW prior, "revalidate" \in Env, NEW n \in Nat, n = d.rerun[c] + 1,
           NEW e, e = [CancelRuns(InsertRuns(d, c, n), prior) EXCEPT !.rerun[c] = n]
    PROVE  TablesOK(e) /\ Moves(d, e) /\ Calm(d, e) /\ Same(d, e, {"lease", "cand"})
<1>1. PICK d1 : d1 = InsertRuns(d, c, n)
  OBVIOUS
<1>2. PICK d2 : d2 = CancelRuns(d1, prior)
  OBVIOUS
<1>3. d \in Db
  BY DEF TablesOK
<1>4. d1 \in Db /\ Same(d, d1, Tables \ {"run"}) /\ Inserted(d, d1, c, n)
  BY <1>1, <1>3, InsertWrites
<1>5. d2 \in Db /\ Same(d1, d2, Tables \ {"run"}) /\ Cancelled(d1, d2, prior)
  BY <1>2, <1>4, CancelWrites
<1>6. d2.rerun = d.rerun /\ d.rerun \in [Cands -> 0..MaxRerun] /\ MaxRerun \in Nat
  BY <1>3, <1>4, <1>5, EngineConstants DEF Same, Tables, Db
<1>7. PICK v : v = [d2.rerun EXCEPT ![c] = n]
  OBVIOUS
<1>8. v \in [Cands -> 0..MaxRerun] /\ v[c] = n /\ \A q \in Cands : d.rerun[q] <= v[q]
  BY <1>6, <1>7
<1>9. e = [d2 EXCEPT !.rerun = v]
  BY <1>1, <1>2, <1>7
<1>10. e \in Db /\ e.rerun = v /\ Same(d2, e, Tables \ {"rerun"})
  BY <1>5, <1>8, <1>9, SetRerun
<1>11. /\ Same(d, e, {"cand", "evidence", "decisions"}) /\ Same(d, e, {"lease", "cand"}) /\ e.used = d.used
       /\ e.run = d2.run /\ e.cand = d.cand
  BY <1>4, <1>5, <1>10 DEF Same, Tables
<1>12. \A r \in Runs : CandOf[r] = c /\ Plan[r] = n => d.run[r].state = "absent"
  <2> SUFFICES ASSUME NEW r \in Runs, CandOf[r] = c, Plan[r] = n, d.run[r].state # "absent" PROVE FALSE
    OBVIOUS
  <2>1. n <= d.rerun[c] /\ d.rerun[c] \in Nat
    BY <1>6 DEF TablesOK, RowsOK
  <2> QED
    BY <2>1
<1>13. SlotsOK(e)
  <2>1. \A r \in Runs : CandOf[r] = c /\ Plan[r] = n => d.run[r].conc = 0 /\ r \notin Holding(d)
    <3> SUFFICES ASSUME NEW r \in Runs, d.run[r].state = "absent" PROVE d.run[r].conc = 0 /\ r \notin Holding(d)
      BY <1>12
    <3>1. d.run[r].conc \in 0..1
      BY <1>3, RowFields
    <3>2. r \notin Holding(d)
      BY DEF TablesOK, SlotsOK
    <3> QED
      BY <3>1, <3>2 DEF Holding
  <2>2. \A r \in Runs : e.run[r].conc = d.run[r].conc
    BY <1>4, <1>5, <1>11, <2>1 DEF Inserted, Cancelled
  <2>3. \A r \in Holding(d) : e.run[r].state = d.run[r].state \/ (e.run[r].state = "cancelled" /\ "revalidate" \in Env)
    BY <1>4, <1>5, <1>11, <2>1 DEF Inserted, Cancelled, Holding
  <2>4. Parked(d, e)
    BY <2>2, <2>3 DEF Parked
  <2> QED
    BY <1>10, <1>11, <2>4, SlotsStay
<1>14. Sprout(d, e)
  <2> SUFFICES ASSUME NEW r \in Runs
               PROVE  \/ e.run[r].state = d.run[r].state /\ e.run[r].fence = d.run[r].fence
                      \/ d.run[r].state # "absent" /\ e.run[r].state \notin {"absent", "dispatched"}
                      \/ /\ e.run[r].state \notin {"absent", "dispatched"}
                         /\ e.cand[CandOf[r]] # "absent" /\ Plan[r] <= e.rerun[CandOf[r]]
    BY DEF Sprout
  <2>1. CASE CandOf[r] = c /\ Plan[r] = n
    <3>1. e.run[r].state \in {"queued", "cancelled"}
      BY <1>4, <1>5, <1>11, <2>1 DEF Inserted, Cancelled
    <3>2. Plan[r] <= e.rerun[CandOf[r]]
      BY <1>8, <1>10, <2>1
    <3> QED
      BY <1>11, <2>1, <3>1, <3>2
  <2>2. CASE ~(CandOf[r] = c /\ Plan[r] = n)
    BY <1>4, <1>5, <1>11, <2>2 DEF Inserted, Cancelled
  <2> QED
    BY <2>1, <2>2
<1>15. \A q \in Cands : d.rerun[q] <= e.rerun[q]
  BY <1>8, <1>10
<1>16. TablesOK(e) /\ Moves(d, e)
  BY <1>10, <1>11, <1>13, <1>14, <1>15, SproutKeeps
<1>17. Calm(d, e)
  <2>1. ASSUME NEW r \in Runs, Dispatchable(d, r) PROVE Dispatchable(e, r)
    <3>1. d1.run[r] = d.run[r]
      BY <1>4, <1>12, <2>1 DEF Inserted, Dispatchable
    <3> QED
      BY <1>5, <1>11, <2>1, <3>1 DEF Cancelled, Dispatchable
  <2> QED
    BY <1>11, <2>1 DEF Calm
<1> QED
  BY <1>11, <1>16, <1>17

\* The reconciler gives up a run.
LEMMA GiveUpKeeps ==
    ASSUME NEW d, TablesOK(d), NEW r \in Runs, d.run[r].state \in {"queued", "dispatched"},
           NEW cpu \in Nat, NEW e, e = Release(CancelRuns(d, {r}), {r}, cpu)
    PROVE  TablesOK(e) /\ Moves(d, e) /\ Calm(d, e) /\ Same(d, e, {"lease"})
<1>1. PICK S \in SUBSET Runs : S = {r}
  OBVIOUS
<1>2. PICK d1 : d1 = CancelRuns(d, S)
  OBVIOUS
<1>3. d \in Db
  BY DEF TablesOK
<1>4. d1 \in Db /\ Same(d, d1, Tables \ {"run"}) /\ Cancelled(d, d1, S)
  BY <1>2, <1>3, CancelWrites
<1>5. e = Release(d1, S, cpu)
  BY <1>1, <1>2
<1>6. Ended(d, d1, S)
  BY <1>4 DEF Ended, Cancelled
<1>7. TablesOK(e) /\ Moves(d, e) /\ Same(d, e, Tables \ {"used", "run"}) /\ Freed(d1, e, S)
  BY <1>4, <1>5, <1>6, EndKeeps
<1>8. Same(d, e, {"lease"}) /\ e.cand = d.cand
  BY <1>7 DEF Same, Tables
<1>9. Calm(d, e)
  BY <1>4, <1>7, <1>8 DEF Calm, Dispatchable, Freed, Cancelled
<1> QED
  BY <1>7, <1>8, <1>9

\* A dispatched run grows old.
LEMMA AgeKeeps ==
    ASSUME NEW d, TablesOK(d), NEW r \in Runs, NEW e, e = [d EXCEPT !.run[r].late = TRUE]
    PROVE  TablesOK(e) /\ Moves(d, e) /\ Calm(d, e) /\ Same(d, e, {"lease"})
<1>1. d \in Db
  BY DEF TablesOK
<1>2. PICK w : w = [d.run[r] EXCEPT !.late = TRUE]
  OBVIOUS
<1>3. w \in Row /\ w.state = d.run[r].state /\ w.fence = d.run[r].fence /\ w.conc = d.run[r].conc
  BY <1>1, <1>2, RowFields DEF Row
<1>4. e = [d EXCEPT !.run[r] = w]
  BY <1>2
<1>5. e \in Db /\ Same(d, e, Tables \ {"run"}) /\ RowWritten(d, e, r, w)
  BY <1>1, <1>3, <1>4, SetRow
<1>6. \A q \in Runs : e.run[q].state = d.run[q].state /\ e.run[q].fence = d.run[q].fence /\ e.run[q].conc = d.run[q].conc
  BY <1>3, <1>5 DEF RowWritten
<1>7. Same(d, e, {"cand", "rerun", "evidence", "decisions"}) /\ Same(d, e, {"lease"}) /\ e.used = d.used
      /\ e.cand = d.cand
  BY <1>5 DEF Same, Tables
<1>8. SlotsOK(e)
  <2>1. Parked(d, e)
    BY <1>6 DEF Parked, Holding
  <2> QED
    BY <1>5, <1>7, <2>1, SlotsStay
<1>9. TablesOK(e) /\ Moves(d, e)
  BY <1>5, <1>6, <1>7, <1>8, RowsMove
<1> QED
  BY <1>6, <1>7, <1>9 DEF Calm, Dispatchable

\* BudgetUsageSnapshot.
LEMMA RollOverKeeps ==
    ASSUME NEW d, TablesOK(d), hour \in 0..MaxHour, NEW e, e = RollOver(d)
    PROVE  TablesOK(e) /\ Moves(d, e) /\ Same(d, e, Tables \ {"used", "window"})
<1>1. d \in Db /\ d.used["cpu"] \in Nat /\ d.used["conc"] \in Nat
  BY DEF TablesOK, Db, Counters
<1>2. PICK u, w : /\ u = [k \in Counters |-> IF d.window[k] < hour THEN 0 ELSE d.used[k]]
                  /\ w = [k \in Counters |-> hour]
  OBVIOUS
<1>3. u \in [Counters -> Nat] /\ w \in [Counters -> 0..MaxHour] /\ u["conc"] <= d.used["conc"]
  BY <1>1, <1>2 DEF Counters, Db
<1>4. e = [d EXCEPT !.used = u, !.window = w]
  BY <1>2 DEF RollOver
<1>5. e \in Db /\ e.used = u /\ Same(d, e, Tables \ {"used", "window"})
  BY <1>1, <1>3, <1>4 DEF Db, Same, Tables
<1>6. Same(d, e, {"cand", "rerun", "run", "evidence", "decisions"}) /\ e.used["conc"] <= d.used["conc"]
  BY <1>3, <1>5 DEF Same, Tables
<1> QED
  BY <1>5, <1>6, QuietTables

----------------------------------------------------------------------------
(***************************************************************************)
(* Steps of the other threads                                              *)
(***************************************************************************)

\* The tables' invariant depends on the fleet through what it accepted.
LEMMA TablesFrame ==
    ASSUME NEW e, e = db', TablesOK(e), \A r \in Runs : Passed(r) => Passed(r)'
    PROVE  TablesOK(db)'
<1>1. (RowsOK(db) /\ SlotsOK(db) /\ VerdictsOK(db))'
  BY DEF TablesOK, RowsOK, SlotsOK, VerdictsOK, Holding
<1>2. EvidenceOK(db)'
  <2>1. \A v \in e.evidence : v[1] \in Runs /\ Passed(v[1])
    BY DEF TablesOK, Db, EvidenceOK
  <2>2. \A v \in e.evidence : Passed(v[1])'
    BY <2>1
  <2>3. ASSUME NEW c \in Cands, Earned(c) PROVE Earned(c)'
    BY <2>3 DEF Earned
  <2>4. \A c \in Cands : e.cand[c] = "eligible" => Earned(c)'
    BY <2>3 DEF TablesOK, EvidenceOK
  <2> QED
    BY <2>2, <2>4 DEF EvidenceOK
<1> QED
  BY <1>1, <1>2 DEF TablesOK

\* The fleet does not move.
LEMMA FleetFrame ==
    ASSUME FleetOK, UNCHANGED fleetVars
    PROVE  FleetOK' /\ \A r \in Runs : Passed(r) => Passed(r)'
BY DEF FleetOK, fleetVars, Passed

\* Runs in flight.
LEMMA InFlightFinite ==
    ASSUME NEW d, NEW t
    PROVE  IsFiniteSet(InFlight(d, t)) /\ Cardinality(InFlight(d, t)) \in Nat
<1>1. IsFiniteSet(InFlight(d, t))
  BY EngineConstants, FS_Subset DEF InFlight
<1> QED
  BY <1>1, FS_CardinalityType

\* Nothing but the dispatch puts a run in flight.
LEMMA InFlightShrinks ==
    ASSUME NEW d, NEW e, NEW t, Moves(d, e)
    PROVE  Cardinality(InFlight(e, t)) <= Cardinality(InFlight(d, t))
<1>1. InFlight(e, t) \subseteq InFlight(d, t)
  BY DEF InFlight, Moves
<1> QED
  BY <1>1, InFlightFinite, FS_Subset

\* Admitted runs that wait.
Waiting(T, t) == {a \in T : Tier[a.run] = t}

\* They are finitely many.
LEMMA WaitingFinite ==
    ASSUME NEW T, IsFiniteSet(T), NEW t
    PROVE  IsFiniteSet(Waiting(T, t)) /\ Cardinality(Waiting(T, t)) \in Nat
<1>1. IsFiniteSet(Waiting(T, t))
  BY FS_Subset DEF Waiting
<1> QED
  BY <1>1, FS_CardinalityType

\* The slots of a tier that the scheduler has promised.
LEMMA ReservedNat ==
    ASSUME IsFiniteSet(todo), NEW t
    PROVE  /\ Reserved(t) = Cardinality(Waiting(todo, t)) + (IF pc = "committing" /\ Tier[hand.run] = t THEN 1 ELSE 0)
           /\ Reserved(t) \in Nat
<1>1. Reserved(t) = Cardinality(Waiting(todo, t)) + (IF pc = "committing" /\ Tier[hand.run] = t THEN 1 ELSE 0)
  BY DEF Reserved, Waiting
<1>2. Cardinality(Waiting(todo, t)) \in Nat
  BY WaitingFinite
<1> QED
  BY <1>1, <1>2

\* A step of another thread leaves the scheduler what it relies on.
LEMMA SchedulerFrame ==
    ASSUME SchedulerOK, HandOK, NEW d, d = db, NEW e, e = db', Moves(d, e), Calm(d, e), UNCHANGED engineVars
    PROVE  SchedulerOK' /\ HandOK'
<1>1. pc' = pc /\ todo' = todo /\ inbox' = inbox /\ hand' = hand
  BY DEF engineVars
<1>2. \A a \in todo : Dispatchable(e, a.run)
  BY DEF SchedulerOK, Calm, Admission
<1>3. pc = "committing" => hand \in Admission /\ Dispatchable(e, hand.run)
  BY DEF SchedulerOK, Calm, Admission
<1>4. ASSUME NEW r \in Runs
      PROVE  Cardinality(InFlight(e, Tier[r])) + Reserved(Tier[r]) <= WIPCap[Tier[r]]
  <2>1. PICK t : t = Tier[r]
    OBVIOUS
  <2>2. PICK m \in Nat, n \in Nat, k \in Nat, w \in Nat :
           /\ m = Cardinality(InFlight(d, t)) /\ n = Cardinality(InFlight(e, t)) /\ k = Reserved(t) /\ w = WIPCap[t]
    BY <2>1, InFlightFinite, ReservedNat, EngineConstants DEF SchedulerOK
  <2>3. n <= m
    BY <2>2, InFlightShrinks
  <2>4. m + k <= w
    BY <2>1, <2>2 DEF SchedulerOK
  <2>5. n + k <= w
    BY <2>3, <2>4
  <2> QED
    BY <2>1, <2>2, <2>5
<1>5. \A r \in Runs : (Cardinality(InFlight(db, Tier[r])) + Reserved(Tier[r]) <= WIPCap[Tier[r]])'
  BY <1>1, <1>4 DEF Reserved, InFlight
<1>6. SchedulerOK'
  BY <1>1, <1>2, <1>3, <1>5 DEF SchedulerOK, Dispatchable
<1>7. HandOK'
  <2> SUFFICES ASSUME pc = "applying" PROVE HandOK'
    BY <1>1 DEF HandOK
  <2>1. /\ hand \in Loaded
        /\ hand.row.state = "dispatched" => /\ Started(d.cand[CandOf[hand.run]]) /\ hand.row.fence = LeaseFence
                                            /\ d.run[hand.run].state # "absent"
        /\ ~CandTerminal(hand.cand) => d.cand[CandOf[hand.run]] # "eligible"
    BY DEF HandOK
  <2>2. PICK r \in Runs, c \in Cands : r = hand.run /\ c = CandOf[r]
    BY <2>1, EngineConstants DEF Loaded
  <2>3. /\ Started(d.cand[c]) => Started(e.cand[c])
        /\ d.run[r].state # "absent" => e.run[r].state # "absent"
        /\ e.cand[c] = "eligible" => d.cand[c] = "eligible"
    BY DEF Moves, Calm
  <2>4. /\ hand.row.state = "dispatched" => /\ Started(e.cand[CandOf[hand.run]]) /\ hand.row.fence = LeaseFence
                                            /\ e.run[hand.run].state # "absent"
        /\ ~CandTerminal(hand.cand) => e.cand[CandOf[hand.run]] # "eligible"
    BY <2>1, <2>2, <2>3
  <2> QED
    BY <1>1, <2>1, <2>4 DEF HandOK
<1> QED
  BY <1>6, <1>7

\* What every transaction of another thread keeps.
Handled(d, e) == TablesOK(e) /\ Moves(d, e) /\ Calm(d, e) /\ Lapses(d, e)

\* A transaction of another thread keeps what the scheduler relies on.
LEMMA HandlerKeeps ==
    ASSUME EngineIInv, NEW d, d = db, NEW e, e = db', Handled(d, e), UNCHANGED <<hour, fleetVars, engineVars>>,
           ReadersOK'
    PROVE  EngineIInv'
<1>1. FleetOK' /\ \A r \in Runs : Passed(r) => Passed(r)'
  BY FleetFrame DEF EngineIInv
<1>2. TablesOK(db)'
  BY <1>1, TablesFrame DEF Handled
<1>3. SchedulerOK' /\ HandOK'
  BY SchedulerFrame DEF EngineIInv, Handled
<1> QED
  BY <1>1, <1>2, <1>3 DEF EngineIInv

\* What no step does, the dispatch included.
Stepped(d, e) ==
    /\ \A c \in Cands : CandTerminal(d.cand[c]) => e.cand[c] = d.cand[c]
    /\ \A r \in Runs : d.run[r].state # "dispatched" /\ e.run[r].state = "dispatched" => Live(e.cand[CandOf[r]])
    /\ Lapses(d, e)

\* A step that leaves the tables alone.
LEMMA StepSame ==
    ASSUME NEW d
    PROVE  Stepped(d, d) /\ Moves(d, d) /\ Calm(d, d) /\ (TablesOK(d) => Handled(d, d))
BY DEF Stepped, Lapses, Moves, Calm, Handled

\* Such a transaction as a step.
LEMMA HandlerStep ==
    ASSUME EngineIInv, NEW d, d = db, NEW e, e = db', Handled(d, e), UNCHANGED <<hour, fleetVars, engineVars>>,
           ReadersOK'
    PROVE  EngineIInv' /\ Stepped(db, db')
<1>1. Stepped(d, e)
  BY DEF Stepped, Handled, Moves
<1> QED
  BY <1>1, HandlerKeeps

\* A transaction that leaves the lease alone.
LEMMA LeaseAlone ==
    ASSUME NEW d, NEW e, TablesOK(e), Moves(d, e), Calm(d, e), Same(d, e, {"lease"})
    PROVE  Handled(d, e)
BY DEF Handled, Lapses, Same

\* The live candidates.
LEMMA LiveOnes == LiveCands \in SUBSET Cands /\ \A c \in LiveCands : Live(db.cand[c])
BY DEF LiveCands

\* Submit.
LEMMA SubmitStep ==
    ASSUME EngineIInv, NEW c \in Cands, Submit(c)
    PROVE  EngineIInv' /\ Stepped(db, db')
<1>1. PICK d, e : d = db /\ e = db'
  OBVIOUS
<1>2. TablesOK(d) /\ d.cand[c] = "absent" /\ e = SubmitCandidateTx(d, c)
  BY <1>1 DEF EngineIInv, Submit, Handler
<1>3. TablesOK(e) /\ Moves(d, e) /\ Calm(d, e) /\ Same(d, e, Tables \ {"cand", "run"})
  BY <1>2, SubmitKeeps
<1>4. Same(d, e, {"lease"})
  BY <1>3 DEF Same, Tables
<1>5. Handled(d, e)
  BY <1>3, <1>4, LeaseAlone
<1>6. UNCHANGED <<hour, fleetVars, engineVars>> /\ UNCHANGED <<scan, replan>>
  BY DEF Submit, Handler
<1>7. ReadersOK'
  BY <1>6 DEF EngineIInv, ReadersOK
<1> QED
  BY <1>1, <1>5, <1>6, <1>7, HandlerStep

\* Synchronize.
LEMMA SynchronizeStep ==
    ASSUME EngineIInv, NEW c \in Cands, Synchronize(c)
    PROVE  EngineIInv' /\ Stepped(db, db')
<1>1. PICK d, e : d = db /\ e = db'
  OBVIOUS
<1>2. PICK S \in SUBSET Cands : S = LiveCands
  BY LiveOnes
<1>3. PICK d1 : d1 = SubmitCandidateTx(d, c)
  OBVIOUS
<1>4. TablesOK(d) /\ d.cand[c] = "absent" /\ e = Supersede(d1, S)
  BY <1>1, <1>2, <1>3 DEF EngineIInv, Synchronize, Handler
<1>5. /\ TablesOK(d1) /\ Moves(d, d1) /\ Calm(d, d1) /\ Same(d, d1, Tables \ {"cand", "run"})
      /\ \A q \in Cands \ {c} : d1.cand[q] = d.cand[q]
  BY <1>3, <1>4, SubmitKeeps, ZenonT(30)
<1>6. \A q \in S : Live(d1.cand[q])
  BY <1>1, <1>2, <1>4, <1>5, LiveOnes DEF Live
<1>7. TablesOK(e) /\ Moves(d1, e) /\ Calm(d1, e) /\ Same(d1, e, {"lease"})
  BY <1>4, <1>5, <1>6, SupersedeKeeps
<1>8. Moves(d, e)
  BY <1>5, <1>7, MovesOn
<1>9. Calm(d, e)
  BY <1>5, <1>7, CalmOn
<1>10. Same(d, e, {"lease"})
  BY <1>5, <1>7 DEF Same, Tables
<1>11. Handled(d, e)
  BY <1>7, <1>8, <1>9, <1>10, LeaseAlone
<1>12. UNCHANGED <<hour, fleetVars, engineVars>> /\ UNCHANGED <<scan, replan>>
  BY DEF Synchronize, Handler
<1>13. ReadersOK'
  BY <1>12 DEF EngineIInv, ReadersOK
<1> QED
  BY <1>1, <1>11, <1>12, <1>13, HandlerStep

\* Close, and the part of Uninstall before the lease goes.
LEMMA CloseStep ==
    ASSUME EngineIInv, Close
    PROVE  EngineIInv' /\ Stepped(db, db')
<1>1. PICK d, e : d = db /\ e = db'
  OBVIOUS
<1>2. PICK S \in SUBSET Cands, st \in {"superseded", "cancelled"} : S = LiveCands /\ st = "cancelled"
  BY LiveOnes
<1>3. TablesOK(d) /\ e = Retire(d, S, st) /\ \A c \in S : Live(d.cand[c])
  BY <1>1, <1>2, LiveOnes DEF EngineIInv, Close, Handler
<1>4. TablesOK(e) /\ Moves(d, e) /\ Calm(d, e) /\ Same(d, e, Tables \ {"cand", "run"})
  BY <1>3, RetireKeeps
<1>5. Same(d, e, {"lease"})
  BY <1>4 DEF Same, Tables
<1>6. Handled(d, e)
  BY <1>4, <1>5, LeaseAlone
<1>7. UNCHANGED <<hour, fleetVars, engineVars>> /\ UNCHANGED <<scan, replan>>
  BY DEF Close, Handler
<1>8. ReadersOK'
  BY <1>7 DEF EngineIInv, ReadersOK
<1> QED
  BY <1>1, <1>6, <1>7, <1>8, HandlerStep

\* BaseAdvanced.
LEMMA BaseAdvancedStep ==
    ASSUME EngineIInv, NEW S \in SUBSET Cands, BaseAdvanced(S)
    PROVE  EngineIInv' /\ Stepped(db, db')
<1>1. PICK d, e : d = db /\ e = db'
  OBVIOUS
<1>2. TablesOK(d) /\ e = Supersede(d, S) /\ \A c \in S : Live(d.cand[c])
  BY <1>1, LiveOnes DEF EngineIInv, BaseAdvanced, Handler
<1>3. TablesOK(e) /\ Moves(d, e) /\ Calm(d, e) /\ Same(d, e, {"lease"})
  BY <1>2, SupersedeKeeps
<1>4. Handled(d, e)
  BY <1>3, LeaseAlone
<1>5. UNCHANGED <<hour, fleetVars, engineVars>> /\ UNCHANGED <<scan, replan>>
  BY DEF BaseAdvanced, Handler
<1>6. ReadersOK'
  BY <1>5 DEF EngineIInv, ReadersOK
<1> QED
  BY <1>1, <1>4, <1>5, <1>6, HandlerStep

\* Uninstall: no candidate is live when the lease is revoked.
LEMMA UninstallStep ==
    ASSUME EngineIInv, Uninstall
    PROVE  EngineIInv' /\ Stepped(db, db')
<1>1. PICK d, e : d = db /\ e = db'
  OBVIOUS
<1>2. PICK S \in SUBSET Cands, st \in {"superseded", "cancelled"} : S = LiveCands /\ st = "cancelled"
  BY LiveOnes
<1>3. PICK d1 : d1 = Retire(d, S, st)
  OBVIOUS
<1>4. TablesOK(d) /\ \A c \in S : Live(d.cand[c])
  BY <1>1, <1>2, LiveOnes DEF EngineIInv
<1>5. /\ TablesOK(d1) /\ Moves(d, d1) /\ Calm(d, d1) /\ Same(d, d1, Tables \ {"cand", "run"})
      /\ Retired(d, d1, S, st)
  BY <1>3, <1>4, RetireKeeps
<1>6. PICK v \in LeaseStates : v = "revoked"
  BY DEF LeaseStates
<1>7. e = [d1 EXCEPT !.lease = v]
  BY <1>1, <1>2, <1>3, <1>6 DEF Uninstall, Handler
<1>8. TablesOK(e) /\ Moves(d1, e) /\ Same(d1, e, Tables \ {"lease"})
  BY <1>5, <1>7, LeaseKeeps
<1>9. e.cand = d1.cand /\ Same(d1, e, {"run", "cand"})
  BY <1>8 DEF Same, Tables
<1>10. \A c \in Cands : ~Live(e.cand[c])
  BY <1>1, <1>2, <1>5, <1>9 DEF Retired, LiveCands, Live, CandTerminal
<1>11. Calm(d1, e)
  BY <1>9, CalmSame
<1>12. Moves(d, e)
  BY <1>5, <1>8, MovesOn
<1>13. Calm(d, e)
  BY <1>5, <1>11, CalmOn
<1>14. Handled(d, e)
  BY <1>8, <1>10, <1>12, <1>13 DEF Handled, Lapses
<1>15. UNCHANGED <<hour, fleetVars, engineVars>> /\ UNCHANGED <<scan, replan>>
  BY DEF Uninstall, Handler
<1>16. ReadersOK'
  BY <1>15 DEF EngineIInv, ReadersOK
<1> QED
  BY <1>1, <1>14, <1>15, <1>16, HandlerStep

\* RevalidateRead.
LEMMA RevalidateReadStep ==
    ASSUME EngineIInv, NEW c \in Cands, RevalidateRead(c)
    PROVE  EngineIInv' /\ Stepped(db, db')
<1>1. PICK d, e : d = db /\ e = db' /\ e = d
  BY DEF RevalidateRead
<1>2. Handled(d, e)
  BY <1>1, StepSame DEF EngineIInv
<1>3. UNCHANGED <<hour, fleetVars, engineVars>> /\ scan' = scan
  BY DEF RevalidateRead
<1>4. ReadersOK'
  <2>1. PICK prior \in SUBSET Runs : prior = Queued(db, c)
    BY DEF Queued
  <2>2. replan' = [cand |-> c, prior |-> prior] /\ "revalidate" \in Env
    BY <2>1 DEF RevalidateRead
  <2> QED
    BY <1>3, <2>2 DEF EngineIInv, ReadersOK
<1> QED
  BY <1>1, <1>2, <1>3, <1>4, HandlerStep

\* RevalidateCommit.
LEMMA RevalidateCommitStep ==
    ASSUME EngineIInv, RevalidateCommit
    PROVE  EngineIInv' /\ Stepped(db, db')
<1>1. PICK d, e : d = db /\ e = db'
  OBVIOUS
<1>2. replan \in [cand : Cands, prior : SUBSET Runs] /\ "revalidate" \in Env /\ TablesOK(d)
  BY <1>1 DEF EngineIInv, ReadersOK, RevalidateCommit
<1>3. PICK c \in Cands, prior \in SUBSET Runs : c = replan.cand /\ prior = replan.prior
  BY <1>2
<1>4. Handled(d, e)
  <2>1. CASE d.rerun[c] < MaxRerun /\ Live(d.cand[c])
    <3>1. PICK n \in Nat : n = d.rerun[c] + 1
      BY <1>2 DEF TablesOK, Db
    <3>2. PICK d1 : d1 = CancelRuns(InsertRuns(d, c, n), prior)
      OBVIOUS
    <3>3. e = [d1 EXCEPT !.rerun[c] = @ + 1]
      BY <1>1, <1>3, <2>1, <3>1, <3>2 DEF RevalidateCommit
    <3>4. d1.rerun[c] = d.rerun[c]
      <4>1. PICK i : i = InsertRuns(d, c, n)
        OBVIOUS
      <4>2. d \in Db
        BY <1>2 DEF TablesOK
      <4>3. i \in Db /\ Same(d, i, Tables \ {"run"})
        BY <4>1, <4>2, InsertWrites
      <4>4. Same(i, d1, Tables \ {"run"})
        BY <3>2, <4>1, <4>3, CancelWrites
      <4> QED
        BY <4>3, <4>4 DEF Same, Tables
    <3>5. e = [d1 EXCEPT !.rerun[c] = n]
      BY <3>1, <3>3, <3>4
    <3>6. e = [CancelRuns(InsertRuns(d, c, n), prior) EXCEPT !.rerun[c] = n]
      BY <3>2, <3>5
    <3>7. d.cand[c] # "absent" /\ d.rerun[c] < MaxRerun
      BY <2>1 DEF Live
    <3>8. TablesOK(e) /\ Moves(d, e) /\ Calm(d, e) /\ Same(d, e, {"lease", "cand"})
      BY <1>2, <3>1, <3>6, <3>7, ReplanKeeps
    <3>9. Same(d, e, {"lease"})
      BY <3>8 DEF Same
    <3> QED
      BY <3>8, <3>9, LeaseAlone
  <2>2. CASE ~(d.rerun[c] < MaxRerun /\ Live(d.cand[c]))
    <3>1. e = d
      BY <1>1, <1>3, <2>2 DEF RevalidateCommit
    <3> QED
      BY <1>2, <3>1, StepSame
  <2> QED
    BY <2>1, <2>2
<1>5. UNCHANGED <<hour, fleetVars, engineVars>> /\ scan' = scan /\ replan' = Nothing
  BY DEF RevalidateCommit
<1>6. ReadersOK'
  BY <1>5 DEF EngineIInv, ReadersOK
<1> QED
  BY <1>1, <1>4, <1>5, <1>6, HandlerStep

\* ReconcileScan.
LEMMA ScanStep ==
    ASSUME EngineIInv, ReconcileScan
    PROVE  EngineIInv' /\ Stepped(db, db')
<1>1. PICK d, e : d = db /\ e = db' /\ e = d
  BY DEF ReconcileScan
<1>2. Handled(d, e)
  BY <1>1, StepSame DEF EngineIInv
<1>3. UNCHANGED <<hour, fleetVars, engineVars>> /\ replan' = replan /\ scan' \subseteq Runs
  BY DEF ReconcileScan
<1>4. ReadersOK'
  BY <1>3 DEF EngineIInv, ReadersOK
<1> QED
  BY <1>1, <1>2, <1>3, <1>4, HandlerStep

\* ReconcileCancel.
LEMMA ReconcileCancelStep ==
    ASSUME EngineIInv, NEW r \in Runs, ReconcileCancel(r)
    PROVE  EngineIInv' /\ Stepped(db, db')
<1>1. PICK d, e : d = db /\ e = db'
  OBVIOUS
<1>2. PICK cpu \in Nat : cpu = ActualCPUMinutes(r, 0)
  BY EngineConstants DEF ActualCPUMinutes
<1>3. TablesOK(d)
  BY <1>1 DEF EngineIInv
<1>4. Handled(d, e)
  <2>1. CASE d.run[r].state \in {"queued", "dispatched"}
    <3>1. e = Release(CancelRuns(d, {r}), {r}, cpu)
      BY <1>1, <1>2, <2>1 DEF ReconcileCancel
    <3>2. TablesOK(e) /\ Moves(d, e) /\ Calm(d, e) /\ Same(d, e, {"lease"})
      BY <1>3, <2>1, <3>1, GiveUpKeeps
    <3> QED
      BY <3>2, LeaseAlone
  <2>2. CASE d.run[r].state \notin {"queued", "dispatched"}
    <3>1. e = d
      BY <1>1, <2>2 DEF ReconcileCancel
    <3> QED
      BY <1>3, <3>1, StepSame
  <2> QED
    BY <2>1, <2>2
<1>5. UNCHANGED <<hour, fleetVars, engineVars>> /\ replan' = replan /\ scan' \subseteq scan
  BY DEF ReconcileCancel
<1>6. ReadersOK'
  BY <1>5 DEF EngineIInv, ReadersOK
<1> QED
  BY <1>1, <1>4, <1>5, <1>6, HandlerStep

\* LeaseExpires.
LEMMA LeaseExpiresStep ==
    ASSUME EngineIInv, LeaseExpires
    PROVE  EngineIInv' /\ Stepped(db, db')
<1>1. PICK d, e : d = db /\ e = db'
  OBVIOUS
<1>2. PICK v \in LeaseStates : v = "expired"
  BY DEF LeaseStates
<1>3. e = [d EXCEPT !.lease = v] /\ TablesOK(d)
  BY <1>1, <1>2 DEF LeaseExpires, EngineIInv
<1>4. TablesOK(e) /\ Moves(d, e) /\ Same(d, e, Tables \ {"lease"}) /\ e.lease = v
  BY <1>3, LeaseKeeps
<1>5. Same(d, e, {"run", "cand"})
  BY <1>4 DEF Same, Tables
<1>6. Calm(d, e)
  BY <1>5, CalmSame
<1>7. Handled(d, e)
  BY <1>2, <1>4, <1>6 DEF Handled, Lapses
<1>8. UNCHANGED <<hour, fleetVars, engineVars>> /\ UNCHANGED <<scan, replan>>
  BY DEF LeaseExpires
<1>9. ReadersOK'
  BY <1>8 DEF EngineIInv, ReadersOK
<1> QED
  BY <1>1, <1>7, <1>8, <1>9, HandlerStep

\* RunAges.
LEMMA AgeStep ==
    ASSUME EngineIInv, NEW r \in Runs, RunAges(r)
    PROVE  EngineIInv' /\ Stepped(db, db')
<1>1. PICK d, e : d = db /\ e = db'
  OBVIOUS
<1>2. e = [d EXCEPT !.run[r].late = TRUE] /\ TablesOK(d)
  BY <1>1 DEF RunAges, Handler, EngineIInv
<1>3. TablesOK(e) /\ Moves(d, e) /\ Calm(d, e) /\ Same(d, e, {"lease"})
  BY <1>2, AgeKeeps
<1>4. Handled(d, e)
  BY <1>3, LeaseAlone
<1>5. UNCHANGED <<hour, fleetVars, engineVars>> /\ UNCHANGED <<scan, replan>>
  BY DEF RunAges, Handler
<1>6. ReadersOK'
  BY <1>5 DEF EngineIInv, ReadersOK
<1> QED
  BY <1>1, <1>4, <1>5, <1>6, HandlerStep

----------------------------------------------------------------------------
(***************************************************************************)
(* The fleet, time and crashes                                             *)
(***************************************************************************)

\* A step that touches neither the tables nor the scheduler.
LEMMA OutsideKeeps ==
    ASSUME EngineIInv, db' = db, UNCHANGED engineVars, UNCHANGED <<scan, replan>>, hour' \in 0..MaxHour,
           FleetOK', \A r \in Runs : Passed(r) => Passed(r)'
    PROVE  EngineIInv' /\ Stepped(db, db')
<1>1. PICK d, e : d = db /\ e = db' /\ e = d
  OBVIOUS
<1>2. TablesOK(e) /\ Moves(d, e) /\ Calm(d, e) /\ Stepped(d, e)
  BY <1>1, StepSame DEF EngineIInv
<1>3. TablesOK(db)'
  BY <1>1, <1>2, TablesFrame
<1>4. SchedulerOK' /\ HandOK'
  BY <1>1, <1>2, SchedulerFrame DEF EngineIInv
<1>5. ReadersOK'
  BY DEF EngineIInv, ReadersOK
<1> QED
  BY <1>1, <1>2, <1>3, <1>4, <1>5 DEF EngineIInv

\* A cell of the fleet.
LEMMA CellSet ==
    ASSUME FleetOK, NEW r \in Runs, NEW d \in Job!Cell, cell' = [cell EXCEPT ![r] = d],
           d.result # "none" => d.phase = "closed", cell[r].result = "none",
           jobAttempt' \in [Runs -> Nat], feed' \in Seq(Runs)
    PROVE  FleetOK' /\ \A q \in Runs : Passed(q) => Passed(q)'
<1>1. cell' \in [Runs -> Job!Cell] /\ cell'[r] = d /\ \A q \in Runs \ {r} : cell'[q] = cell[q]
  BY DEF FleetOK
<1>2. FleetOK'
  BY <1>1 DEF FleetOK
<1>3. \A q \in Runs : Passed(q) => Passed(q)'
  BY <1>1 DEF Passed
<1> QED
  BY <1>2, <1>3

\* FleetMoves.
LEMMA FleetMovesStep ==
    ASSUME EngineIInv, NEW r \in Runs, FleetMoves(r)
    PROVE  EngineIInv' /\ Stepped(db, db')
<1>1. FleetOK /\ cell[r] \in Job!Cell
  BY DEF EngineIInv, FleetOK
<1>2. PICK d :
         /\ \E p \in {"granted", "open", "closed"} : d = Job!At(p, cell[r].epoch + 1, "none")
         /\ Job!Grant(cell[r], d) \/ Job!Revoke(cell[r], d) \/ Job!Kill(cell[r], d)
         /\ cell' = [cell EXCEPT ![r] = d]
  BY DEF FleetMoves
<1>3. PICK n \in Nat : n = cell[r].epoch
  BY <1>1 DEF Job!Cell
<1>4. d \in Job!Cell /\ d.result = "none"
  BY <1>2, <1>3 DEF Job!At, Job!Cell
<1>5. cell[r].phase \in {"open", "granted"}
  BY <1>2 DEF Job!Grant, Job!Revoke, Job!Kill
<1>6. cell[r].result = "none"
  BY <1>1, <1>5 DEF FleetOK
<1>7. jobAttempt' \in [Runs -> Nat] /\ feed' \in Seq(Runs)
  BY <1>1 DEF FleetMoves, FleetOK
<1>8. FleetOK' /\ \A q \in Runs : Passed(q) => Passed(q)'
  BY <1>1, <1>2, <1>4, <1>6, <1>7, CellSet
<1>9. db' = db /\ UNCHANGED engineVars /\ UNCHANGED <<scan, replan>> /\ hour' \in 0..MaxHour
  BY DEF FleetMoves, EngineIInv
<1> QED
  BY <1>8, <1>9, OutsideKeeps

\* FleetAccepts.
LEMMA FleetAcceptsStep ==
    ASSUME EngineIInv, NEW r \in Runs, NEW x \in Results, FleetAccepts(r, x)
    PROVE  EngineIInv' /\ Stepped(db, db')
<1>1. FleetOK /\ cell[r] \in Job!Cell
  BY DEF EngineIInv, FleetOK
<1>2. PICK n \in Nat : n = cell[r].epoch
  BY <1>1 DEF Job!Cell
<1>3. PICK d : d = Job!At("closed", n, x)
  OBVIOUS
<1>4. d \in Job!Cell /\ d.phase = "closed"
  BY <1>3 DEF Job!At, Job!Cell
<1>5. cell' = [cell EXCEPT ![r] = d] /\ cell[r].phase = "granted"
  BY <1>2, <1>3 DEF FleetAccepts, Job!Accept
<1>6. cell[r].result = "none"
  BY <1>1, <1>5 DEF FleetOK
<1>7. jobAttempt' \in [Runs -> Nat] /\ feed' \in Seq(Runs)
  BY <1>1 DEF FleetAccepts, FleetOK
<1>8. FleetOK' /\ \A q \in Runs : Passed(q) => Passed(q)'
  BY <1>1, <1>4, <1>5, <1>6, <1>7, CellSet
<1>9. db' = db /\ UNCHANGED engineVars /\ UNCHANGED <<scan, replan>> /\ hour' \in 0..MaxHour
  BY DEF FleetAccepts, EngineIInv
<1> QED
  BY <1>8, <1>9, OutsideKeeps

\* HourTurns.
LEMMA HourStep ==
    ASSUME EngineIInv, HourTurns
    PROVE  EngineIInv' /\ Stepped(db, db')
<1>1. FleetOK' /\ \A r \in Runs : Passed(r) => Passed(r)'
  BY FleetFrame DEF EngineIInv, HourTurns
<1>2. hour' \in 0..MaxHour
  BY EngineConstants DEF EngineIInv, HourTurns
<1>3. db' = db /\ UNCHANGED engineVars /\ UNCHANGED <<scan, replan>>
  BY DEF HourTurns
<1> QED
  BY <1>1, <1>2, <1>3, OutsideKeeps

\* The scheduler moves and the tables stay.
LEMMA SchedulerMoves ==
    ASSUME EngineIInv, db' = db, hour' = hour, FleetOK', \A r \in Runs : Passed(r) => Passed(r)',
           SchedulerOK', HandOK', ReadersOK'
    PROVE  EngineIInv' /\ Stepped(db, db')
<1>1. PICK d, e : d = db /\ e = db' /\ e = d
  OBVIOUS
<1>2. TablesOK(e) /\ Stepped(d, e)
  BY <1>1, StepSame DEF EngineIInv
<1>3. TablesOK(db)'
  BY <1>1, <1>2, TablesFrame
<1> QED
  BY <1>1, <1>2, <1>3 DEF EngineIInv

\* The caps as numbers.
LEMMA WIPNumbers ==
    ASSUME SchedulerOK, NEW r \in Runs
    PROVE  \E m \in Nat, k \in Nat, w \in Nat :
              /\ m = Cardinality(InFlight(db, Tier[r])) /\ k = Cardinality(Waiting(todo, Tier[r]))
              /\ w = WIPCap[Tier[r]]
              /\ m + k + (IF pc = "committing" /\ Tier[hand.run] = Tier[r] THEN 1 ELSE 0) <= w
<1>1. PICK t : t = Tier[r]
  OBVIOUS
<1>2. IsFiniteSet(todo)
  BY DEF SchedulerOK
<1>3. PICK m \in Nat, k \in Nat, w \in Nat :
         m = Cardinality(InFlight(db, t)) /\ k = Cardinality(Waiting(todo, t)) /\ w = WIPCap[t]
  BY <1>1, <1>2, InFlightFinite, WaitingFinite, EngineConstants
<1>4. Reserved(t) = k + (IF pc = "committing" /\ Tier[hand.run] = t THEN 1 ELSE 0)
  BY <1>2, <1>3, ReservedNat
<1>5. m + Reserved(t) <= w
  BY <1>1, <1>3 DEF SchedulerOK
<1> QED
  BY <1>1, <1>3, <1>4, <1>5

\* Crash.
LEMMA CrashStep ==
    ASSUME EngineIInv, Crash
    PROVE  EngineIInv' /\ Stepped(db, db')
<1>1. /\ pc' = Idle /\ todo' = {} /\ inbox' = <<>> /\ hand' = Nothing /\ scan' = {} /\ replan' = Nothing
      /\ db' = db /\ hour' = hour /\ UNCHANGED fleetVars
  BY DEF Crash
<1>2. FleetOK' /\ \A r \in Runs : Passed(r) => Passed(r)'
  BY <1>1, FleetFrame DEF EngineIInv
<1>3. SchedulerOK'
  <2>1. ASSUME NEW r \in Runs
        PROVE  (Cardinality(InFlight(db, Tier[r])) + Reserved(Tier[r]) <= WIPCap[Tier[r]])'
    <3>1. Reserved(Tier[r])' = 0
      <4>1. {a \in todo' : Tier[a.run] = Tier[r]} = {}
        BY <1>1
      <4> QED
        BY <1>1, <4>1, FS_EmptySet DEF Reserved, Idle
    <3>2. PICK m \in Nat, k \in Nat, w \in Nat :
             /\ m = Cardinality(InFlight(db, Tier[r])) /\ w = WIPCap[Tier[r]]
             /\ m + k + (IF pc = "committing" /\ Tier[hand.run] = Tier[r] THEN 1 ELSE 0) <= w
      BY WIPNumbers DEF EngineIInv
    <3>3. m + 0 <= w
      BY <3>2
    <3>4. (Cardinality(InFlight(db, Tier[r])))' = m
      BY <1>1, <3>2 DEF InFlight
    <3> QED
      BY <3>1, <3>2, <3>3, <3>4
  <2>2. IsFiniteSet(todo')
    BY <1>1, FS_EmptySet
  <2> QED
    BY <1>1, <2>1, <2>2 DEF SchedulerOK, Idle
<1>4. HandOK' /\ ReadersOK'
  BY <1>1 DEF HandOK, ReadersOK, Idle
<1> QED
  BY <1>1, <1>2, <1>3, <1>4, SchedulerMoves

----------------------------------------------------------------------------
(***************************************************************************)
(* The scheduler: dispatch                                                 *)
(***************************************************************************)

\* An admission leaves the batch.
LEMMA WaitingLess ==
    ASSUME NEW T, IsFiniteSet(T), NEW a \in T, NEW t
    PROVE  \E k \in Nat, j \in Nat :
              /\ k = Cardinality(Waiting(T, t)) /\ j = Cardinality(Waiting(T \ {a}, t))
              /\ j + (IF Tier[a.run] = t THEN 1 ELSE 0) <= k
<1>1. PICK S : S = Waiting(T, t)
  OBVIOUS
<1>2. IsFiniteSet(S) /\ Cardinality(S) \in Nat
  BY <1>1, WaitingFinite
<1>3. CASE Tier[a.run] = t
  <2>1. a \in S /\ Waiting(T \ {a}, t) = S \ {a}
    BY <1>1, <1>3 DEF Waiting
  <2>2. Cardinality(S \ {a}) = Cardinality(S) - 1 /\ IsFiniteSet(S \ {a})
    BY <1>2, <2>1, FS_RemoveElement
  <2>3. PICK k \in Nat, j \in Nat : k = Cardinality(S) /\ j = Cardinality(S \ {a})
    BY <1>2, <2>2, FS_CardinalityType
  <2>4. j + 1 <= k
    BY <2>2, <2>3
  <2> QED
    BY <1>1, <1>3, <2>1, <2>3, <2>4
<1>4. CASE Tier[a.run] # t
  <2>1. Waiting(T \ {a}, t) = S
    BY <1>1, <1>4 DEF Waiting
  <2> QED
    BY <1>1, <1>2, <1>4, <2>1
<1> QED
  BY <1>3, <1>4

\* The batch goes on without one run.
LEMMA BatchShrinks ==
    ASSUME SchedulerOK, pc = "dispatching", NEW a \in todo, todo' = todo \ {a}, pc' = pc, UNCHANGED <<db, inbox>>
    PROVE  SchedulerOK'
<1>1. IsFiniteSet(todo) /\ IsFiniteSet(todo')
  BY FS_Subset DEF SchedulerOK
<1>2. ASSUME NEW r \in Runs
      PROVE  (Cardinality(InFlight(db, Tier[r])) + Reserved(Tier[r]) <= WIPCap[Tier[r]])'
  <2>1. PICK t : t = Tier[r]
    OBVIOUS
  <2>2. PICK m \in Nat, k \in Nat, w \in Nat :
           /\ m = Cardinality(InFlight(db, t)) /\ k = Cardinality(Waiting(todo, t)) /\ w = WIPCap[t]
           /\ m + k <= w
    BY <2>1, WIPNumbers
  <2>3. PICK j \in Nat : j = Cardinality(Waiting(todo \ {a}, t)) /\ j <= k
    BY <1>1, <2>2, WaitingLess
  <2>4. Reserved(t)' = j
    BY <2>3 DEF Reserved, Waiting
  <2>5. Cardinality(InFlight(db, t))' = m
    BY <2>2 DEF InFlight
  <2>6. m + j <= w
    BY <2>2, <2>3
  <2> QED
    BY <2>1, <2>2, <2>4, <2>5, <2>6
<1> QED
  BY <1>1, <1>2 DEF SchedulerOK, Dispatchable

\* DispatchSkip.
LEMMA SkipStep ==
    ASSUME EngineIInv, NEW a \in todo, DispatchSkip(a)
    PROVE  EngineIInv' /\ Stepped(db, db')
<1>1. /\ pc = "dispatching" /\ pc' = pc /\ todo' = todo \ {a} /\ UNCHANGED <<db, inbox>>
      /\ db' = db /\ hour' = hour /\ UNCHANGED fleetVars /\ UNCHANGED <<scan, replan>>
  BY DEF DispatchSkip
<1>2. FleetOK' /\ \A r \in Runs : Passed(r) => Passed(r)'
  BY <1>1, FleetFrame DEF EngineIInv
<1>3. SchedulerOK'
  BY <1>1, BatchShrinks DEF EngineIInv
<1>4. HandOK' /\ ReadersOK'
  BY <1>1 DEF EngineIInv, HandOK, ReadersOK
<1> QED
  BY <1>1, <1>2, <1>3, <1>4, SchedulerMoves

\* The fleet registers a job.
LEMMA EnqueuedKeeps ==
    ASSUME TablesOK(db), FleetOK, NEW r \in Runs, Enqueued(r) \/ UNCHANGED <<cell, jobAttempt>>, feed' = feed
    PROVE  FleetOK' /\ \A q \in Runs : Passed(q) => Passed(q)'
<1>1. CASE UNCHANGED <<cell, jobAttempt>>
  BY <1>1 DEF FleetOK, Passed
<1>2. CASE cell[r].phase = "none" /\ Enqueued(r)
  <2>1. PICK d : d = Job!At("open", 0, "none")
    OBVIOUS
  <2>2. d \in Job!Cell /\ d.result = "none"
    BY <2>1 DEF Job!At, Job!Cell
  <2>3. cell' = [cell EXCEPT ![r] = d] /\ jobAttempt' = [jobAttempt EXCEPT ![r] = db.run[r].attempt]
    BY <1>2, <2>1 DEF Enqueued
  <2>4. db.run[r].attempt \in Nat
    BY DEF TablesOK, Db, Row
  <2>5. jobAttempt' \in [Runs -> Nat] /\ feed' \in Seq(Runs)
    BY <2>3, <2>4 DEF FleetOK
  <2>6. cell[r].result = "none"
    BY <1>2 DEF FleetOK
  <2> QED
    BY <2>2, <2>3, <2>5, <2>6, CellSet
<1> QED
  BY <1>1, <1>2 DEF Enqueued

\* EnqueueFails.
LEMMA EnqueueFailsStep ==
    ASSUME EngineIInv, NEW a \in todo, EnqueueFails(a)
    PROVE  EngineIInv' /\ Stepped(db, db')
<1>1. /\ pc = "dispatching" /\ pc' = pc /\ todo' = todo \ {a} /\ UNCHANGED <<db, inbox>> /\ hand' = hand
      /\ db' = db /\ hour' = hour /\ feed' = feed /\ UNCHANGED <<scan, replan>>
      /\ Enqueued(a.run) \/ UNCHANGED <<cell, jobAttempt>>
  BY DEF EnqueueFails
<1>2. PICK r \in Runs : r = a.run
  BY DEF EngineIInv, SchedulerOK, Admission
<1>3. Enqueued(r) \/ UNCHANGED <<cell, jobAttempt>>
  BY <1>1, <1>2
<1>4. FleetOK' /\ \A q \in Runs : Passed(q) => Passed(q)'
  BY <1>1, <1>3, EnqueuedKeeps DEF EngineIInv
<1>5. SchedulerOK'
  BY <1>1, BatchShrinks DEF EngineIInv
<1>6. HandOK' /\ ReadersOK'
  BY <1>1 DEF EngineIInv, HandOK, ReadersOK
<1> QED
  BY <1>1, <1>4, <1>5, <1>6, SchedulerMoves

\* DispatchEnqueue, and EnqueueRefused: the admission passes from the batch to
\* the hand.
LEMMA EnqueueStep ==
    ASSUME EngineIInv, NEW a \in todo, DispatchEnqueue(a) \/ EnqueueRefused(a)
    PROVE  EngineIInv' /\ Stepped(db, db')
<1>1. /\ pc = "dispatching" /\ pc' = "committing" /\ todo' = todo \ {a} /\ hand' = a /\ inbox' = inbox
      /\ db' = db /\ hour' = hour /\ feed' = feed /\ UNCHANGED <<scan, replan>>
      /\ Enqueued(a.run) \/ UNCHANGED <<cell, jobAttempt>>
  BY DEF DispatchEnqueue, EnqueueRefused, fleetVars
<1>2. PICK r \in Runs : r = a.run
  BY DEF EngineIInv, SchedulerOK, Admission
<1>3. Enqueued(r) \/ UNCHANGED <<cell, jobAttempt>>
  BY <1>1, <1>2
<1>4. FleetOK' /\ \A q \in Runs : Passed(q) => Passed(q)'
  BY <1>1, <1>3, EnqueuedKeeps DEF EngineIInv
<1>5. SchedulerOK'
  <2>1. IsFiniteSet(todo) /\ IsFiniteSet(todo')
    BY <1>1, FS_Subset DEF EngineIInv, SchedulerOK
  <2>2. ASSUME NEW q \in Runs
        PROVE  (Cardinality(InFlight(db, Tier[q])) + Reserved(Tier[q]) <= WIPCap[Tier[q]])'
    <3>1. PICK t : t = Tier[q]
      OBVIOUS
    <3>2. PICK m \in Nat, k \in Nat, w \in Nat :
             /\ m = Cardinality(InFlight(db, t)) /\ k = Cardinality(Waiting(todo, t)) /\ w = WIPCap[t]
             /\ m + k <= w
      BY <1>1, <3>1, WIPNumbers DEF EngineIInv
    <3>3. PICK j \in Nat : /\ j = Cardinality(Waiting(todo \ {a}, t))
                           /\ j + (IF Tier[a.run] = t THEN 1 ELSE 0) <= k
      BY <2>1, <3>2, WaitingLess
    <3>4. PICK i \in Nat : i = IF Tier[a.run] = t THEN 1 ELSE 0
      OBVIOUS
    <3>5. Reserved(t)' = j + i
      BY <1>1, <3>3, <3>4 DEF Reserved, Waiting
    <3>6. Cardinality(InFlight(db, t))' = m
      BY <1>1, <3>2 DEF InFlight
    <3>7. m + (j + i) <= w
      BY <3>2, <3>3, <3>4
    <3> QED
      BY <3>1, <3>2, <3>5, <3>6, <3>7
  <2> QED
    BY <1>1, <2>1, <2>2 DEF EngineIInv, SchedulerOK, Dispatchable
<1>6. HandOK' /\ ReadersOK'
  BY <1>1 DEF EngineIInv, HandOK, ReadersOK
<1> QED
  BY <1>1, <1>4, <1>5, <1>6, SchedulerMoves

\* Fields of a row, two by two.
LEMMA StateFence ==
    ASSUME NEW d \in Db, NEW r \in Runs, NEW e, e = [d EXCEPT !.run[r].state = "dispatched", !.run[r].fence = LeaseFence]
    PROVE  /\ e \in Db /\ Same(d, e, Tables \ {"run"})
           /\ RowWritten(d, e, r, [d.run[r] EXCEPT !.state = "dispatched", !.fence = LeaseFence])
<1>1. PICK v : v = [d.run[r] EXCEPT !.state = "dispatched", !.fence = LeaseFence]
  OBVIOUS
<1>2. v \in Row
  BY <1>1, RowFields DEF Row, RunStates, LeaseFence
<1>3. e = [d EXCEPT !.run[r] = v]
  BY <1>1 DEF Db
<1>4. e \in Db /\ Same(d, e, Tables \ {"run"}) /\ RowWritten(d, e, r, v)
  BY <1>2, <1>3, SetRow
<1> QED
  BY <1>1, <1>4

\* Two columns of a row.
LEMMA LateConc ==
    ASSUME NEW d \in Db, NEW r \in Runs, NEW c \in 0..1, NEW e, e = [d EXCEPT !.run[r].late = FALSE, !.run[r].conc = c]
    PROVE  /\ e \in Db /\ Same(d, e, Tables \ {"run"})
           /\ RowWritten(d, e, r, [d.run[r] EXCEPT !.late = FALSE, !.conc = c])
<1>1. PICK v : v = [d.run[r] EXCEPT !.late = FALSE, !.conc = c]
  OBVIOUS
<1>2. v \in Row
  BY <1>1, RowFields DEF Row
<1>3. e = [d EXCEPT !.run[r] = v]
  BY <1>1 DEF Db
<1>4. e \in Db /\ Same(d, e, Tables \ {"run"}) /\ RowWritten(d, e, r, v)
  BY <1>2, <1>3, SetRow
<1> QED
  BY <1>1, <1>4

\* DispatchRunTx.
Dispatched(d, e, r, c) ==
    /\ e.run[r].state = "dispatched" /\ e.run[r].fence = LeaseFence /\ e.run[r].conc = c
    /\ \A q \in Runs \ {r} : e.run[q] = d.run[q]

\* The four columns the dispatch writes.
LEMMA DispatchRow ==
    ASSUME NEW d \in Db, NEW r \in Runs, NEW c \in 0..1,
           NEW f, f = [d EXCEPT !.run[r].state = "dispatched", !.run[r].fence = LeaseFence],
           NEW e, e = [f EXCEPT !.run[r].late = FALSE, !.run[r].conc = c]
    PROVE  e \in Db /\ Same(d, e, Tables \ {"run"}) /\ Dispatched(d, e, r, c)
<1>1. PICK v : v = [d.run[r] EXCEPT !.state = "dispatched", !.fence = LeaseFence]
  OBVIOUS
<1>2. f \in Db /\ Same(d, f, Tables \ {"run"}) /\ RowWritten(d, f, r, v)
  BY <1>1, StateFence
<1>3. v \in Row /\ v.state = "dispatched" /\ v.fence = LeaseFence
  BY <1>1, RowFields DEF Row, RunStates, LeaseFence
<1>4. PICK w : w = [f.run[r] EXCEPT !.late = FALSE, !.conc = c]
  OBVIOUS
<1>5. e \in Db /\ Same(f, e, Tables \ {"run"}) /\ RowWritten(f, e, r, w)
  BY <1>2, <1>4, LateConc
<1>6. f.run[r] = v
  BY <1>2 DEF RowWritten
<1>7. w.state = "dispatched" /\ w.fence = LeaseFence /\ w.conc = c
  BY <1>3, <1>4, <1>6 DEF Row
<1>8. Dispatched(d, e, r, c)
  BY <1>2, <1>5, <1>7 DEF Dispatched, RowWritten
<1>9. Same(d, e, Tables \ {"run"})
  BY <1>2, <1>5 DEF Same
<1> QED
  BY <1>5, <1>8, <1>9

\* ReserveBudgetsTx.
LEMMA ReserveWrites ==
    ASSUME NEW d \in Db, hour \in 0..MaxHour, NEW r \in Runs, NEW c \in 0..1,
           NEW delta, delta = [k \in Counters |-> IF k = "cpu" THEN Est[r] ELSE c], NEW e, e = Reserve(d, delta)
    PROVE  /\ e \in Db /\ Same(d, e, Tables \ {"used", "window"})
           /\ e.used["conc"] <= d.used["conc"] + c
<1>1. PICK u, w : /\ u = [k \in Counters |-> IF delta[k] = 0 THEN d.used[k]
                                             ELSE IF d.window[k] < hour THEN delta[k] ELSE d.used[k] + delta[k]]
                  /\ w = [k \in Counters |-> IF delta[k] = 0 THEN d.window[k] ELSE hour]
  OBVIOUS
<1>2. delta["cpu"] \in Nat /\ delta["conc"] = c /\ d.used["cpu"] \in Nat /\ d.used["conc"] \in Nat
  BY EngineConstants DEF Counters, Db
<1>3. u \in [Counters -> Nat] /\ u["conc"] <= d.used["conc"] + c
  BY <1>1, <1>2 DEF Counters
<1>4. w \in [Counters -> 0..MaxHour]
  BY <1>1 DEF Counters, Db
<1>5. e = [d EXCEPT !.used = u, !.window = w]
  BY <1>1 DEF Reserve
<1>6. e \in Db /\ e.used = u /\ Same(d, e, Tables \ {"used", "window"})
  BY <1>3, <1>4, <1>5 DEF Db, Same, Tables
<1> QED
  BY <1>3, <1>6

\* Both: a queued run of an open candidate is put in flight.
LEMMA DispatchKeeps ==
    ASSUME NEW d, TablesOK(d), NEW r \in Runs, NEW c \in 0..1, d.run[r].state = "queued", d.cand[CandOf[r]] \in Open,
           NEW d1 \in Db, Same(d, d1, Tables \ {"used", "window"}), d1.used["conc"] <= d.used["conc"] + c,
           NEW e \in Db, Same(d1, e, Tables \ {"run"}), Dispatched(d1, e, r, c)
    PROVE  /\ TablesOK(e) /\ Same(d, e, {"cand", "lease"})
           /\ \A q \in Runs \ {r} : e.run[q] = d.run[q]
           /\ e.run[r].state = "dispatched"
<1>1. /\ e.cand = d.cand /\ e.rerun = d.rerun /\ e.evidence = d.evidence /\ e.decisions = d.decisions
      /\ e.used = d1.used /\ d1.run = d.run /\ Same(d, e, {"cand", "lease"})
  BY DEF Same, Tables
<1>2. \A q \in Runs \ {r} : e.run[q] = d.run[q]
  BY <1>1 DEF Dispatched
<1>3. e.run[r].state = "dispatched" /\ e.run[r].fence = LeaseFence /\ e.run[r].conc = c
  BY DEF Dispatched
<1>4. RowsOK(e)
  BY <1>1, <1>2, <1>3 DEF TablesOK, RowsOK, Open, Started
<1>5. VerdictsOK(e) /\ EvidenceOK(e)
  BY <1>1 DEF TablesOK, VerdictsOK, EvidenceOK
<1>6. r \notin Holding(d)
  BY DEF TablesOK, SlotsOK
<1>7. PICK h \in Nat, k \in Nat, m \in Nat :
         h = Cardinality(Holding(d)) /\ k = Cardinality(Holding(e)) /\ m = d.used["conc"] /\ m <= h
  BY HoldingFinite DEF TablesOK, SlotsOK, Db, Counters
<1>8. k = h + c
  <2>1. CASE c = 1
    <3>1. Holding(e) = Holding(d) \cup {r}
      BY <1>2, <1>3, <2>1 DEF Holding
    <3>2. Cardinality(Holding(d) \cup {r}) = Cardinality(Holding(d)) + 1
      BY <1>6, HoldingFinite, FS_AddElement
    <3> QED
      BY <1>7, <2>1, <3>1, <3>2
  <2>2. CASE c = 0
    <3>1. Holding(e) = Holding(d)
      BY <1>2, <1>3, <1>6, <2>2 DEF Holding
    <3> QED
      BY <1>7, <2>2, <3>1
  <2> QED
    BY <2>1, <2>2
<1>9. e.used["conc"] <= k
  <2>1. PICK n \in Nat : n = e.used["conc"]
    BY DEF Db, Counters
  <2>2. n <= m + c
    BY <1>1, <1>7, <2>1
  <2> QED
    BY <1>7, <1>8, <2>1, <2>2
<1>10. SlotsOK(e)
  <2>1. \A q \in Holding(e) : q = r \/ (q \in Holding(d) /\ e.run[q] = d.run[q])
    BY <1>2 DEF Holding
  <2>2. \A q \in Holding(e) : \/ e.run[q].state = "dispatched"
                              \/ e.run[q].state = "cancelled" /\ "revalidate" \in Env
    BY <1>3, <2>1 DEF TablesOK, SlotsOK
  <2> QED
    BY <1>7, <1>9, <2>2 DEF SlotsOK
<1> QED
  BY <1>1, <1>2, <1>3, <1>4, <1>5, <1>10 DEF TablesOK

\* The rows of the other runs stay.
Elsewhere(d, e, r) == \A q \in Runs \ {r} : e.run[q] = d.run[q]

\* One more run of its tier is in flight.
LEMMA InFlightGrows ==
    ASSUME NEW d, NEW e, NEW r \in Runs, NEW t, Elsewhere(d, e, r)
    PROVE  \E m \in Nat, n \in Nat :
              /\ m = Cardinality(InFlight(d, t)) /\ n = Cardinality(InFlight(e, t))
              /\ n <= m + (IF Tier[r] = t THEN 1 ELSE 0)
<1>1. PICK m \in Nat, n \in Nat : m = Cardinality(InFlight(d, t)) /\ n = Cardinality(InFlight(e, t))
  BY InFlightFinite
<1>2. CASE Tier[r] = t
  <2>1. InFlight(e, t) \subseteq InFlight(d, t) \cup {r}
    BY DEF InFlight, Elsewhere
  <2>2. IsFiniteSet(InFlight(d, t) \cup {r})
    BY InFlightFinite, FS_AddElement
  <2>3. PICK k \in Nat : k = Cardinality(InFlight(d, t) \cup {r})
    BY <2>2, FS_CardinalityType
  <2>4. n <= k
    BY <1>1, <2>1, <2>2, <2>3, FS_Subset
  <2>5. k <= m + 1
    <3>1. PICK S : S = InFlight(d, t)
      OBVIOUS
    <3>2. IsFiniteSet(S) /\ m = Cardinality(S) /\ k = Cardinality(S \cup {r})
      BY <1>1, <2>3, <3>1, InFlightFinite
    <3>3. k = m \/ k = m + 1
      BY <3>2, FS_AddElement
    <3> QED
      BY <3>3
  <2>6. n <= m + 1
    BY <2>4, <2>5
  <2> QED
    BY <1>1, <1>2, <2>6
<1>3. CASE Tier[r] # t
  <2>1. InFlight(e, t) = InFlight(d, t)
    BY <1>3 DEF InFlight, Elsewhere
  <2> QED
    BY <1>1, <1>3, <2>1
<1> QED
  BY <1>2, <1>3

\* DispatchCommit: what is in hand goes in flight, or is dropped.
LEMMA CommitStep ==
    ASSUME EngineIInv, DispatchCommit
    PROVE  EngineIInv' /\ Stepped(db, db')
<1>1. PICK d, e, h : d = db /\ e = db' /\ h = hand
  OBVIOUS
<1>2. TablesOK(d) /\ pc = "committing" /\ h \in Admission /\ Dispatchable(d, h.run) /\ hour \in 0..MaxHour
  BY <1>1 DEF EngineIInv, SchedulerOK, DispatchCommit
<1>3. PICK r \in Runs, c \in 0..1 : r = h.run /\ c = h.conc
  BY <1>2 DEF Admission
<1>4. PICK delta : /\ delta = [k \in Counters |-> IF k = "cpu" THEN Est[hand.run] ELSE hand.conc]
                   /\ delta = [k \in Counters |-> IF k = "cpu" THEN Est[r] ELSE c]
  BY <1>1, <1>3
<1>5. PICK d1 : d1 = Reserve(db, delta) /\ d1 = Reserve(d, delta)
  BY <1>1
<1>6. d \in Db
  BY <1>2 DEF TablesOK
<1>7. d1 \in Db /\ Same(d, d1, Tables \ {"used", "window"}) /\ d1.used["conc"] <= d.used["conc"] + c
  BY <1>2, <1>4, <1>5, <1>6, ReserveWrites
<1>8. /\ ~(d.run[r].state = "queued" /\ ~Exhausted(d1, delta)) => e = d
      /\ d.run[r].state = "queued" /\ ~Exhausted(d1, delta) =>
            e \in Db /\ Same(d1, e, Tables \ {"run"}) /\ Dispatched(d1, e, r, c)
  <2>1. hand.run = r /\ hand.conc = c /\ hand.run \in Runs /\ hand.conc \in 0..1
    BY <1>1, <1>3
  <2>2. CASE ~(db.run[hand.run].state = "queued" /\ ~Exhausted(d1, delta))
    <3>1. db' = db
      BY <1>4, <1>5, <2>2 DEF DispatchCommit
    <3> QED
      BY <1>1, <2>1, <2>2, <3>1
  <2>3. CASE db.run[hand.run].state = "queued" /\ ~Exhausted(d1, delta)
    <3>1. db' = [d1 EXCEPT !.run[hand.run].state = "dispatched", !.run[hand.run].fence = LeaseFence,
                           !.run[hand.run].late = FALSE, !.run[hand.run].conc = hand.conc]
      BY <1>4, <1>5, <2>3 DEF DispatchCommit
    <3>2. PICK f : f = [d1 EXCEPT !.run[hand.run].state = "dispatched", !.run[hand.run].fence = LeaseFence]
      OBVIOUS
    <3>3. db' = [f EXCEPT !.run[hand.run].late = FALSE, !.run[hand.run].conc = hand.conc]
      BY <3>1, <3>2
    <3>4. db' \in Db /\ Same(d1, db', Tables \ {"run"}) /\ Dispatched(d1, db', hand.run, hand.conc)
      BY <1>7, <2>1, <3>2, <3>3, DispatchRow
    <3> QED
      BY <1>1, <2>1, <2>3, <3>4
  <2> QED
    BY <2>2, <2>3
<1>9. /\ TablesOK(e) /\ Same(d, e, {"cand", "lease"}) /\ \A q \in Runs \ {r} : e.run[q] = d.run[q]
      /\ e.run[r] = d.run[r] \/ (e.run[r].state = "dispatched" /\ d.cand[CandOf[r]] \in Open)
  <2>1. CASE d.run[r].state = "queued" /\ ~Exhausted(d1, delta)
    <3>1. d.cand[CandOf[r]] \in Open /\ d.run[r].state = "queued"
      BY <1>2, <1>3, <2>1 DEF Dispatchable
    <3>4. e \in Db /\ Same(d1, e, Tables \ {"run"}) /\ Dispatched(d1, e, r, c)
      BY <1>8, <2>1
    <3>5. /\ TablesOK(e) /\ Same(d, e, {"cand", "lease"})
          /\ \A q \in Runs \ {r} : e.run[q] = d.run[q]
          /\ e.run[r].state = "dispatched"
      BY <1>2, <1>7, <3>1, <3>4, DispatchKeeps, ZenonT(30)
    <3> QED
      BY <3>1, <3>5
  <2>2. CASE ~(d.run[r].state = "queued" /\ ~Exhausted(d1, delta))
    <3>1. e = d
      BY <1>8, <2>2
    <3> QED
      BY <1>2, <3>1 DEF Same
  <2> QED
    BY <2>1, <2>2
<1>10. e.cand = d.cand /\ e.lease = d.lease
  BY <1>9 DEF Same
<1>11. Stepped(d, e)
  BY <1>9, <1>10 DEF Stepped, Lapses, Live, CandTerminal, Open
<1>12. /\ pc' = "dispatching" /\ todo' = todo /\ inbox' = inbox /\ hour' = hour
       /\ UNCHANGED fleetVars /\ UNCHANGED <<scan, replan>>
  BY DEF DispatchCommit
<1>13. FleetOK' /\ \A q \in Runs : Passed(q) => Passed(q)'
  BY <1>12, FleetFrame DEF EngineIInv
<1>14. TablesOK(db)'
  BY <1>1, <1>9, <1>13, TablesFrame
<1>15. SchedulerOK'
  <2>1. ASSUME NEW q \in Runs
        PROVE  (Cardinality(InFlight(db, Tier[q])) + Reserved(Tier[q]) <= WIPCap[Tier[q]])'
    <3>1. PICK t : t = Tier[q]
      OBVIOUS
    <3>2. PICK m \in Nat, k \in Nat, w \in Nat, i \in Nat :
             /\ m = Cardinality(InFlight(d, t)) /\ k = Cardinality(Waiting(todo, t)) /\ w = WIPCap[t]
             /\ i = IF Tier[r] = t THEN 1 ELSE 0
             /\ m + k + i <= w
      BY <1>1, <1>2, <1>3, <3>1, WIPNumbers DEF EngineIInv
    <3>3. PICK n \in Nat : n = Cardinality(InFlight(e, t)) /\ n <= m + i
      <4>1. Elsewhere(d, e, r)
        BY <1>9 DEF Elsewhere
      <4>2. PICK m1 \in Nat, n \in Nat :
               /\ m1 = Cardinality(InFlight(d, t)) /\ n = Cardinality(InFlight(e, t))
               /\ n <= m1 + (IF Tier[r] = t THEN 1 ELSE 0)
        BY <4>1, InFlightGrows
      <4> QED
        BY <3>2, <4>2
    <3>4. Reserved(t)' = k
      BY <1>12, <3>2 DEF Reserved, Waiting
    <3>5. Cardinality(InFlight(db, t))' = n
      BY <1>1, <3>3 DEF InFlight
    <3>6. n + k <= w
      BY <3>2, <3>3
    <3> QED
      BY <3>1, <3>2, <3>4, <3>5, <3>6
  <2>2. ASSUME NEW a \in todo PROVE Dispatchable(e, a.run)
    <3>1. Dispatchable(d, a.run) /\ a.run \in Runs
      BY <1>1 DEF EngineIInv, SchedulerOK, Admission
    <3> QED
      BY <1>9, <1>10, <3>1 DEF Dispatchable
  <2>3. \A a \in todo' : Dispatchable(db, a.run)'
    BY <1>1, <1>12, <2>2 DEF Dispatchable
  <2> QED
    BY <1>12, <2>1, <2>3 DEF EngineIInv, SchedulerOK
<1>16. HandOK' /\ ReadersOK'
  BY <1>12 DEF EngineIInv, HandOK, ReadersOK
<1> QED
  BY <1>1, <1>11, <1>12, <1>13, <1>14, <1>15, <1>16 DEF EngineIInv

----------------------------------------------------------------------------
(***************************************************************************)
(* The scheduler: ingestion                                                *)
(***************************************************************************)

\* No run is admitted or in hand.
LEMMA NothingReserved ==
    ASSUME SchedulerOK, todo' = {}, pc' # "committing", NEW e, e = db', NEW d, d = db, Moves(d, e), NEW r \in Runs
    PROVE  (Cardinality(InFlight(db, Tier[r])) + Reserved(Tier[r]) <= WIPCap[Tier[r]])'
<1>1. PICK t : t = Tier[r]
  OBVIOUS
<1>2. PICK m \in Nat, k \in Nat, w \in Nat, i \in Nat :
         m = Cardinality(InFlight(d, t)) /\ w = WIPCap[t] /\ m + k + i <= w
  BY <1>1, WIPNumbers
<1>3. PICK n \in Nat : n = Cardinality(InFlight(e, t)) /\ n <= m
  BY <1>2, InFlightFinite, InFlightShrinks
<1>4. Reserved(t)' = 0
  <2>1. {a \in todo' : Tier[a.run] = t} = {}
    OBVIOUS
  <2> QED
    BY <2>1, FS_EmptySet DEF Reserved
<1>5. Cardinality(InFlight(db, t))' = n
  BY <1>3 DEF InFlight
<1>6. n + 0 <= w
  BY <1>2, <1>3
<1> QED
  BY <1>1, <1>2, <1>4, <1>5, <1>6

\* The scheduler is idle or ingests.
LEMMA IngestingOK ==
    ASSUME SchedulerOK, NEW e, e = db', NEW d, d = db, Moves(d, e), todo' = {}, inbox' \in Seq(Runs),
           pc' \in {Idle, "ingesting", "applying"}, pc' # Idle => inbox' # <<>>
    PROVE  SchedulerOK'
<1>1. pc' # "committing" /\ pc' # "dispatching"
  BY DEF Idle
<1>2. \A r \in Runs : (Cardinality(InFlight(db, Tier[r])) + Reserved(Tier[r]) <= WIPCap[Tier[r]])'
  BY <1>1, NothingReserved
<1>3. IsFiniteSet(todo')
  BY FS_EmptySet
<1> QED
  BY <1>1, <1>2, <1>3 DEF SchedulerOK, Idle

\* IngestLoad.
LEMMA LoadStep ==
    ASSUME EngineIInv, IngestLoad
    PROVE  EngineIInv' /\ Stepped(db, db')
<1>1. PICK d, e : d = db /\ e = db' /\ e = d
  BY DEF IngestLoad
<1>2. /\ pc = "ingesting" /\ pc' = "applying" /\ todo' = todo /\ inbox' = inbox /\ hour' = hour
      /\ UNCHANGED fleetVars /\ UNCHANGED <<scan, replan>>
  BY DEF IngestLoad
<1>3. todo = {} /\ inbox \in Seq(Runs) /\ inbox # <<>> /\ TablesOK(d)
  BY <1>1, <1>2 DEF EngineIInv, SchedulerOK, Idle
<1>4. PICK r \in Runs : r = Head(inbox)
  BY <1>3
<1>5. Moves(d, e)
  BY <1>1, StepSame
<1>6. SchedulerOK'
  BY <1>1, <1>2, <1>3, <1>5, IngestingOK DEF EngineIInv, Idle
<1>7. HandOK'
  <2>1. PICK row \in Row, st \in CandStates : row = d.run[r] /\ st = d.cand[CandOf[r]]
    BY <1>3, EngineConstants DEF TablesOK, Db
  <2>2. PICK h : h = [run |-> r, row |-> row, cand |-> st]
    OBVIOUS
  <2>3. h \in Loaded /\ h.run = r /\ h.row = row /\ h.cand = st
    BY <2>2 DEF Loaded
  <2>4. hand' = h
    BY <1>1, <1>4, <2>1, <2>2 DEF IngestLoad
  <2>5. /\ h.row.state = "dispatched" => /\ Started(e.cand[CandOf[h.run]]) /\ h.row.fence = LeaseFence
                                         /\ e.run[h.run].state # "absent"
        /\ ~CandTerminal(h.cand) => e.cand[CandOf[h.run]] # "eligible"
    BY <1>1, <1>3, <2>1, <2>3 DEF TablesOK, RowsOK, CandTerminal
  <2> QED
    BY <1>1, <2>3, <2>4, <2>5 DEF HandOK
<1>8. FleetOK' /\ \A q \in Runs : Passed(q) => Passed(q)'
  BY <1>2, FleetFrame DEF EngineIInv
<1>9. ReadersOK'
  BY <1>2 DEF EngineIInv, ReadersOK
<1>10. db' = db
  BY <1>1
<1> QED
  BY <1>2, <1>6, <1>7, <1>8, <1>9, <1>10, SchedulerMoves

\* IngestApply.
LEMMA ApplyStep ==
    ASSUME EngineIInv, IngestApply
    PROVE  EngineIInv' /\ Stepped(db, db')
<1>1. PICK d, e, h : d = db /\ e = db' /\ h = hand
  OBVIOUS
<1>2. PICK m \in Nat : e = IngestDb(h, m)
  BY <1>1, EngineConstants DEF IngestApply
<1>3. /\ pc = "applying" /\ pc' = (IF Tail(inbox) = <<>> THEN Idle ELSE "ingesting") /\ todo' = todo
      /\ inbox' = Tail(inbox) /\ hour' = hour /\ UNCHANGED fleetVars /\ UNCHANGED <<scan, replan>>
  BY DEF IngestApply
<1>4. todo = {} /\ inbox \in Seq(Runs) /\ inbox # <<>> /\ TablesOK(d)
  BY <1>1, <1>3 DEF EngineIInv, SchedulerOK, Idle
<1>5. TablesOK(e) /\ Moves(d, e) /\ Lapses(d, e)
  BY <1>1, <1>2, <1>3, <1>4, IngestKeeps DEF EngineIInv
<1>6. Stepped(d, e)
  BY <1>5 DEF Stepped, Moves
<1>7. inbox' \in Seq(Runs)
  BY <1>3, <1>4
<1>8. pc' \in {Idle, "ingesting", "applying"} /\ (pc' # Idle => inbox' # <<>>) /\ pc' # "applying"
  BY <1>3 DEF Idle
<1>9. SchedulerOK'
  BY <1>1, <1>3, <1>4, <1>5, <1>7, <1>8, IngestingOK DEF EngineIInv
<1>10. HandOK' /\ ReadersOK'
  BY <1>3, <1>8 DEF EngineIInv, HandOK, ReadersOK
<1>11. FleetOK' /\ \A q \in Runs : Passed(q) => Passed(q)'
  BY <1>3, FleetFrame DEF EngineIInv
<1>12. TablesOK(db)'
  BY <1>1, <1>5, <1>11, TablesFrame
<1> QED
  BY <1>1, <1>3, <1>6, <1>9, <1>10, <1>11, <1>12 DEF EngineIInv

\* A page of the feed.
LEMMA PageRuns ==
    ASSUME feed \in Seq(Runs)
    PROVE  \E n \in Nat : Len(FeedPage) = n /\ \A i \in 1..n : FeedPage[i] \in Runs
<1>1. PICK k \in Nat, l \in Nat : k = Len(feed) /\ l = FeedLimit
  BY EngineConstants
<1>2. PICK n \in Nat : n = (IF k < l THEN k ELSE l) /\ n <= k
  BY <1>1
<1>3. FeedPage = [i \in 1..n |-> feed[Len(feed) + 1 - i]]
  BY <1>1, <1>2 DEF FeedPage
<1>4. ASSUME NEW i \in 1..n PROVE FeedPage[i] \in Runs
  <2>1. Len(feed) + 1 - i \in 1..Len(feed)
    BY <1>1, <1>2
  <2>2. feed[Len(feed) + 1 - i] \in Runs
    BY <2>1
  <2> QED
    BY <1>3, <2>2
<1>5. Len(FeedPage) = n
  BY <1>3
<1> QED
  BY <1>4, <1>5

\* FeedRead.
LEMMA FeedStep ==
    ASSUME EngineIInv, FeedRead
    PROVE  EngineIInv' /\ Stepped(db, db')
<1>1. PICK d, e : d = db /\ e = db' /\ e = d
  BY DEF FeedRead
<1>2. /\ pc = "dispatching" /\ todo = {} /\ todo' = {} /\ pc' = (IF inbox' = <<>> THEN Idle ELSE "ingesting")
      /\ hour' = hour /\ UNCHANGED fleetVars /\ UNCHANGED <<scan, replan>>
  BY DEF FeedRead
<1>3. PICK n \in Nat : Len(FeedPage) = n /\ \A i \in 1..n : FeedPage[i] \in Runs
  BY PageRuns DEF EngineIInv, FleetOK
<1>4. PICK new \in SUBSET (1..n) : new = {i \in 1..Len(FeedPage) : Key(FeedPage[i]) \notin db.processed}
  BY <1>3
<1>5. PICK order \in SetToSeqs(new) : inbox' = [k \in DOMAIN order |-> FeedPage[order[k]]]
  BY <1>4 DEF FeedRead
<1>6. inbox' \in Seq(Runs)
  <2>1. IsFiniteSet(1..n)
    BY FS_Interval
  <2>2. IsFiniteSet(new)
    BY <2>1, FS_Subset
  <2>3. PICK c \in Nat : c = Cardinality(new)
    BY <2>2, FS_CardinalityType
  <2>4. order \in [1..c -> new]
    BY <1>5, <2>3 DEF SetToSeqs
  <2>5. \A k \in 1..c : FeedPage[order[k]] \in Runs
    BY <1>3, <2>4
  <2>6. inbox' = [k \in 1..c |-> FeedPage[order[k]]]
    BY <1>5, <2>4
  <2>7. inbox' \in [1..c -> Runs]
    BY <2>5, <2>6
  <2> QED
    BY <2>7
<1>7. Moves(d, e)
  BY <1>1, StepSame
<1>8. pc' \in {Idle, "ingesting", "applying"} /\ (pc' # Idle => inbox' # <<>>) /\ pc' # "applying"
  BY <1>2 DEF Idle
<1>9. SchedulerOK'
  BY <1>1, <1>2, <1>6, <1>7, <1>8, IngestingOK DEF EngineIInv
<1>10. HandOK' /\ ReadersOK'
  BY <1>2, <1>8 DEF EngineIInv, HandOK, ReadersOK
<1>11. FleetOK' /\ \A q \in Runs : Passed(q) => Passed(q)'
  BY <1>2, FleetFrame DEF EngineIInv
<1>12. db' = db
  BY <1>1
<1> QED
  BY <1>2, <1>9, <1>10, <1>11, <1>12, SchedulerMoves

----------------------------------------------------------------------------
(***************************************************************************)
(* The scheduler: admission                                                *)
(***************************************************************************)

\* The admissions of tier t, by their place.
Chosen(s, t) == {i \in 1..Len(s) : Tier[s[i].run] = t}

\* Admissions s of runs of S fit beside what is in flight.
Fits(s, d, S) ==
    /\ s \in Seq(Admission) /\ \A i \in 1..Len(s) : s[i].run \in S
    /\ \A r \in Runs : Cardinality(InFlight(d, Tier[r])) + Cardinality(Chosen(s, Tier[r])) <= WIPCap[Tier[r]]

\* The places are finitely many.
LEMMA ChosenFinite ==
    ASSUME NEW s \in Seq(Admission), NEW t
    PROVE  IsFiniteSet(Chosen(s, t)) /\ Cardinality(Chosen(s, t)) \in Nat
<1>1. PICK n \in Nat : n = Len(s)
  OBVIOUS
<1>2. IsFiniteSet(1..n)
  BY FS_Interval
<1>3. IsFiniteSet(Chosen(s, t))
  BY <1>1, <1>2, FS_Subset DEF Chosen
<1> QED
  BY <1>3, FS_CardinalityType

\* One more admission.
LEMMA ChosenGrows ==
    ASSUME NEW s \in Seq(Admission), NEW a \in Admission, NEW t
    PROVE  \E k \in Nat, j \in Nat :
              /\ k = Cardinality(Chosen(s, t)) /\ j = Cardinality(Chosen(Append(s, a), t))
              /\ j = IF Tier[a.run] = t THEN k + 1 ELSE k
<1>1. PICK n \in Nat : n = Len(s)
  OBVIOUS
<1>2. PICK z : z = Append(s, a)
  OBVIOUS
<1>3. z \in Seq(Admission) /\ Len(z) = n + 1 /\ z[n + 1] = a /\ \A i \in 1..n : z[i] = s[i]
  BY <1>1, <1>2, AppendProperties
<1>4. PICK P, Q : P = Chosen(s, t) /\ Q = Chosen(z, t)
  OBVIOUS
<1>5. n + 1 \notin P /\ Q = IF Tier[a.run] = t THEN P \cup {n + 1} ELSE P
  <2>1. P = {i \in 1..n : Tier[s[i].run] = t} /\ Q = {i \in 1..(n + 1) : Tier[z[i].run] = t}
    BY <1>1, <1>3, <1>4 DEF Chosen
  <2>2. \A i \in 1..n : z[i].run = s[i].run
    BY <1>3
  <2>3. z[n + 1].run = a.run /\ n + 1 \notin 1..n /\ 1..(n + 1) = (1..n) \cup {n + 1}
    BY <1>3
  <2>4. CASE Tier[a.run] = t
    BY <2>1, <2>2, <2>3, <2>4
  <2>5. CASE Tier[a.run] # t
    BY <2>1, <2>2, <2>3, <2>5
  <2> QED
    BY <2>4, <2>5
<1>6. PICK k \in Nat, j \in Nat : IsFiniteSet(P) /\ k = Cardinality(P) /\ j = Cardinality(Q)
  BY <1>3, <1>4, ChosenFinite
<1>7. j = IF Tier[a.run] = t THEN k + 1 ELSE k
  <2>1. CASE Tier[a.run] = t
    <3>1. Cardinality(P \cup {n + 1}) = Cardinality(P) + 1
      BY <1>5, <1>6, FS_AddElement
    <3> QED
      BY <1>5, <1>6, <2>1, <3>1
  <2>2. CASE Tier[a.run] # t
    BY <1>5, <1>6, <2>2
  <2> QED
    BY <2>1, <2>2
<1> QED
  BY <1>2, <1>4, <1>6, <1>7

\* A turn of Admit's loop keeps to the caps.
LEMMA AdmitRunFits ==
    ASSUME NEW d, NEW S \in SUBSET Runs, NEW acc, Fits(acc.adm, d, S), NEW q \in S
    PROVE  Fits(AdmitRun(acc, q, d).adm, d, S)
<1>1. PICK s \in Seq(Admission) : s = acc.adm
  BY DEF Fits
<1>2. PICK u : u = AdmitRun(acc, q, d).adm
  OBVIOUS
<1>3. \/ u = s
      \/ \E c \in 0..1 : /\ u = Append(s, [run |-> q, conc |-> c])
                         /\ Cardinality(InFlight(d, Tier[q])) + Cardinality(Chosen(s, Tier[q])) + 1 <= WIPCap[Tier[q]]
  <2>1. PICK c \in 0..1 : c = IF {i \in 1..Len(acc.adm) : CandOf[acc.adm[i].run] = CandOf[q]} = {} THEN 1 ELSE 0
    OBVIOUS
  <2>2. PICK w : w = [adm |-> Append(acc.adm, [run |-> q, conc |-> c]), cpu |-> acc.cpu + Est[q]]
    OBVIOUS
  <2>3. w.adm = Append(s, [run |-> q, conc |-> c])
    BY <1>1, <2>2
  <2>4. \/ AdmitRun(acc, q, d) = acc
        \/ /\ AdmitRun(acc, q, d) = w
           /\ Cardinality(InFlight(d, Tier[q])) + Cardinality(Chosen(acc.adm, Tier[q])) + 1 <= WIPCap[Tier[q]]
    BY <2>1, <2>2 DEF AdmitRun, Chosen
  <2> QED
    BY <1>1, <1>2, <2>3, <2>4
<1>4. CASE u = s
  BY <1>1, <1>2, <1>4
<1>5. ASSUME NEW c \in 0..1, u = Append(s, [run |-> q, conc |-> c]),
             Cardinality(InFlight(d, Tier[q])) + Cardinality(Chosen(s, Tier[q])) + 1 <= WIPCap[Tier[q]]
      PROVE  Fits(u, d, S)
  <2>0. PICK a : a = [run |-> q, conc |-> c]
    OBVIOUS
  <2>1. a \in Admission /\ a = [run |-> q, conc |-> c] /\ a.run = q
    BY <2>0 DEF Admission
  <2>2. u = Append(s, a) /\ u \in Seq(Admission)
    BY <1>5, <2>1, AppendProperties
  <2>3. \A i \in 1..Len(u) : u[i].run \in S
    <3>1. PICK n \in Nat : n = Len(s)
      OBVIOUS
    <3>2. Len(u) = n + 1 /\ u[n + 1] = a /\ \A i \in 1..n : u[i] = s[i]
      BY <2>2, <3>1, AppendProperties
    <3>3. \A i \in 1..n : s[i].run \in S
      BY <1>1, <3>1 DEF Fits
    <3> QED
      BY <2>1, <3>2, <3>3
  <2>4. ASSUME NEW r \in Runs
        PROVE  Cardinality(InFlight(d, Tier[r])) + Cardinality(Chosen(u, Tier[r])) <= WIPCap[Tier[r]]
    <3>1. PICK t : t = Tier[r]
      OBVIOUS
    <3>2. PICK k \in Nat, j \in Nat :
             /\ k = Cardinality(Chosen(s, t)) /\ j = Cardinality(Chosen(u, t))
             /\ j = IF Tier[q] = t THEN k + 1 ELSE k
      BY <2>1, <2>2, ChosenGrows, SMTT(30)
    <3>3. PICK m \in Nat, w \in Nat : m = Cardinality(InFlight(d, t)) /\ w = WIPCap[t]
      BY <3>1, EngineConstants, InFlightFinite
    <3>4. m + k <= w
      BY <1>1, <3>1, <3>2, <3>3 DEF Fits
    <3>5. Tier[q] = t => m + k + 1 <= w
      BY <1>5, <3>2, <3>3
    <3>6. m + j <= w
      BY <3>2, <3>4, <3>5
    <3> QED
      BY <3>1, <3>2, <3>3, <3>6
  <2> QED
    BY <2>2, <2>3, <2>4 DEF Fits
<1> QED
  BY <1>2, <1>3, <1>4, <1>5

\* Admit's loop has a value after each turn.
LEMMA TurnsExist ==
    ASSUME NEW z, NEW batch, NEW d, NEW N \in Nat
    PROVE  \E g : g = [n \in 0..N |-> IF n = 0 THEN z ELSE AdmitRun(g[n - 1], batch[n], d)]
<1> DEFINE S == {m \in Nat : \E g : g = [n \in 0..m |-> IF n = 0 THEN z ELSE AdmitRun(g[n - 1], batch[n], d)]}
<1>1. 0 \in S
  <2> DEFINE g == [n \in 0..0 |-> z]
  <2>1. g = [n \in 0..0 |-> IF n = 0 THEN z ELSE AdmitRun(g[n - 1], batch[n], d)]
    OBVIOUS
  <2> HIDE DEF g
  <2> QED
    BY <2>1
<1>2. ASSUME NEW m \in S PROVE m + 1 \in S
  <2>1. PICK g : g = [n \in 0..m |-> IF n = 0 THEN z ELSE AdmitRun(g[n - 1], batch[n], d)]
    OBVIOUS
  <2>2. m \in Nat
    OBVIOUS
  <2>3. /\ \A n \in 0..m : n = 0 => g[n] = z
        /\ \A n \in 0..m : n # 0 => g[n] = AdmitRun(g[n - 1], batch[n], d)
    BY <2>1
  <2> DEFINE h == [n \in 0..(m + 1) |-> IF n <= m THEN g[n] ELSE AdmitRun(g[m], batch[m + 1], d)]
  <2>4. ASSUME NEW n \in 0..(m + 1) PROVE h[n] = IF n = 0 THEN z ELSE AdmitRun(h[n - 1], batch[n], d)
    <3>1. CASE n = 0
      BY <2>2, <2>3, <3>1
    <3>2. CASE n # 0 /\ n <= m
      <4>1. n \in 0..m /\ n - 1 \in 0..(m + 1) /\ n - 1 <= m
        BY <2>2, <3>2
      <4>2. h[n] = g[n] /\ h[n - 1] = g[n - 1]
        BY <2>2, <3>2, <4>1
      <4> QED
        BY <2>3, <3>2, <4>1, <4>2
    <3>3. CASE n = m + 1
      <4>1. n - 1 = m /\ n # 0 /\ m \in 0..(m + 1) /\ ~(n <= m)
        BY <2>2, <3>3
      <4>2. h[n] = AdmitRun(g[m], batch[n], d) /\ h[m] = g[m]
        BY <2>2, <3>3, <4>1
      <4> QED
        BY <4>1, <4>2
    <3> QED
      BY <2>2, <3>1, <3>2, <3>3
  <2>5. h = [n \in 0..(m + 1) |-> IF n = 0 THEN z ELSE AdmitRun(h[n - 1], batch[n], d)]
    <3>1. PICK k : k = [n \in 0..(m + 1) |-> IF n = 0 THEN z ELSE AdmitRun(h[n - 1], batch[n], d)]
      OBVIOUS
    <3>2. \A n \in 0..(m + 1) : h[n] = k[n]
      BY <2>4, <3>1
    <3>4. h = [n \in 0..(m + 1) |-> h[n]] /\ k = [n \in 0..(m + 1) |-> k[n]]
      BY <3>1
    <3> HIDE DEF h
    <3> QED
      BY <3>1, <3>2, <3>4
  <2> HIDE DEF h
  <2>6. m + 1 \in Nat
    BY <2>2
  <2> QED
    BY <2>5, <2>6
<1>3. S \subseteq Nat
  OBVIOUS
<1> HIDE DEF S
<1>4. S = Nat
  BY <1>1, <1>2, <1>3, SetInduction
<1> QED
  BY <1>4 DEF S

\* Admit, for a batch of runs of S: what it admits fits beside what is in
\* flight, turn by turn.
LEMMA AdmitFits ==
    ASSUME NEW d, NEW S \in SUBSET Runs, NEW batch, NEW N \in Nat, N = Len(batch), \A i \in 1..N : batch[i] \in S,
           \A r \in Runs : Cardinality(InFlight(d, Tier[r])) <= WIPCap[Tier[r]]
    PROVE  Fits(Admit(batch, d), d, S)
<1> DEFINE z == [adm |-> <<>>, cpu |-> d.used["cpu"]]
           turn == CHOOSE g : g = [n \in 0..N |-> IF n = 0 THEN z ELSE AdmitRun(g[n - 1], batch[n], d)]
<1>0. Fits(z.adm, d, S)
  <2>1. z.adm = <<>>
    OBVIOUS
  <2>2. ASSUME NEW r \in Runs
        PROVE  Cardinality(InFlight(d, Tier[r])) + Cardinality(Chosen(<<>>, Tier[r])) <= WIPCap[Tier[r]]
    <3>1. Chosen(<<>>, Tier[r]) = {}
      BY DEF Chosen
    <3>2. Cardinality(Chosen(<<>>, Tier[r])) = 0
      BY <3>1, FS_EmptySet
    <3>3. PICK m \in Nat : m = Cardinality(InFlight(d, Tier[r])) /\ m <= WIPCap[Tier[r]]
      BY InFlightFinite
    <3>4. m + 0 = m
      OBVIOUS
    <3> QED
      BY <3>2, <3>3, <3>4
  <2>3. <<>> \in Seq(Admission) /\ \A i \in 1..Len(<<>>) : <<>>[i].run \in S
    OBVIOUS
  <2> QED
    BY <2>1, <2>2, <2>3 DEF Fits
<1>1. turn = [n \in 0..N |-> IF n = 0 THEN z ELSE AdmitRun(turn[n - 1], batch[n], d)]
  <2> HIDE DEF z
  <2> QED
    BY TurnsExist, SMTT(30)
<1>2. Admit(batch, d) = turn[N].adm
  BY DEF Admit
<1> HIDE DEF turn, z
<1>3. /\ \A n \in 0..N : n = 0 => turn[n] = z
      /\ \A n \in 0..N : n # 0 => turn[n] = AdmitRun(turn[n - 1], batch[n], d)
  BY <1>1
<1> DEFINE P == {n \in Nat : n <= N => Fits(turn[n].adm, d, S)}
<1>4. 0 \in P
  <2>1. turn[0] = z
    BY <1>3
  <2> QED
    BY <1>0, <2>1
<1>5. ASSUME NEW n \in P PROVE n + 1 \in P
  <2>1. n \in Nat /\ n + 1 \in Nat /\ (n <= N => Fits(turn[n].adm, d, S))
    OBVIOUS
  <2>2. CASE n + 1 <= N
    <3>1. n <= N /\ n + 1 \in 0..N /\ n + 1 \in 1..N /\ (n + 1) - 1 = n /\ n + 1 # 0
      BY <2>1, <2>2
    <3>2. turn[n + 1] = AdmitRun(turn[n], batch[n + 1], d) /\ batch[n + 1] \in S
      BY <1>3, <3>1
    <3>3. PICK acc, q : acc = turn[n] /\ q = batch[n + 1]
      OBVIOUS
    <3>4. q \in S /\ Fits(acc.adm, d, S) /\ turn[n + 1] = AdmitRun(acc, q, d)
      BY <2>1, <3>1, <3>2, <3>3
    <3>5. Fits(turn[n + 1].adm, d, S)
      BY <3>4, AdmitRunFits
    <3> QED
      BY <2>1, <3>5
  <2>3. CASE ~(n + 1 <= N)
    BY <2>1, <2>3
  <2> QED
    BY <2>2, <2>3
<1>6. P \subseteq Nat
  OBVIOUS
<1>7. \A n \in P : n <= N => Fits(turn[n].adm, d, S)
  OBVIOUS
<1> HIDE DEF P
<1>8. P = Nat
  BY <1>4, <1>5, <1>6, SetInduction
<1> QED
  BY <1>2, <1>7, <1>8

\* A set of admissions is no larger than the list.
LEMMA FitsAsSet ==
    ASSUME NEW s \in Seq(Admission), NEW t
    PROVE  /\ IsFiniteSet(ToSet(s)) /\ ToSet(s) \subseteq Admission
           /\ Cardinality(Waiting(ToSet(s), t)) <= Cardinality(Chosen(s, t))
<1>1. PICK n \in Nat : n = Len(s)
  OBVIOUS
<1>2. ToSet(s) = {s[i] : i \in 1..n}
  BY <1>1 DEF ToSet
<1>3. IsFiniteSet(ToSet(s))
  <2>1. IsFiniteSet(1..n)
    BY FS_Interval
  <2> DEFINE f == [i \in 1..n |-> s[i]]
  <2>2. f \in Surjection(1..n, ToSet(s))
    BY <1>2 DEF Surjection
  <2> QED
    BY <2>1, <2>2, FS_Surjection
<1>4. ToSet(s) \subseteq Admission
  BY <1>1, <1>2
<1>5. Cardinality(Waiting(ToSet(s), t)) <= Cardinality(Chosen(s, t))
  <2> DEFINE f == [i \in Chosen(s, t) |-> s[i]]
  <2>1. f \in Surjection(Chosen(s, t), Waiting(ToSet(s), t))
    BY <1>1, <1>2 DEF Surjection, Chosen, Waiting
  <2> QED
    BY <2>1, ChosenFinite, FS_Surjection
<1> QED
  BY <1>3, <1>4, <1>5

\* TickBegin: the queue is read, the hour rolled over and the batch admitted.
LEMMA TickStep ==
    ASSUME EngineIInv, TickBegin
    PROVE  EngineIInv' /\ Stepped(db, db')
<1>1. PICK d, e : d = db /\ e = db'
  OBVIOUS
<1>2. /\ pc = Idle /\ pc' = "dispatching" /\ inbox' = inbox /\ hour' = hour
      /\ UNCHANGED fleetVars /\ UNCHANGED <<scan, replan>>
  BY DEF TickBegin
<1>3. TablesOK(d) /\ hour \in 0..MaxHour
  BY <1>1 DEF EngineIInv
<1>4. e = d \/ e = RollOver(d)
  BY <1>1 DEF TickBegin
<1>5. TablesOK(e) /\ Moves(d, e) /\ e.run = d.run /\ e.cand = d.cand /\ e.lease = d.lease
  <2>1. CASE e = d
    BY <1>3, <2>1, StepSame
  <2>2. CASE e = RollOver(d)
    <3>1. TablesOK(e) /\ Moves(d, e) /\ Same(d, e, Tables \ {"used", "window"})
      BY <1>3, <2>2, RollOverKeeps
    <3> QED
      BY <3>1 DEF Same, Tables
  <2> QED
    BY <1>4, <2>1, <2>2
<1>6. Stepped(d, e)
  BY <1>5 DEF Stepped, Moves, Lapses
<1>7. PICK S \in SUBSET Runs : S = QueuedRuns(db) /\ S = QueuedRuns(d)
  BY <1>1 DEF QueuedRuns
<1>8. PICK ranked \in SetToSeqs(S) : todo' = ToSet(Admit(ranked, e))
  BY <1>1, <1>7 DEF TickBegin
<1>9. PICK N \in Nat : N = Len(ranked) /\ \A i \in 1..N : ranked[i] \in S
  <2>1. IsFiniteSet(S)
    BY EngineConstants, FS_Subset
  <2>2. PICK c \in Nat : c = Cardinality(S)
    BY <2>1, FS_CardinalityType
  <2>3. ranked \in [1..c -> S]
    BY <2>2 DEF SetToSeqs
  <2> QED
    BY <2>3
<1>10. ASSUME NEW r \in Runs PROVE Cardinality(InFlight(e, Tier[r])) <= WIPCap[Tier[r]]
  <2>1. PICK m \in Nat, k \in Nat, w \in Nat, i \in Nat :
           m = Cardinality(InFlight(d, Tier[r])) /\ w = WIPCap[Tier[r]] /\ m + k + i <= w
    BY <1>1, WIPNumbers DEF EngineIInv
  <2>2. InFlight(e, Tier[r]) = InFlight(d, Tier[r])
    BY <1>5 DEF InFlight
  <2>3. m <= w
    BY <2>1
  <2> QED
    BY <2>1, <2>2, <2>3
<1>11. PICK s : s = Admit(ranked, e) /\ Fits(s, e, S)
  BY <1>9, <1>10, AdmitFits
<1>12. s \in Seq(Admission) /\ \A i \in 1..Len(s) : s[i].run \in S
  BY <1>11 DEF Fits
<1>13. PICK T : T = ToSet(s) /\ todo' = T
  BY <1>8, <1>11
<1>14. /\ T \subseteq Admission /\ IsFiniteSet(T)
       /\ \A t : Cardinality(Waiting(T, t)) <= Cardinality(Chosen(s, t))
  BY <1>12, <1>13, FitsAsSet
<1>15. ASSUME NEW a \in T PROVE Dispatchable(e, a.run)
  <2>1. PICK i \in 1..Len(s) : a = s[i]
    BY <1>12, <1>13 DEF ToSet
  <2>2. PICK q \in Runs : q = a.run /\ q \in QueuedRuns(d)
    BY <1>7, <1>12, <2>1
  <2>3. d.run[q].state = "queued" /\ d.cand[CandOf[q]] \in Open
    <3>1. d.cand[CandOf[q]] \in CandStates
      BY <1>3, RowFields DEF TablesOK
    <3>2. d.run[q].state = "queued" /\ Live(d.cand[CandOf[q]]) /\ d.cand[CandOf[q]] # "blocked_representative"
      BY <2>2 DEF QueuedRuns
    <3> QED
      BY <3>1, <3>2 DEF Live, CandTerminal, Open, CandStates
  <2> QED
    BY <1>5, <2>2, <2>3 DEF Dispatchable
<1>16. ASSUME NEW r \in Runs
       PROVE  (Cardinality(InFlight(db, Tier[r])) + Reserved(Tier[r]) <= WIPCap[Tier[r]])'
  <2>1. PICK t : t = Tier[r]
    OBVIOUS
  <2>2. PICK m \in Nat, k \in Nat, j \in Nat, w \in Nat :
           /\ m = Cardinality(InFlight(e, t)) /\ k = Cardinality(Chosen(s, t))
           /\ j = Cardinality(Waiting(T, t)) /\ w = WIPCap[t]
    BY <1>12, <1>14, <2>1, InFlightFinite, ChosenFinite, WaitingFinite, EngineConstants
  <2>3. m + k <= w
    BY <1>11, <2>1, <2>2 DEF Fits
  <2>4. j <= k
    BY <1>14, <2>2
  <2>5. m + j <= w
    BY <2>2, <2>3, <2>4
  <2>6. Reserved(t)' = j
    BY <1>2, <1>13, <2>2 DEF Reserved, Waiting
  <2>7. Cardinality(InFlight(db, t))' = m
    BY <1>1, <2>2 DEF InFlight
  <2> QED
    BY <2>1, <2>2, <2>5, <2>6, <2>7
<1>17. SchedulerOK'
  <2>1. \A a \in todo' : Dispatchable(db, a.run)'
    BY <1>1, <1>13, <1>15 DEF Dispatchable
  <2> QED
    BY <1>2, <1>13, <1>14, <1>16, <2>1 DEF EngineIInv, SchedulerOK, Idle
<1>18. HandOK' /\ ReadersOK'
  BY <1>2 DEF EngineIInv, HandOK, ReadersOK
<1>19. FleetOK' /\ \A q \in Runs : Passed(q) => Passed(q)'
  BY <1>2, FleetFrame DEF EngineIInv
<1>20. TablesOK(db)'
  BY <1>1, <1>5, <1>19, TablesFrame
<1> QED
  BY <1>1, <1>2, <1>3, <1>6, <1>17, <1>18, <1>19, <1>20 DEF EngineIInv

----------------------------------------------------------------------------
(***************************************************************************)
(* Theorems                                                                *)
(***************************************************************************)

\* The empty schema.
LEMMA EngineInitInv == Init => EngineIInv
<1> SUFFICES ASSUME Init PROVE EngineIInv
  OBVIOUS
<1>1. PICK d : d = db
  OBVIOUS
<1>2. /\ d.cand = [c \in Cands |-> "absent"] /\ d.run = [r \in Runs |-> NoRow] /\ d.evidence = {}
      /\ d.decisions = [c \in Cands |-> <<>>] /\ d.used = [k \in Counters |-> 0]
  BY <1>1 DEF Init
<1>3. NoRow \in Row /\ NoRow.state = "absent" /\ NoRow.conc = 0
  BY DEF NoRow, Row, RunStates
<1>4. d \in Db
  <2>1. 0 \in 0..MaxRerun /\ 0 \in 0..MaxHour /\ 0 \in 0..MaxFeedAttempts
    BY EngineConstants
  <2>2. <<>> \in Seq(Verbs) /\ "absent" \in CandStates /\ "none" \in Repairs /\ "granted" \in LeaseStates
    BY DEF CandStates, Repairs, LeaseStates
  <2> QED
    BY <1>1, <1>3, <2>1, <2>2 DEF Init, Db
<1>5. RowsOK(d)
  BY <1>2, <1>3 DEF RowsOK
<1>6. SlotsOK(d)
  <2>1. Holding(d) = {}
    BY <1>2, <1>3 DEF Holding
  <2>2. Cardinality(Holding(d)) = 0
    BY <2>1, FS_EmptySet
  <2>3. d.used["conc"] = 0
    BY <1>2 DEF Counters
  <2> QED
    BY <2>1, <2>2, <2>3 DEF SlotsOK
<1>7. VerdictsOK(d) /\ EvidenceOK(d)
  BY <1>2 DEF VerdictsOK, EvidenceOK
<1>8. FleetOK
  <2>1. Job!At("none", 0, "none") \in Job!Cell /\ Job!At("none", 0, "none").result = "none"
    BY DEF Job!At, Job!Cell
  <2> QED
    BY <2>1 DEF Init, FleetOK
<1>9. SchedulerOK
  <2>1. pc = Idle /\ todo = {} /\ inbox = <<>>
    BY DEF Init
  <2>2. ASSUME NEW r \in Runs
        PROVE  Cardinality(InFlight(db, Tier[r])) + Reserved(Tier[r]) <= WIPCap[Tier[r]]
    <3>1. InFlight(d, Tier[r]) = {}
      BY <1>2, <1>3 DEF InFlight
    <3>2. {a \in todo : Tier[a.run] = Tier[r]} = {}
      BY <2>1
    <3>3. Cardinality(InFlight(db, Tier[r])) = 0 /\ Reserved(Tier[r]) = 0
      BY <1>1, <2>1, <3>1, <3>2, FS_EmptySet DEF Reserved, Idle
    <3>4. WIPCap[Tier[r]] \in Nat
      BY EngineConstants
    <3> QED
      BY <3>3, <3>4
  <2>3. IsFiniteSet(todo)
    BY <2>1, FS_EmptySet
  <2> QED
    BY <2>1, <2>2, <2>3 DEF SchedulerOK, Idle
<1>10. HandOK /\ ReadersOK /\ hour \in 0..MaxHour
  BY EngineConstants DEF Init, HandOK, ReadersOK, Idle
<1> QED
  BY <1>1, <1>4, <1>5, <1>6, <1>7, <1>8, <1>9, <1>10 DEF EngineIInv, TablesOK

\* Every step of every thread keeps the invariant and does what Stepped says.
LEMMA EngineStep ==
    ASSUME EngineIInv, [Next]_vars
    PROVE  EngineIInv' /\ Stepped(db, db')
<1>1. CASE Scheduler
  <2>1. CASE TickBegin
    BY <2>1, TickStep
  <2>2. CASE DispatchCommit
    BY <2>2, CommitStep
  <2>3. CASE FeedRead
    BY <2>3, FeedStep
  <2>4. CASE IngestLoad
    BY <2>4, LoadStep
  <2>5. CASE IngestApply
    BY <2>5, ApplyStep
  <2>6. ASSUME NEW a \in todo, DispatchSkip(a) PROVE EngineIInv' /\ Stepped(db, db')
    BY <2>6, SkipStep
  <2>7. ASSUME NEW a \in todo, DispatchEnqueue(a) \/ EnqueueRefused(a) PROVE EngineIInv' /\ Stepped(db, db')
    BY <2>7, EnqueueStep
  <2>8. ASSUME NEW a \in todo, EnqueueFails(a) PROVE EngineIInv' /\ Stepped(db, db')
    BY <2>8, EnqueueFailsStep
  <2> QED
    BY <1>1, <2>1, <2>2, <2>3, <2>4, <2>5, <2>6, <2>7, <2>8 DEF Scheduler
<1>2. CASE Reconciler
  <2>1. CASE ReconcileScan
    BY <2>1, ScanStep
  <2>2. CASE LeaseExpires
    BY <2>2, LeaseExpiresStep
  <2>3. ASSUME NEW r \in Runs, ReconcileCancel(r) PROVE EngineIInv' /\ Stepped(db, db')
    BY <2>3, ReconcileCancelStep
  <2> QED
    BY <1>2, <2>1, <2>2, <2>3 DEF Reconciler
<1>3. CASE Api
  <2>1. ASSUME NEW c \in Cands, Submit(c) PROVE EngineIInv' /\ Stepped(db, db')
    BY <2>1, SubmitStep
  <2>2. ASSUME NEW c \in Cands, Synchronize(c) PROVE EngineIInv' /\ Stepped(db, db')
    BY <2>2, SynchronizeStep
  <2>3. ASSUME NEW c \in Cands, RevalidateRead(c) PROVE EngineIInv' /\ Stepped(db, db')
    BY <2>3, RevalidateReadStep
  <2>4. ASSUME NEW S \in SUBSET Cands, BaseAdvanced(S) PROVE EngineIInv' /\ Stepped(db, db')
    BY <2>4, BaseAdvancedStep
  <2>5. CASE Close
    BY <2>5, CloseStep
  <2>6. CASE Uninstall
    BY <2>6, UninstallStep
  <2>7. CASE RevalidateCommit
    BY <2>7, RevalidateCommitStep
  <2> QED
    BY <1>3, <2>1, <2>2, <2>3, <2>4, <2>5, <2>6, <2>7 DEF Api
<1>4. CASE FleetNext
  <2>1. ASSUME NEW r \in Runs, FleetMoves(r) PROVE EngineIInv' /\ Stepped(db, db')
    BY <2>1, FleetMovesStep
  <2>2. ASSUME NEW r \in Runs, RunAges(r) PROVE EngineIInv' /\ Stepped(db, db')
    BY <2>2, AgeStep
  <2>3. ASSUME NEW r \in Runs, NEW x \in Results, FleetAccepts(r, x) PROVE EngineIInv' /\ Stepped(db, db')
    BY <2>3, FleetAcceptsStep
  <2> QED
    BY <1>4, <2>1, <2>2, <2>3 DEF FleetNext
<1>5. CASE HourTurns
  BY <1>5, HourStep
<1>6. CASE Crash
  BY <1>6, CrashStep
<1>7. CASE UNCHANGED vars
  <2>1. db' = db /\ hour' = hour /\ UNCHANGED fleetVars /\ UNCHANGED engineVars /\ UNCHANGED <<scan, replan>>
    BY <1>7 DEF vars
  <2>2. FleetOK' /\ \A r \in Runs : Passed(r) => Passed(r)'
    BY <2>1, FleetFrame DEF EngineIInv
  <2>3. hour' \in 0..MaxHour
    BY <2>1 DEF EngineIInv
  <2> QED
    BY <2>1, <2>2, <2>3, OutsideKeeps
<1> QED
  BY <1>1, <1>2, <1>3, <1>4, <1>5, <1>6, <1>7 DEF Next

\* The tables, the fleet and what the scheduler, the reconciler and the
\* revalidation hold in their hands fit together in every reachable state,
\* whatever events of the environment happen.
THEOREM EngineInvariant == Spec => []EngineIInv
<1>1. EngineIInv /\ [Next]_vars => EngineIInv'
  BY EngineStep
<1> QED
  BY <1>1, EngineInitInv, PTL DEF Spec

\* Counters never go below zero and every column keeps its range: what
\* ReleaseBudgetsTx clamps and no transaction writes.
THEOREM EngineTypes == Spec => []TypeOK
<1>1. EngineIInv => TypeOK
  BY DEF EngineIInv, TablesOK, Db, Repairs, LeaseStates, FleetOK, SchedulerOK, HandOK, ReadersOK, Admission,
         Loaded, TypeOK
<1> QED
  BY <1>1, EngineInvariant, PTL

\* A tier never has more runs in flight than its cap, although a batch is
\* admitted against one snapshot and dispatched run by run (scheduler.Admit,
\* dispatchOne).
THEOREM EngineWIP == Spec => []WIPNeverOverrun
<1>1. EngineIInv => WIPNeverOverrun
  <2> SUFFICES ASSUME EngineIInv, NEW r \in Runs
               PROVE  Cardinality(InFlight(db, Tier[r])) <= WIPCap[Tier[r]]
    BY DEF WIPNeverOverrun
  <2>1. PICK m \in Nat, k \in Nat, w \in Nat, i \in Nat :
           m = Cardinality(InFlight(db, Tier[r])) /\ w = WIPCap[Tier[r]] /\ m + k + i <= w
    BY WIPNumbers DEF EngineIInv
  <2>2. m <= w
    BY <2>1
  <2> QED
    BY <2>1, <2>2
<1> QED
  BY <1>1, EngineInvariant, PTL

\* A counted slot is one that some dispatch reserved and nobody gave back: of a
\* run in flight, or of a run a replan cancelled.
HeldSlots ==
    db.used["conc"] <= Cardinality({r \in Runs : db.run[r].conc = 1
                                                 /\ db.run[r].state \in {"dispatched", "cancelled"}})

\* The concurrency counter never exceeds the slots that dispatches reserved and
\* nobody released, crashes, lost answers and replans included: what leaks is at
\* most the slot of a run that a replan cancelled (ReserveBudgetsTx,
\* ReleaseBudgetsTx, AppendReplanTx).
THEOREM EngineHeldSlots == Spec => []HeldSlots
<1>1. EngineIInv => HeldSlots
  <2> SUFFICES ASSUME EngineIInv PROVE HeldSlots
    OBVIOUS
  <2>1. SlotsOK(db)
    BY DEF EngineIInv, TablesOK
  <2>2. Holding(db) = {r \in Runs : db.run[r].conc = 1 /\ db.run[r].state \in {"dispatched", "cancelled"}}
    BY <2>1 DEF SlotsOK, Holding
  <2> QED
    BY <2>1, <2>2 DEF SlotsOK, HeldSlots
<1> QED
  BY <1>1, EngineInvariant, PTL

\* An eligible verdict is the candidate's only one and stays its state
\* (maybeRenderEligible, renderDecision).
THEOREM EngineFinal == Spec => []EligibleIsFinal
<1>1. EngineIInv => EligibleIsFinal
  <2> SUFFICES ASSUME EngineIInv, NEW c \in Cands, "eligible" \in ToSet(db.decisions[c])
               PROVE  db.decisions[c] = <<"eligible">> /\ db.cand[c] = "eligible"
    BY DEF EligibleIsFinal
  <2>1. db.decisions[c] \in Seq(Verbs) /\ VerdictsOK(db)
    BY DEF EngineIInv, TablesOK, Db
  <2>2. \E i \in 1..Len(db.decisions[c]) : db.decisions[c][i] = "eligible"
    BY <2>1 DEF ToSet
  <2> QED
    BY <2>1, <2>2 DEF VerdictsOK
<1> QED
  BY <1>1, EngineInvariant, PTL

\* Behind an eligible candidate stands an executed pass of each required kind
\* that the fleet accepted in the epoch of its dispatch (onRunSucceeded,
\* maybeRenderEligible and the fence of applyCompletion).
THEOREM EngineEarned == Spec => []EligibleEarned
<1>1. EngineIInv => EligibleEarned
  BY DEF EngineIInv, TablesOK, EvidenceOK, Earned, Passed, EligibleEarned
<1> QED
  BY <1>1, EngineInvariant, PTL

\* No completion, webhook, reconciliation or revalidation changes the state of
\* a decided candidate, however old what it read is (MarkCandidateStateTx).
THEOREM EngineFrozen == Spec => TerminalCandidateFrozen
<1>1. EngineIInv /\ [Next]_vars => [\A c \in Cands : CandTerminal(db.cand[c]) => db'.cand[c] = db.cand[c]]_vars
  BY EngineStep DEF Stepped
<1> QED
  BY <1>1, EngineInvariant, PTL DEF Spec, TerminalCandidateFrozen

\* The dispatch transaction, which does not look at the candidate, never puts
\* a run of a decided candidate in flight (dispatchOne, DispatchRunTx).
THEOREM EngineNoWork == Spec => NoWorkForTerminal
<1>1. EngineIInv /\ [Next]_vars =>
         [\A r \in Runs : db.run[r].state # "dispatched" /\ db'.run[r].state = "dispatched" =>
             Live(db'.cand[CandOf[r]])]_vars
  BY EngineStep DEF Stepped
<1> QED
  BY <1>1, EngineInvariant, PTL DEF Spec, NoWorkForTerminal

\* The change-scope lease is revoked only when no live candidate is left
\* (maybeRevokeLease, applyInstallationDeleted).
THEOREM EngineLease == Spec => LeaseOutlivesWork
<1>1. EngineIInv /\ [Next]_vars =>
         [db.lease = "granted" /\ db'.lease = "revoked" => \A c \in Cands : ~Live(db'.cand[c])]_vars
  BY EngineStep DEF Stepped, Lapses
<1> QED
  BY <1>1, EngineInvariant, PTL DEF Spec, LeaseOutlivesWork

\* A run the fleet does not know has its first cell.
Unknown == \A r \in Runs : cell[r].phase = "none" => cell[r] = Job!At("none", 0, "none")

\* Cells move one at a time, as the contract of the fleet has it.
LEMMA JobStep ==
    ASSUME EngineIInv, EngineIInv', Unknown, [Next]_vars
    PROVE  Unknown' /\ [Job!Next]_cell
<1> DEFINE Moved(r, p) == Job!Move(cell[r], p) /\ p.phase # "none" /\ cell' = [cell EXCEPT ![r] = p]
<1>1. cell' = cell \/ \E r \in Runs : \E p : Moved(r, p)
  <2>1. ASSUME NEW r \in Runs, Enqueued(r) PROVE cell' = cell \/ \E p : Moved(r, p)
    <3>1. CASE cell[r].phase # "none"
      BY <2>1, <3>1 DEF Enqueued
    <3>2. CASE cell[r].phase = "none"
      <4>1. PICK p : p = Job!At("open", 0, "none")
        OBVIOUS
      <4>2. cell' = [cell EXCEPT ![r] = p]
        BY <2>1, <3>2, <4>1 DEF Enqueued
      <4>3. cell[r] = Job!At("none", 0, "none")
        BY <3>2 DEF Unknown
      <4>4. Job!Move(cell[r], p) /\ p.phase # "none"
        BY <4>1, <4>3 DEF Job!Move, Job!Register, Job!At
      <4> QED
        BY <4>2, <4>4
    <3> QED
      BY <3>1, <3>2
  <2>2. ASSUME NEW r \in Runs, FleetMoves(r) PROVE \E p : Moved(r, p)
    <3>1. PICK ph \in {"granted", "open", "closed"} :
             LET p == Job!At(ph, cell[r].epoch + 1, "none") IN
             /\ Job!Grant(cell[r], p) \/ Job!Revoke(cell[r], p) \/ Job!Kill(cell[r], p)
             /\ cell' = [cell EXCEPT ![r] = p]
      BY <2>2 DEF FleetMoves
    <3>2. PICK p : p = Job!At(ph, cell[r].epoch + 1, "none")
      OBVIOUS
    <3>3. p.phase # "none"
      BY <3>2 DEF Job!At
    <3>4. Job!Move(cell[r], p) /\ cell' = [cell EXCEPT ![r] = p]
      BY <3>1, <3>2 DEF Job!Move
    <3> QED
      BY <3>3, <3>4
  <2>3. ASSUME NEW r \in Runs, NEW x \in Results, FleetAccepts(r, x) PROVE \E p : Moved(r, p)
    <3>1. PICK p : p = Job!At("closed", cell[r].epoch, x)
      OBVIOUS
    <3>2. Job!Move(cell[r], p) /\ cell' = [cell EXCEPT ![r] = p]
      BY <2>3, <3>1 DEF FleetAccepts, Job!Move
    <3>3. p.phase # "none"
      BY <3>1 DEF Job!At
    <3> QED
      BY <3>2, <3>3
  <2>4. CASE Scheduler
    <3>1. ASSUME NEW a \in todo, DispatchEnqueue(a) \/ EnqueueRefused(a) \/ EnqueueFails(a)
          PROVE  cell' = cell \/ \E r \in Runs : \E p : Moved(r, p)
      <4>1. PICK r \in Runs : r = a.run
        BY DEF EngineIInv, SchedulerOK, Admission
      <4>2. Enqueued(r) \/ cell' = cell
        BY <3>1, <4>1 DEF DispatchEnqueue, EnqueueRefused, EnqueueFails, fleetVars
      <4> QED
        BY <2>1, <4>2
    <3>2. \/ \E a \in todo : DispatchEnqueue(a) \/ EnqueueRefused(a) \/ EnqueueFails(a)
          \/ cell' = cell
      BY <2>4 DEF Scheduler, TickBegin, DispatchCommit, FeedRead, IngestLoad, IngestApply, DispatchSkip, fleetVars
    <3> QED
      BY <3>1, <3>2
  <2>5. CASE Reconciler \/ Api \/ HourTurns \/ Crash \/ UNCHANGED vars
    BY <2>5 DEF Reconciler, Api, HourTurns, Crash, vars, fleetVars, ReconcileScan, LeaseExpires, ReconcileCancel,
                Submit, Synchronize, RevalidateRead, BaseAdvanced, Close, Uninstall, RevalidateCommit, Handler
  <2>6. CASE FleetNext
    <3>1. \A r \in Runs : RunAges(r) => cell' = cell
      BY DEF RunAges, Handler, fleetVars
    <3> QED
      BY <2>2, <2>3, <2>6, <3>1 DEF FleetNext
  <2> QED
    BY <2>4, <2>5, <2>6 DEF Next
<1>2. cell \in [Runs -> Job!Cell] /\ cell' \in [Runs -> Job!Cell]
  BY DEF EngineIInv, FleetOK
<1>3. CASE cell' = cell
  BY <1>3 DEF Unknown
<1>4. ASSUME NEW r \in Runs, NEW p, Moved(r, p) PROVE Unknown' /\ [Job!Next]_cell
  <2>1. cell'[r] = p /\ \A q \in Runs \ {r} : cell'[q] = cell[q]
    BY <1>2, <1>4
  <2>2. Unknown'
    BY <1>4, <2>1 DEF Unknown
  <2>3. \A q \in Runs : cell'[q] = cell[q] \/ Job!Move(cell[q], cell'[q])
    BY <1>4, <2>1
  <2> QED
    BY <1>2, <2>2, <2>3 DEF Job!Next
<1> QED
  BY <1>1, <1>3, <1>4

\* The fleet as the engine sees it keeps the contract that the fleet's job
\* table is shown to implement (enqueue, claim, sweep and completion of a job).
THEOREM EngineFleet == Spec => Job!Spec
<1>1. Init => Unknown /\ Job!Init
  BY DEF Init, Unknown, Job!Init
<1>2. EngineIInv /\ EngineIInv' /\ Unknown /\ [Next]_vars => Unknown' /\ [Job!Next]_cell
  BY JobStep
<1> QED
  BY <1>1, <1>2, EngineInvariant, PTL DEF Spec, Job!Spec
=============================================================================
