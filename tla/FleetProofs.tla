----------------------------- MODULE FleetProofs -----------------------------
(***************************************************************************)
(* Theorems about Fleet for any sets of runs, slots and external workers   *)
(* and any bounds.  The inductive invariant adds to the checked ones that  *)
(* a run without a row has no claims, without which a claim on an absent   *)
(* run could be as new as the epoch the run is enqueued with, and that     *)
(* claimed_by names the holder of a current claim or nobody, which is what *)
(* makes an accepted result the holder's.                                  *)
(***************************************************************************)
EXTENDS Fleet, TLAPS

NoClaimWithoutRow ==
    \A w \in Workers : \A c \in held[w] : status[c.run] # "absent"

HolderNamed ==
    \A w \in Workers : \A c \in held[w] : IsCurrent(c) => claimedBy[c.run] \in {w, NoOne}

IInv ==
    /\ TypeOK
    /\ NoClaimWithoutRow
    /\ ClaimsBehindFence
    /\ ExclusiveEpoch
    /\ AcceptedIffResult
    /\ HolderNamed
    /\ OnlyHolderAccepts

USE DEF Workers

\* What the claim statement selects: queued rows only.
LEMMA OldestQueuedIsQueued ==
    ASSUME NEW n, NEW S \in OldestQueued(n)
    PROVE  S \subseteq Runs /\ \A r \in S : status[r] = "queued"
BY DEF OldestQueued

\* Init establishes the invariant: the table and all claims are empty.
LEMMA InitInv == Init => IInv
<1> SUFFICES ASSUME Init PROVE IInv
    OBVIOUS
<1>1. TypeOK
  <2>1. order \in Seq(Runs) /\ attempt \in [Runs -> 0..MaxAttempt]
    BY BoundsAssumption DEF Init
  <2>2. /\ status \in [Runs -> Statuses] /\ fence \in [Runs -> Nat]
        /\ claimedBy \in [Runs -> Workers \cup {NoOne}]
        /\ beat \in [Runs -> {"fresh", "stale"}] /\ lease \in [Runs -> {"live", "expired"}]
    BY DEF Init, Statuses
  <2>3. accepted \in [Runs -> BOOLEAN] /\ sweeping \in BOOLEAN
    BY DEF Init
  <2>5. result \in [Runs -> [by : Workers \cup {NoOne}, fence : Nat]] /\ beating \subseteq Runs
    BY DEF Init, NoResult
  <2>4. /\ held \in [Workers -> SUBSET Claims]
        /\ phase \in [Slots -> Phases]
        /\ handle \in [Runs -> Slots \cup {NoOne}]
        /\ registered \in [Workers -> {"absent", "fresh", "stale"}]
    BY DEF Init, Phases
  <2> QED
    BY <2>1, <2>2, <2>3, <2>4, <2>5 DEF TypeOK
<1>2. AcceptedIffResult
  BY OutcomesAssumption DEF Init, AcceptedIffResult
<1>3. HolderNamed /\ OnlyHolderAccepts
  BY DEF Init, HolderNamed, OnlyHolderAccepts
<1> QED
  BY <1>1, <1>2, <1>3 DEF Init, IInv, NoClaimWithoutRow, ClaimsBehindFence, ExclusiveEpoch

\* A step that leaves status, fence and results alone, hands out no claim and
\* at most clears claimed_by keeps everything but possibly TypeOK.
LEMMA QuietStep ==
    ASSUME IInv, TypeOK',
           UNCHANGED <<status, fence, accepted, result>>,
           \A r \in Runs : claimedBy'[r] \in {claimedBy[r], NoOne},
           \A w \in Workers : held'[w] \subseteq held[w]
    PROVE  IInv'
<1>1. NoClaimWithoutRow'
  BY DEF IInv, NoClaimWithoutRow
<1>2. ClaimsBehindFence'
  BY DEF IInv, ClaimsBehindFence
<1>3. ExclusiveEpoch'
  BY DEF IInv, ExclusiveEpoch
<1>4. AcceptedIffResult'
  BY DEF IInv, AcceptedIffResult
<1>5. HolderNamed'
  BY DEF IInv, HolderNamed, IsCurrent, TypeOK, Claims
<1>6. OnlyHolderAccepts'
  BY DEF IInv, OnlyHolderAccepts
<1> QED
  BY <1>1, <1>2, <1>3, <1>4, <1>5, <1>6 DEF IInv

\* The claim transaction: the new epoch is above every claim handed out.
LEMMA ClaimStep ==
    ASSUME IInv, NEW w \in Workers, NEW S \in SUBSET Runs,
           \A r \in S : status[r] = "queued",
           ClaimRows(w, S),
           UNCHANGED sweeping,
           phase' \in [Slots -> Phases],
           UNCHANGED <<handle, beating>>,
           registered' \in [Workers -> {"absent", "fresh", "stale"}]
    PROVE  IInv'
<1> DEFINE new == {[run |-> r, fence |-> fence[r] + 1] : r \in S}
<1>0. held' = [held EXCEPT ![w] = @ \cup new] /\ new \subseteq Claims
  BY DEF ClaimRows, IInv, TypeOK, Claims
<1>1. TypeOK'
  <2>1. status' \in [Runs -> Statuses] /\ fence' \in [Runs -> Nat]
        /\ beat' \in [Runs -> {"fresh", "stale"}]
        /\ claimedBy' \in [Runs -> Workers \cup {NoOne}]
    BY DEF ClaimRows, IInv, TypeOK, Statuses
  <2>2. held' \in [Workers -> SUBSET Claims]
    BY <1>0 DEF IInv, TypeOK
  <2> QED
    BY <2>1, <2>2 DEF ClaimRows, IInv, TypeOK
<1>2. \A v \in Workers : \A c \in held'[v] : c \in held[v] \/ (v = w /\ c \in new)
  BY <1>0 DEF IInv, TypeOK
<1>3. \A v \in Workers : \A c \in held[v] : c \in Claims /\ c.fence <= fence[c.run] /\ status[c.run] # "absent"
  BY DEF IInv, TypeOK, ClaimsBehindFence, NoClaimWithoutRow
<1>4. \A c \in new : c.run \in S /\ c.fence = fence[c.run] + 1 /\ status'[c.run] = "running"
  BY DEF ClaimRows
<1>5. NoClaimWithoutRow'
  BY <1>2, <1>3, <1>4 DEF NoClaimWithoutRow, ClaimRows, Claims
<1>6. ClaimsBehindFence'
  <2> SUFFICES ASSUME NEW v \in Workers, NEW c \in held'[v]
               PROVE  /\ c.fence <= fence'[c.run]
                      /\ status'[c.run] \in {"queued", "cancelled"} => c.fence < fence'[c.run]
    BY DEF ClaimsBehindFence
  <2>1. CASE c \in new
    BY <2>1, <1>4 DEF ClaimRows, IInv, TypeOK
  <2>2. CASE c \in held[v]
    BY <2>2, <1>3 DEF ClaimRows, IInv, TypeOK, ClaimsBehindFence, Claims
  <2> QED
    BY <2>1, <2>2, <1>2
<1>7. ExclusiveEpoch'
  <2> SUFFICES ASSUME NEW u \in Workers, NEW v \in Workers,
                      NEW c \in held'[u], NEW d \in held'[v],
                      c.run = d.run, c.fence = d.fence
               PROVE  u = v
    BY DEF ExclusiveEpoch
  <2>1. \A e \in new : \A x \in Workers : \A f \in held[x] : e.run = f.run => e.fence # f.fence
    BY <1>3, <1>4 DEF IInv, TypeOK, Claims
  <2> QED
    BY <2>1, <1>2 DEF IInv, ExclusiveEpoch
<1>8. AcceptedIffResult'
  BY OutcomesAssumption DEF ClaimRows, IInv, AcceptedIffResult, TypeOK
<1>9. HolderNamed'
  <2> SUFFICES ASSUME NEW v \in Workers, NEW c \in held'[v], IsCurrent(c)'
               PROVE  claimedBy'[c.run] \in {v, NoOne}
    BY DEF HolderNamed
  <2>1. CASE c \in new /\ v = w
    BY <2>1, <1>4 DEF ClaimRows, IInv, TypeOK
  <2>2. CASE c \in held[v]
    <3>1. c.run \in Runs /\ c.fence <= fence[c.run] /\ fence[c.run] \in Nat /\ c.fence \in Nat
      BY <2>2, <1>3 DEF Claims, IInv, TypeOK
    <3>2. c.run \notin S
      BY <3>1 DEF ClaimRows, IsCurrent
    <3> QED
      BY <2>2, <3>1, <3>2 DEF ClaimRows, IsCurrent, IInv, HolderNamed
  <2> QED
    BY <2>1, <2>2, <1>2
<1>10. OnlyHolderAccepts'
  <2> SUFFICES ASSUME NEW r \in Runs, accepted'[r]
               PROVE  result'[r].fence = fence'[r] /\ claimedBy'[r] \in {result'[r].by, NoOne}
    BY DEF OnlyHolderAccepts
  <2>1. r \notin S
    BY OutcomesAssumption DEF ClaimRows, IInv, AcceptedIffResult
  <2> QED
    BY <2>1 DEF ClaimRows, IInv, OnlyHolderAccepts
<1> QED
  BY <1>1, <1>5, <1>6, <1>7, <1>8, <1>9, <1>10 DEF IInv

\* The completion statement keeps the columns of the row typed.
LEMMA CompleteTyped ==
    ASSUME TypeOK, NEW v \in Workers, NEW c \in held[v], NEW o \in Outcomes, CompleteRow(v, c, o)
    PROVE  /\ status' \in [Runs -> Statuses] /\ accepted' \in [Runs -> BOOLEAN]
           /\ result' \in [Runs -> [by : Workers \cup {NoOne}, fence : Nat]]
           /\ UNCHANGED <<fence, attempt, claimedBy, beat, lease, order>>
<1>1. c.run \in Runs /\ c.fence \in Nat
  BY DEF TypeOK, Claims
<1>2. [by |-> v, fence |-> c.fence] \in [by : Workers \cup {NoOne}, fence : Nat]
  BY <1>1
<1>3. UNCHANGED <<fence, attempt, claimedBy, beat, lease, order>>
  BY DEF CompleteRow
<1>6. status' \in [Runs -> Statuses]
  <2>1. status' = status \/ status' = [status EXCEPT ![c.run] = o]
    BY DEF CompleteRow
  <2>2. status \in [Runs -> Statuses] /\ o \in Statuses
    BY DEF TypeOK, Statuses
  <2> QED
    BY <2>1, <2>2
<1>4. accepted' \in [Runs -> BOOLEAN]
  BY DEF CompleteRow, TypeOK
<1>5. result' \in [Runs -> [by : Workers \cup {NoOne}, fence : Nat]]
  <2>1. result' = result \/ result' = [result EXCEPT ![c.run] = [by |-> v, fence |-> c.fence]]
    BY DEF CompleteRow
  <2> QED
    BY <1>2, <2>1 DEF TypeOK
<1> QED
  BY <1>3, <1>4, <1>5, <1>6

\* The completion statement, authorised or not, matched or not.
LEMMA CompleteStep ==
    ASSUME IInv, NEW v \in Workers, NEW c \in held[v], NEW o \in Outcomes,
           CompleteRow(v, c, o),
           TypeOK',
           \A w \in Workers : held'[w] \subseteq held[w]
    PROVE  IInv'
<1>0. c \in Claims
  BY DEF IInv, TypeOK
<1>1. /\ UNCHANGED <<fence, claimedBy>>
      /\ \/ UNCHANGED <<status, accepted, result>>
         \/ /\ IsCurrent(c)
            /\ status' = [status EXCEPT ![c.run] = o]
            /\ accepted' = [accepted EXCEPT ![c.run] = TRUE]
            /\ result' = [result EXCEPT ![c.run] = [by |-> v, fence |-> c.fence]]
  BY DEF CompleteRow
<1>2. CASE UNCHANGED <<status, accepted, result>>
  BY <1>1, <1>2, QuietStep
<1>3. CASE /\ IsCurrent(c)
           /\ status' = [status EXCEPT ![c.run] = o]
           /\ accepted' = [accepted EXCEPT ![c.run] = TRUE]
           /\ result' = [result EXCEPT ![c.run] = [by |-> v, fence |-> c.fence]]
  <2>1. c.run \in Runs /\ o \notin {"absent", "queued", "running", "cancelled"}
    BY <1>0, OutcomesAssumption DEF Claims
  <2>2. \A r \in Runs : status'[r] = IF r = c.run THEN o ELSE status[r]
    BY <1>3 DEF IInv, TypeOK
  <2>3. \A w \in Workers : \A d \in held'[w] : d \in held[w] /\ d.run \in Runs
    BY DEF IInv, TypeOK, Claims
  <2>4. NoClaimWithoutRow'
    BY <2>1, <2>2, <2>3 DEF IInv, NoClaimWithoutRow
  <2>5. ClaimsBehindFence'
    BY <1>1, <2>1, <2>2, <2>3 DEF IInv, ClaimsBehindFence
  <2>6. ExclusiveEpoch'
    BY <2>3 DEF IInv, ExclusiveEpoch
  <2>7. AcceptedIffResult'
    <3> SUFFICES ASSUME NEW r \in Runs
                 PROVE  accepted'[r] <=> status'[r] \in Outcomes
      BY DEF AcceptedIffResult
    <3>1. CASE r = c.run
      BY <3>1, <1>3, <2>2 DEF IInv, TypeOK
    <3>2. CASE r # c.run
      <4>1. accepted'[r] = accepted[r]
        <5>1. accepted \in [Runs -> BOOLEAN]
          BY DEF IInv, TypeOK
        <5> QED
          BY <5>1, <3>2, <1>3
      <4> QED
        BY <4>1, <3>2, <2>2 DEF IInv, AcceptedIffResult
    <3> QED
      BY <3>1, <3>2
  <2>8. HolderNamed'
    BY <1>1, <2>1, <2>2, <2>3 DEF IInv, HolderNamed, IsCurrent
  <2>9. OnlyHolderAccepts'
    <3> SUFFICES ASSUME NEW r \in Runs, accepted'[r]
                 PROVE  result'[r].fence = fence'[r] /\ claimedBy'[r] \in {result'[r].by, NoOne}
      BY DEF OnlyHolderAccepts
    <3>1. CASE r = c.run
      <4>1. result'[r] = [by |-> v, fence |-> c.fence]
        BY <3>1, <1>3 DEF IInv, TypeOK
      <4>2. c.fence = fence[r] /\ claimedBy[r] \in {v, NoOne}
        BY <3>1, <1>3 DEF IInv, HolderNamed, IsCurrent
      <4> QED
        BY <4>1, <4>2, <1>1
    <3>2. CASE r # c.run
      <4>1. accepted'[r] = accepted[r]
        <5>1. accepted \in [Runs -> BOOLEAN]
          BY DEF IInv, TypeOK
        <5> QED
          BY <5>1, <3>2, <1>3
      <4>2. result'[r] = result[r]
        BY <3>2, <1>3 DEF IInv, TypeOK
      <4> QED
        BY <4>1, <4>2, <1>1 DEF IInv, OnlyHolderAccepts
    <3> QED
      BY <3>1, <3>2
  <2> QED
    BY <2>4, <2>5, <2>6, <2>7, <2>8, <2>9 DEF IInv
<1> QED
  BY <1>1, <1>2, <1>3

\* Operations of the table itself.
LEMMA TableStep == IInv /\ TableNext => IInv'
<1> SUFFICES ASSUME IInv, TableNext PROVE IInv'
    OBVIOUS
<1> USE DEF IInv
<1>1. ASSUME NEW r \in Runs, NEW a \in 1..MaxAttempt, Enqueue(r, a) PROVE IInv'
  <2>1. TypeOK'
    <3>1. /\ status' \in [Runs -> Statuses] /\ attempt' \in [Runs -> 0..MaxAttempt]
          /\ order' \in Seq(Runs)
      <4>1. CASE status[r] = "absent"
        <5>1. order' = Append(order, r) /\ order \in Seq(Runs)
          BY <1>1, <4>1 DEF Enqueue, TypeOK
        <5>2. order' \in Seq(Runs)
          BY <5>1
        <5>3. a \in 0..MaxAttempt
          BY BoundsAssumption
        <5>4. attempt' \in [Runs -> 0..MaxAttempt]
          BY <1>1, <4>1, <5>3 DEF Enqueue, TypeOK
        <5>5. status' = [status EXCEPT ![r] = "queued"] /\ status \in [Runs -> Statuses]
          BY <1>1, <4>1 DEF Enqueue, TypeOK
        <5>6. status' \in [Runs -> Statuses]
          BY <5>5 DEF Statuses
        <5> QED
          BY <5>2, <5>4, <5>6
      <4>2. CASE status[r] # "absent"
        BY <1>1, <4>2 DEF Enqueue, TypeOK
      <4> QED
        BY <4>1, <4>2
    <3> QED
      BY <1>1, <3>1 DEF Enqueue, TypeOK, slotVars
  <2>2. NoClaimWithoutRow' /\ ClaimsBehindFence'
    BY <1>1 DEF Enqueue, TypeOK, NoClaimWithoutRow, ClaimsBehindFence, slotVars, Claims
  <2>3. ExclusiveEpoch'
    BY <1>1 DEF Enqueue, ExclusiveEpoch, slotVars
  <2>4. AcceptedIffResult'
    BY <1>1, OutcomesAssumption DEF Enqueue, TypeOK, AcceptedIffResult, slotVars
  <2>5. HolderNamed'
    BY <1>1 DEF Enqueue, TypeOK, HolderNamed, IsCurrent, Claims, slotVars
  <2>6. OnlyHolderAccepts'
    BY <1>1 DEF Enqueue, OnlyHolderAccepts
  <2> QED
    BY <2>1, <2>2, <2>3, <2>4, <2>5, <2>6
<1>2. ASSUME NEW r \in Runs, Cancel(r) PROVE IInv'
  <2>1. TypeOK'
    BY <1>2 DEF Cancel, TypeOK, Statuses, slotVars
  <2>2. NoClaimWithoutRow'
    BY <1>2 DEF Cancel, TypeOK, NoClaimWithoutRow, slotVars
  <2>3. ClaimsBehindFence'
    BY <1>2 DEF Cancel, TypeOK, ClaimsBehindFence, Claims, slotVars
  <2>4. ExclusiveEpoch'
    BY <1>2 DEF Cancel, ExclusiveEpoch, slotVars
  <2>5. AcceptedIffResult'
    BY <1>2, OutcomesAssumption DEF Cancel, Terminal, TypeOK, AcceptedIffResult, slotVars, Statuses
  <2>6. HolderNamed'
    BY <1>2 DEF Cancel, TypeOK, HolderNamed, IsCurrent, Claims, slotVars
  <2>7. OnlyHolderAccepts'
    <3>1. ~accepted[r]
      BY <1>2, OutcomesAssumption DEF Cancel, Terminal, AcceptedIffResult
    <3> QED
      BY <3>1, <1>2 DEF Cancel, TypeOK, OnlyHolderAccepts
  <2> QED
    BY <2>1, <2>2, <2>3, <2>4, <2>5, <2>6, <2>7
<1>3. ASSUME NEW r \in Runs, BeatAges(r) \/ LeaseExpires(r) \/ HeartbeatWorker(r) PROVE IInv'
  <2>1. TypeOK'
    <3>1. CASE BeatAges(r) \/ LeaseExpires(r)
      BY <3>1 DEF BeatAges, LeaseExpires, TypeOK, slotVars
    <3>2. CASE HeartbeatWorker(r)
      BY <3>2 DEF HeartbeatWorker, jobVars, TypeOK
    <3> QED
      BY <1>3, <3>1, <3>2
  <2> QED
    BY <1>3, <2>1, QuietStep DEF BeatAges, LeaseExpires, HeartbeatWorker, jobVars, slotVars
<1>4. ASSUME RequeueStale PROVE IInv'
  <2>1. TypeOK'
    BY <1>4 DEF RequeueStale, TypeOK, Statuses, slotVars
  <2>2. NoClaimWithoutRow'
    BY <1>4 DEF RequeueStale, TypeOK, NoClaimWithoutRow, Claims, slotVars
  <2>3. ClaimsBehindFence'
    BY <1>4 DEF RequeueStale, TypeOK, ClaimsBehindFence, Claims, slotVars
  <2>4. ExclusiveEpoch'
    BY <1>4 DEF RequeueStale, ExclusiveEpoch, slotVars
  <2>5. AcceptedIffResult'
    BY <1>4, OutcomesAssumption DEF RequeueStale, TypeOK, AcceptedIffResult, slotVars
  <2>6. HolderNamed'
    BY <1>4 DEF RequeueStale, TypeOK, HolderNamed, IsCurrent, Claims, slotVars
  <2>7. OnlyHolderAccepts'
    BY <1>4, OutcomesAssumption DEF RequeueStale, AcceptedIffResult, OnlyHolderAccepts
  <2> QED
    BY <2>1, <2>2, <2>3, <2>4, <2>5, <2>6, <2>7
<1>5. ASSUME PurgeStaleWorkers PROVE IInv'
  <2>1. TypeOK'
    BY <1>5 DEF PurgeStaleWorkers, TypeOK, slotVars
  <2> QED
    BY <1>5, <2>1, QuietStep DEF PurgeStaleWorkers, slotVars
<1> QED
  BY <1>1, <1>2, <1>3, <1>4, <1>5 DEF TableNext

\* Steps of an executor slot.
LEMMA SlotStep == ASSUME IInv, NEW s \in Slots, SlotNext(s) PROVE IInv'
<1>1. ASSUME SlotRegister(s) \/ SlotDies(s) PROVE IInv'
  <2>1. TypeOK'
    BY <1>1 DEF SlotRegister, SlotDies, Phases, jobVars, IInv, TypeOK
  <2> QED
    BY <1>1, <2>1, QuietStep DEF SlotRegister, SlotDies, jobVars
<1>2. ASSUME SlotClaim(s) PROVE IInv'
  <2>1. CASE /\ phase[s] = "claiming"
             /\ \E S \in OldestQueued(1) : ClaimRows(s, S)
             /\ phase' = [phase EXCEPT ![s] = "claimed"]
             /\ UNCHANGED <<handle, beating, registered, sweeping>>
    <3>1. PICK S \in OldestQueued(1) : ClaimRows(s, S)
      BY <2>1
    <3>2. S \in SUBSET Runs /\ \A r \in S : status[r] = "queued"
      BY OldestQueuedIsQueued
    <3> QED
      BY <2>1, <3>1, <3>2, ClaimStep DEF IInv, TypeOK, Phases
  <2>2. CASE /\ phase' = [phase EXCEPT ![s] = "idle"]
             /\ UNCHANGED <<jobVars, held>>
             /\ UNCHANGED <<handle, beating, registered, sweeping>>
    <3>1. TypeOK'
      BY <2>2 DEF jobVars, IInv, TypeOK, Phases
    <3> QED
      BY <2>2, <3>1, QuietStep DEF jobVars
  <2> QED
    BY <1>2, <2>1, <2>2 DEF SlotClaim
<1>3. ASSUME NEW c \in held[s], SlotSubmit(s, c) \/ SlotHeartbeat(s, c) PROVE IInv'
  <2>1. TypeOK'
    <3>1. CASE SlotSubmit(s, c)
      <4>1. c.run \in Runs
        BY DEF IInv, TypeOK, Claims
      <4> QED
        BY <3>1, <4>1 DEF SlotSubmit, Phases, jobVars, IInv, TypeOK
    <3>2. CASE SlotHeartbeat(s, c)
      BY <3>2 DEF SlotHeartbeat, HeartbeatRow, IInv, TypeOK, Claims
    <3> QED
      BY <1>3, <3>1, <3>2
  <2> QED
    BY <1>3, <2>1, QuietStep DEF SlotSubmit, SlotHeartbeat, HeartbeatRow, jobVars, slotVars
<1>4. ASSUME NEW c \in held[s], NEW o \in Outcomes, SlotComplete(s, c, o) PROVE IInv'
  <2>1. c \in Claims
    BY DEF IInv, TypeOK
  <2>2. \A w \in Workers : held'[w] \subseteq held[w]
    BY <1>4 DEF SlotComplete, IInv, TypeOK
  <2>3. CompleteRow(s, c, o) \/ UNCHANGED jobVars
    BY <1>4 DEF SlotComplete
  <2>4. TypeOK'
    <3>1. /\ status' \in [Runs -> Statuses] /\ accepted' \in [Runs -> BOOLEAN]
          /\ result' \in [Runs -> [by : Workers \cup {NoOne}, fence : Nat]]
          /\ UNCHANGED <<fence, attempt, claimedBy, beat, lease, order>>
      BY <2>3, CompleteTyped DEF jobVars, IInv, TypeOK
    <3>2. /\ held' \in [Workers -> SUBSET Claims]
          /\ handle' \in [Runs -> Slots \cup {NoOne}]
          /\ phase' \in [Slots -> Phases]
          /\ UNCHANGED <<beating, registered, sweeping>>
      BY <1>4 DEF SlotComplete, IInv, TypeOK, Phases
    <3> QED
      BY <3>1, <3>2 DEF IInv, TypeOK
  <2> QED
    BY <2>1, <2>2, <2>3, <2>4, CompleteStep, QuietStep DEF jobVars
<1> QED
  BY <1>1, <1>2, <1>3, <1>4 DEF SlotNext

\* Requests of an external worker.
LEMMA RemoteStep == ASSUME IInv, NEW w \in Remotes, RemoteNext(w) PROVE IInv'
<1>1. ASSUME NEW S \in SUBSET Runs, RemoteClaim(w, S) PROVE IInv'
  <2>1. \A r \in S : status[r] = "queued"
    BY <1>1, OldestQueuedIsQueued DEF RemoteClaim
  <2>2. registered' \in [Workers -> {"absent", "fresh", "stale"}]
    BY <1>1 DEF RemoteClaim, IInv, TypeOK
  <2> QED
    BY <1>1, <2>1, <2>2, ClaimStep DEF RemoteClaim, slotVars, IInv, TypeOK
<1>2. ASSUME NEW c \in held[w], RemoteHeartbeat(w, c) PROVE IInv'
  <2>1. TypeOK'
    BY <1>2 DEF RemoteHeartbeat, HeartbeatRow, IInv, TypeOK, Claims
  <2> QED
    BY <1>2, <2>1, QuietStep DEF RemoteHeartbeat, HeartbeatRow, slotVars
<1>3. ASSUME NEW c \in held[w], NEW o \in Outcomes, RemoteComplete(w, c, o) PROVE IInv'
  <2>1. c \in Claims
    BY DEF IInv, TypeOK
  <2>2. TypeOK'
    BY <1>3, CompleteTyped DEF RemoteComplete, slotVars, IInv, TypeOK
  <2> QED
    BY <1>3, <2>1, <2>2, CompleteStep DEF RemoteComplete
<1> QED
  BY <1>1, <1>2, <1>3 DEF RemoteNext

\* The invariant is inductive: every action of every actor preserves it.
LEMMA NextInv == IInv /\ [Next]_vars => IInv'
<1> SUFFICES ASSUME IInv, [Next]_vars PROVE IInv'
    OBVIOUS
<1>1. ASSUME NEW w \in Workers, WorkerAges(w) PROVE IInv'
  <2>1. TypeOK'
    BY <1>1 DEF WorkerAges, jobVars, slotVars, IInv, TypeOK
  <2> QED
    BY <1>1, <2>1, QuietStep DEF WorkerAges, jobVars
<1>2. ASSUME Restart PROVE IInv'
  <2>1. TypeOK'
    BY <1>2 DEF Restart, jobVars, IInv, TypeOK, NoOne, Phases
  <2>2. \A w \in Workers : held'[w] \subseteq held[w]
    BY <1>2 DEF Restart, IInv, TypeOK
  <2> QED
    BY <1>2, <2>1, <2>2, QuietStep DEF Restart, jobVars
<1>3. CASE UNCHANGED vars
  <2>1. TypeOK'
    BY <1>3 DEF vars, jobVars, slotVars, IInv, TypeOK
  <2> QED
    BY <1>3, <2>1, QuietStep DEF vars, jobVars
<1> QED
  BY <1>1, <1>2, <1>3, TableStep, SlotStep, RemoteStep DEF Next

\* The inductive invariant holds in every reachable state.
THEOREM FleetInvariant == Spec => []IInv
  BY InitInv, NextInv, PTL DEF Spec

\* Type correctness of the job table, the workers and the registry.
THEOREM FleetTyped == Spec => []TypeOK
<1>1. IInv => TypeOK
  BY DEF IInv
<1> QED
  BY <1>1, FleetInvariant, PTL

\* For any number of workers, no two ever hold one epoch of one run.
THEOREM FleetExclusive == Spec => []ExclusiveEpoch
<1>1. IInv => ExclusiveEpoch
  BY DEF IInv
<1> QED
  BY <1>1, FleetInvariant, PTL

\* Requeue and cancel revoke: no claim outlives the epoch it was given in.
THEOREM FleetRevokes == Spec => []ClaimsBehindFence
<1>1. IInv => ClaimsBehindFence
  BY DEF IInv
<1> QED
  BY <1>1, FleetInvariant, PTL

\* The completion feed holds exactly the rows with a worker's result.
THEOREM FleetFeed == Spec => []AcceptedIffResult
<1>1. IInv => AcceptedIffResult
  BY DEF IInv
<1> QED
  BY <1>1, FleetInvariant, PTL

(***************************************************************************)
(* How a step can move one row.  The refinement of FencedJob follows.      *)
(***************************************************************************)
RowStays(r) ==
    status'[r] = status[r] /\ fence'[r] = fence[r] /\ (accepted'[r] <=> accepted[r])

RowMoves(r) ==
    \/ RowStays(r)
    \/ /\ (accepted'[r] <=> accepted[r])
       /\ \/ status[r] = "absent" /\ status'[r] = "queued" /\ fence'[r] = fence[r]
          \/ status[r] = "queued" /\ status'[r] = "running" /\ fence'[r] = fence[r] + 1
          \/ status[r] = "running" /\ status'[r] = "queued" /\ fence'[r] = fence[r] + 1
          \/ /\ status[r] \in {"queued", "running"} /\ status'[r] = "cancelled"
             /\ fence'[r] = fence[r] + 1
    \/ /\ status[r] = "running" /\ status'[r] \in Outcomes
       /\ fence'[r] = fence[r] /\ accepted'[r]

\* The claim statement moves the selected rows and no other.
LEMMA ClaimMoves ==
    ASSUME IInv, NEW w, NEW S \in SUBSET Runs,
           \A r \in S : status[r] = "queued", ClaimRows(w, S), NEW r \in Runs
    PROVE  RowMoves(r)
<1>1. CASE r \in S
  BY <1>1 DEF ClaimRows, RowMoves
<1>2. CASE r \notin S
  BY <1>2 DEF ClaimRows, RowMoves, RowStays
<1> QED
  BY <1>1, <1>2

\* The completion statement moves at most its own row.
LEMMA CompleteMoves ==
    ASSUME IInv, NEW w \in Workers, NEW c \in held[w], NEW o \in Outcomes,
           CompleteRow(w, c, o), NEW r \in Runs
    PROVE  RowMoves(r)
<1>1. c \in Claims
  BY DEF IInv, TypeOK
<1>2. CASE r = c.run /\ IsCurrent(c) /\ ~accepted[c.run]
  <2>2. /\ status' = [status EXCEPT ![r] = o] /\ accepted' = [accepted EXCEPT ![r] = TRUE]
        /\ fence' = fence /\ status[r] = "running"
    BY <1>2 DEF CompleteRow, IsCurrent
  <2>3. status'[r] = o /\ accepted'[r]
    BY <2>2 DEF IInv, TypeOK
  <2> QED
    BY <2>2, <2>3 DEF RowMoves
<1>3. CASE ~(IsCurrent(c) /\ ~accepted[c.run])
  BY <1>3 DEF CompleteRow, RowMoves, RowStays
<1>4. CASE r # c.run /\ IsCurrent(c) /\ ~accepted[c.run]
  <2>1. /\ status' = [status EXCEPT ![c.run] = o] /\ accepted' = [accepted EXCEPT ![c.run] = TRUE]
        /\ fence' = fence
    BY <1>4 DEF CompleteRow
  <2>2. status'[r] = status[r] /\ accepted'[r] = accepted[r]
    BY <1>4, <2>1 DEF IInv, TypeOK
  <2> QED
    BY <2>1, <2>2 DEF RowMoves, RowStays
<1> QED
  BY <1>2, <1>3, <1>4

\* Every step of the system moves every row in one of those ways.
LEMMA NextMoves == ASSUME IInv, [Next]_vars, NEW q \in Runs PROVE RowMoves(q)
<1>0. ASSUME UNCHANGED <<status, fence, accepted>> PROVE RowMoves(q)
  BY <1>0 DEF RowMoves, RowStays
<1>1. ASSUME TableNext PROVE RowMoves(q)
  <2>1. ASSUME NEW r \in Runs, NEW a \in 1..MaxAttempt, Enqueue(r, a) PROVE RowMoves(q)
    BY <2>1 DEF Enqueue, RowMoves, RowStays, IInv, TypeOK
  <2>2. ASSUME NEW r \in Runs, Cancel(r) PROVE RowMoves(q)
    <3>1. status[r] \in {"queued", "running"}
      BY <2>2, OutcomesAssumption DEF Cancel, AuthorizedRemote, Terminal, IInv, TypeOK, Statuses
    <3>2. /\ status' = [status EXCEPT ![r] = "cancelled"]
          /\ fence' = [fence EXCEPT ![r] = @ + 1] /\ accepted' = accepted
      BY <2>2 DEF Cancel
    <3> QED
      BY <3>1, <3>2 DEF RowMoves, RowStays, IInv, TypeOK
  <2>3. ASSUME RequeueStale PROVE RowMoves(q)
    BY <2>3 DEF RequeueStale, RowMoves, RowStays
  <2>4. ASSUME PurgeStaleWorkers \/ \E r \in Runs : BeatAges(r) \/ LeaseExpires(r) \/ HeartbeatWorker(r)
        PROVE  RowMoves(q)
    BY <2>4, <1>0 DEF PurgeStaleWorkers, BeatAges, LeaseExpires, HeartbeatWorker, jobVars
  <2> QED
    BY <1>1, <2>1, <2>2, <2>3, <2>4 DEF TableNext
<1>2. ASSUME NEW s \in Slots, SlotNext(s) PROVE RowMoves(q)
  <2>1. ASSUME SlotClaim(s) PROVE RowMoves(q)
    <3>1. CASE \E S \in OldestQueued(1) : ClaimRows(s, S)
      <4>1. PICK S \in OldestQueued(1) : ClaimRows(s, S)
        BY <3>1
      <4>2. S \in SUBSET Runs /\ \A r \in S : status[r] = "queued"
        BY OldestQueuedIsQueued
      <4> QED
        BY <4>1, <4>2, ClaimMoves
    <3> QED
      BY <2>1, <3>1, <1>0 DEF SlotClaim, jobVars
  <2>2. ASSUME NEW c \in held[s], NEW o \in Outcomes, SlotComplete(s, c, o) PROVE RowMoves(q)
    BY <2>2, <1>0, CompleteMoves DEF SlotComplete, jobVars
  <2>3. ASSUME SlotRegister(s) \/ SlotDies(s) \/ \E c \in held[s] : SlotSubmit(s, c) \/ SlotHeartbeat(s, c)
        PROVE  RowMoves(q)
    BY <2>3, <1>0 DEF SlotRegister, SlotDies, SlotSubmit, SlotHeartbeat, HeartbeatRow, jobVars
  <2> QED
    BY <1>2, <2>1, <2>2, <2>3 DEF SlotNext
<1>3. ASSUME NEW w \in Remotes, RemoteNext(w) PROVE RowMoves(q)
  <2>1. ASSUME NEW S \in SUBSET Runs, RemoteClaim(w, S) PROVE RowMoves(q)
    BY <2>1, OldestQueuedIsQueued, ClaimMoves DEF RemoteClaim
  <2>2. ASSUME NEW c \in held[w], RemoteHeartbeat(w, c) PROVE RowMoves(q)
    BY <2>2, <1>0 DEF RemoteHeartbeat, HeartbeatRow
  <2>3. ASSUME NEW c \in held[w], NEW o \in Outcomes, RemoteComplete(w, c, o) PROVE RowMoves(q)
    BY <2>3, CompleteMoves DEF RemoteComplete
  <2> QED
    BY <1>3, <2>1, <2>2, <2>3 DEF RemoteNext
<1>4. ASSUME Restart \/ (\E w \in Workers : WorkerAges(w)) \/ UNCHANGED vars PROVE RowMoves(q)
  BY <1>4, <1>0 DEF Restart, WorkerAges, vars, jobVars
<1> QED
  BY <1>1, <1>2, <1>3, <1>4 DEF Next

\* For any number of runs, slots and external workers, the result a job ends
\* with was sent by the holder of the epoch it closed in.
THEOREM FleetOnlyHolder == Spec => []OnlyHolderAccepts
<1>1. IInv => OnlyHolderAccepts
  BY DEF IInv
<1> QED
  BY <1>1, FleetInvariant, PTL

\* The job table, its workers, sweeps and restarts together implement the
\* one-decision-per-run contract.
THEOREM FleetImplements == Spec => ImplementsFencedJob
<1> DEFINE Ph(st) == CASE st = "absent"  -> "none"
                       [] st = "queued"  -> "open"
                       [] st = "running" -> "granted"
                       [] OTHER          -> "closed"
           row(r) == [phase |-> Ph(status[r]), epoch |-> fence[r],
                      result |-> IF accepted[r] THEN status[r] ELSE "none"]
           bar == [r \in Runs |-> row(r)]
<1>1. Init => Promise!Init
  BY DEF Init, Promise!Init, Promise!At
<1>3. ASSUME IInv, IInv', [Next]_vars PROVE [Promise!Next]_bar
  <2>1. bar' \in [Runs -> Promise!Cell]
    <3>1. ASSUME NEW r \in Runs PROVE row(r)' \in Promise!Cell
      BY <1>3 DEF IInv, TypeOK, AcceptedIffResult, Promise!Cell
    <3> QED
      BY <3>1
  <2>2. ASSUME NEW r \in Runs PROVE row(r)' = row(r) \/ Promise!Move(row(r), row(r)')
    <3>1. RowMoves(r) /\ (accepted[r] <=> status[r] \in Outcomes) /\ accepted[r] \in BOOLEAN
      BY <1>3, NextMoves DEF IInv, AcceptedIffResult, TypeOK
    <3>2. CASE RowStays(r)
      BY <3>2 DEF RowStays
    <3>3. CASE status[r] = "absent" /\ status'[r] = "queued" /\ fence'[r] = fence[r] /\ (accepted'[r] <=> accepted[r])
      BY <3>1, <3>3, OutcomesAssumption DEF Promise!Move, Promise!Register, Promise!At
    <3>4. CASE status[r] = "queued" /\ status'[r] = "running" /\ fence'[r] = fence[r] + 1 /\ (accepted'[r] <=> accepted[r])
      <4>1. row(r) = [phase |-> "open", epoch |-> fence[r], result |-> "none"]
        BY <3>1, <3>4, OutcomesAssumption
      <4>2. row(r)' = [phase |-> "granted", epoch |-> fence[r] + 1, result |-> "none"]
        BY <3>1, <3>4, OutcomesAssumption
      <4>3. Promise!Grant(row(r), row(r)')
        BY <4>1, <4>2, <3>4 DEF Promise!Grant, Promise!At
      <4> QED
        BY <4>3 DEF Promise!Move
    <3>5. CASE status[r] = "running" /\ status'[r] = "queued" /\ fence'[r] = fence[r] + 1 /\ (accepted'[r] <=> accepted[r])
      <4>1. row(r) = [phase |-> "granted", epoch |-> fence[r], result |-> "none"]
        BY <3>1, <3>5, OutcomesAssumption
      <4>2. row(r)' = [phase |-> "open", epoch |-> fence[r] + 1, result |-> "none"]
        BY <3>1, <3>5, OutcomesAssumption
      <4>3. Promise!Revoke(row(r), row(r)')
        BY <4>1, <4>2, <3>5 DEF Promise!Revoke, Promise!At
      <4> QED
        BY <4>3 DEF Promise!Move
    <3>6. CASE /\ status[r] \in {"queued", "running"} /\ status'[r] = "cancelled"
               /\ fence'[r] = fence[r] + 1 /\ (accepted'[r] <=> accepted[r])
      <4>1. row(r) = [phase |-> Ph(status[r]), epoch |-> fence[r], result |-> "none"]
        BY <3>1, <3>6, OutcomesAssumption
      <4>2. row(r)' = [phase |-> "closed", epoch |-> fence[r] + 1, result |-> "none"]
        BY <3>1, <3>6, OutcomesAssumption
      <4>3. Promise!Kill(row(r), row(r)')
        BY <4>1, <4>2, <3>6 DEF Promise!Kill, Promise!At
      <4> QED
        BY <4>3 DEF Promise!Move
    <3>7. CASE status[r] = "running" /\ status'[r] \in Outcomes /\ fence'[r] = fence[r] /\ accepted'[r]
      <4>1. row(r) = [phase |-> "granted", epoch |-> fence[r], result |-> "none"]
        BY <3>1, <3>7, OutcomesAssumption
      <4>2. row(r)' = [phase |-> "closed", epoch |-> fence[r], result |-> status'[r]]
        BY <3>1, <3>7, OutcomesAssumption
      <4>3. Promise!Accept(row(r), row(r)')
        BY <4>1, <4>2, <3>7 DEF Promise!Accept, Promise!At
      <4> QED
        BY <4>3 DEF Promise!Move
    <3> QED
      BY <3>1, <3>2, <3>3, <3>4, <3>5, <3>6, <3>7 DEF RowMoves
  <2> QED
    BY <2>1, <2>2 DEF Promise!Next
<1> QED
  BY <1>1, <1>3, FleetInvariant, PTL DEF Spec, ImplementsFencedJob, Promise!Spec
=============================================================================
