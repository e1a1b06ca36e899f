----------------------------- MODULE RelayProofs -----------------------------
(***************************************************************************)
(* Theorems about Relay for any events, drainers, batch sizes and          *)
(* checkpoint intervals.  Hashes and signatures are left unexpanded: the   *)
(* chain verifies whatever EntryHash and Sign are.                         *)
(***************************************************************************)
EXTENDS Relay, TLAPS, FiniteSetTheorems, SequenceTheorems, WellFoundedInduction

\* A chain of entries with seqs 1, 2, ...
ChainOK(led) ==
    /\ led \in Seq(Range(led))
    /\ \A i \in 1..Len(led) :
          /\ led[i].seq = i /\ led[i].id \in Events
          /\ led[i].hash = EntryHash(led[i].seq, led[i].id, led[i].prev)
          /\ i > 1 => led[i].prev = led[i - 1].hash

CheckpointsOK ==
    /\ \A c \in checkpoints : c.sig = Sign(c.seq, c.hash)
    /\ \A b \in 1..Len(ledger) : b % CheckpointInterval = 0 =>
          \E c \in checkpoints : c.seq = b /\ c.hash = ledger[b].hash

OutboxRow == [event : Events, status : Statuses, attempts : Nat, due : BOOLEAN]
\* A row that may be claimed again has an attempt left.
RowsOK ==
    /\ outbox \in Seq(OutboxRow) /\ Len(outbox) = Len(ledger)
    /\ \A i \in 1..Len(outbox) :
          /\ outbox[i].attempts <= MaxAttempts
          /\ outbox[i].status = "pending" => outbox[i].attempts < MaxAttempts
HandsOK ==
    /\ hand \in [Drainers -> Seq(Nat)] /\ outcome \in [Drainers -> Outcomes] /\ processed \subseteq Events
    /\ \A t \in Drainers : \A k \in 1..Len(hand[t]) : hand[t][k] \in 1..Len(outbox)
    /\ \A t \in Drainers : outcome[t] # "none" => hand[t] # <<>>

RelayIInv == alarm = FALSE /\ ChainOK(ledger) /\ CheckpointsOK /\ RowsOK /\ HandsOK /\ NoDoubleClaim

----------------------------------------------------------------------------

\* Induction over the naturals, by sets (0..n is a smallest counterexample).
LEMMA NatSetInduction ==
    ASSUME NEW S \in SUBSET Nat, 0 \in S, \A n \in S : n + 1 \in S
    PROVE  S = Nat
<1> DEFINE T == {0..n : n \in Nat \ S}
           R == StrictSubsetOrdering(Nat)
<1>1. SUFFICES ASSUME Nat \ S # {} PROVE FALSE
  OBVIOUS
<1>2. T # {}
  BY <1>1
<1>3. T \subseteq FiniteSubsetsOf(Nat)
  <2> SUFFICES ASSUME NEW n \in Nat PROVE 0..n \in FiniteSubsetsOf(Nat)
    OBVIOUS
  <2>1. IsFiniteSet(0..n)
    BY FS_Interval
  <2> QED
    BY <2>1 DEF FiniteSubsetsOf
<1>4. IsWellFoundedOn(R, FiniteSubsetsOf(Nat))
  BY FS_StrictSubsetOrderingWellFounded
<1> HIDE DEF R, T
<1>5. PICK x \in T : \A y \in T : ~(<<y, x>> \in R)
  BY <1>2, <1>3, <1>4, WFMin
<1> USE DEF T, R
<1>6. PICK n \in Nat \ S : x = 0..n
  OBVIOUS
<1>7. n # 0 /\ n - 1 \in Nat /\ n - 1 \notin S
  <2>1. n - 1 \in Nat
    OBVIOUS
  <2>2. (n - 1) + 1 = n
    OBVIOUS
  <2> QED
    BY <2>1, <2>2
<1>8. 0..(n - 1) \in T
  BY <1>7
<1>9. <<0..(n - 1), 0..n>> \in R
  <2>1. 0..(n - 1) \in SUBSET Nat /\ 0..n \in SUBSET Nat /\ 0..(n - 1) \subseteq 0..n
    OBVIOUS
  <2>2. n \in 0..n /\ n \notin 0..(n - 1)
    OBVIOUS
  <2> QED
    BY <2>1, <2>2 DEF StrictSubsetOrdering
<1> QED
  BY <1>5, <1>6, <1>8, <1>9

\* One turn of the loop of AppendEventsTx.
LEMMA GrowChains ==
    ASSUME NEW led, ChainOK(led), NEW e \in Events
    PROVE  /\ ChainOK(Grow(led, e)) /\ Len(Grow(led, e)) = Len(led) + 1
           /\ \A i \in 1..Len(led) : Grow(led, e)[i] = led[i]
<1>0. PICK n \in Nat : n = Len(led) /\ led \in Seq(Range(led))
  BY DEF ChainOK
<1>1. PICK prev : prev = IF led = <<>> THEN Genesis ELSE Last(led).hash
  OBVIOUS
<1>2. PICK new : new = [seq |-> n + 1, id |-> e, prev |-> prev, hash |-> EntryHash(n + 1, e, prev)]
  OBVIOUS
<1>3. new.seq = n + 1 /\ new.id = e /\ new.prev = prev /\ new.hash = EntryHash(new.seq, new.id, new.prev)
  BY <1>2
<1>4. PICK g : g = Grow(led, e) /\ g = Append(led, new)
  BY <1>0, <1>1, <1>2 DEF Grow
<1>5. PICK S : S = Range(led) \cup {new}
  OBVIOUS
<1>6. g \in Seq(S) /\ Len(g) = n + 1 /\ g[n + 1] = new /\ \A i \in 1..n : g[i] = led[i]
  <2>1. led \in Seq(S) /\ new \in S
    BY <1>0, <1>5
  <2> QED
    BY <1>0, <1>4, <2>1
<1>7. g \in Seq(Range(g))
  <2>1. \A i \in 1..Len(g) : g[i] \in Range(g)
    BY <1>6 DEF Range
  <2> QED
    BY <1>6, <2>1
<1>8. ASSUME NEW i \in 1..(n + 1)
      PROVE  /\ g[i].seq = i /\ g[i].id \in Events
             /\ g[i].hash = EntryHash(g[i].seq, g[i].id, g[i].prev)
             /\ i > 1 => g[i].prev = g[i - 1].hash
  <2>1. CASE i = n + 1
    <3>1. n > 0 => led # <<>> /\ n \in 1..n /\ (n + 1) - 1 = n
      BY <1>0
    <3>2. n > 0 => g[i].prev = g[i - 1].hash
      BY <1>0, <1>1, <1>3, <1>6, <2>1, <3>1 DEF Last
    <3> QED
      BY <1>0, <1>3, <1>6, <2>1, <3>2
  <2>2. CASE i # n + 1
    <3>1. i \in 1..n /\ (i > 1 => i - 1 \in 1..n)
      BY <1>0, <2>2
    <3> QED
      BY <1>0, <1>6, <3>1 DEF ChainOK
  <2> QED
    BY <2>1, <2>2
<1> QED
  BY <1>0, <1>4, <1>6, <1>7, <1>8 DEF ChainOK

\* The loop's values exist: grown is a function.
LEMMA GrownExists ==
    ASSUME NEW led, NEW evs, NEW N \in Nat
    PROVE  \E g : g = [n \in 0..N |-> IF n = 0 THEN led ELSE Grow(g[n - 1], evs[n])]
<1> DEFINE S == {m \in Nat : \E g : g = [n \in 0..m |-> IF n = 0 THEN led ELSE Grow(g[n - 1], evs[n])]}
<1>1. 0 \in S
  <2> DEFINE g == [n \in 0..0 |-> led]
  <2>1. g = [n \in 0..0 |-> IF n = 0 THEN led ELSE Grow(g[n - 1], evs[n])]
    OBVIOUS
  <2> HIDE DEF g
  <2> QED
    BY <2>1
<1>2. ASSUME NEW m \in S PROVE m + 1 \in S
  <2>1. PICK g : g = [n \in 0..m |-> IF n = 0 THEN led ELSE Grow(g[n - 1], evs[n])]
    OBVIOUS
  <2>2. m \in Nat
    OBVIOUS
  <2>3. /\ \A n \in 0..m : n = 0 => g[n] = led
        /\ \A n \in 0..m : n # 0 => g[n] = Grow(g[n - 1], evs[n])
    BY <2>1
  <2> DEFINE h == [n \in 0..(m + 1) |-> IF n <= m THEN g[n] ELSE Grow(g[m], evs[m + 1])]
  <2>4. ASSUME NEW n \in 0..(m + 1) PROVE h[n] = IF n = 0 THEN led ELSE Grow(h[n - 1], evs[n])
    <3>1. CASE n = 0
      BY <2>2, <2>3, <3>1
    <3>2. CASE n # 0 /\ n <= m
      <4>1. n \in 0..m /\ n - 1 \in 0..(m + 1) /\ n - 1 <= m
        BY <2>2, <3>2
      <4>2. h[n] = g[n] /\ h[n - 1] = g[n - 1]
        BY <2>2, <3>2, <4>1
      <4> QED
        BY <2>3, <3>2, <4>1, <4>2
    <3>3. CASE n = m + 1
      <4>1. n - 1 = m /\ n # 0 /\ m \in 0..(m + 1) /\ ~(n <= m)
        BY <2>2, <3>3
      <4>2. h[n] = Grow(g[m], evs[n]) /\ h[m] = g[m]
        BY <2>2, <3>3, <4>1
      <4> QED
        BY <4>1, <4>2
    <3> QED
      BY <2>2, <3>1, <3>2, <3>3
  <2>5. h = [n \in 0..(m + 1) |-> IF n = 0 THEN led ELSE Grow(h[n - 1], evs[n])]
    <3>1. PICK k : k = [n \in 0..(m + 1) |-> IF n = 0 THEN led ELSE Grow(h[n - 1], evs[n])]
      OBVIOUS
    <3>2. \A n \in 0..(m + 1) : h[n] = k[n]
      BY <2>4, <3>1
    <3>3. DOMAIN h = 0..(m + 1) /\ DOMAIN k = 0..(m + 1)
      BY <3>1
    <3>4. h = [n \in 0..(m + 1) |-> h[n]] /\ k = [n \in 0..(m + 1) |-> k[n]]
      BY <3>1
    <3> HIDE DEF h
    <3> QED
      BY <3>1, <3>2, <3>4
  <2> HIDE DEF h
  <2>6. m + 1 \in Nat
    BY <2>2
  <2> QED
    BY <2>5, <2>6
<1>3. S \subseteq Nat
  OBVIOUS
<1> HIDE DEF S
<1>4. S = Nat
  BY <1>1, <1>2, <1>3, NatSetInduction
<1> QED
  BY <1>4 DEF S

\* AppendEventsTx extends the chain by its events, in order.
LEMMA ChainedChains ==
    ASSUME NEW led, ChainOK(led), NEW N \in Nat, NEW evs \in [1..N -> Events], Len(evs) = N
    PROVE  /\ ChainOK(Chained(led, evs)) /\ Len(Chained(led, evs)) = Len(led) + N
           /\ \A i \in 1..Len(led) : Chained(led, evs)[i] = led[i]
<1> DEFINE grown == CHOOSE g : g = [n \in 0..N |-> IF n = 0 THEN led ELSE Grow(g[n - 1], evs[n])]
<1>1. grown = [n \in 0..N |-> IF n = 0 THEN led ELSE Grow(grown[n - 1], evs[n])]
  BY GrownExists
<1>2. Chained(led, evs) = grown[N]
  BY DEF Chained
<1> HIDE DEF grown
<1>3. /\ \A n \in 0..N : n = 0 => grown[n] = led
      /\ \A n \in 0..N : n # 0 => grown[n] = Grow(grown[n - 1], evs[n])
  BY <1>1
<1> DEFINE OK(n) == /\ ChainOK(grown[n]) /\ Len(grown[n]) = Len(led) + n
                    /\ \A i \in 1..Len(led) : grown[n][i] = led[i]
           S == {n \in Nat : n <= N => OK(n)}
<1>0. PICK m \in Nat : m = Len(led)
  BY DEF ChainOK
<1>4. 0 \in S
  <2>1. grown[0] = led
    BY <1>3
  <2> QED
    BY <1>0, <2>1
<1>5. ASSUME NEW n \in S PROVE n + 1 \in S
  <2>0. n \in Nat /\ n + 1 \in Nat /\ (n <= N => OK(n))
    OBVIOUS
  <2>1. CASE n + 1 <= N
    <3>1. OK(n) /\ n + 1 \in 0..N /\ n + 1 \in 1..N /\ (n + 1) - 1 = n /\ n + 1 # 0
      BY <2>0, <2>1
    <3>2. grown[n + 1] = Grow(grown[n], evs[n + 1]) /\ evs[n + 1] \in Events
      BY <1>3, <3>1
    <3>3. PICK a, b : a = grown[n] /\ b = grown[n + 1]
      OBVIOUS
    <3>8. PICK e \in Events : e = evs[n + 1]
      BY <3>2
    <3>4. /\ ChainOK(b) /\ Len(b) = Len(a) + 1 /\ \A i \in 1..Len(a) : b[i] = a[i]
      <4>1. ChainOK(a) /\ b = Grow(a, e)
        BY <3>1, <3>2, <3>3, <3>8
      <4> QED
        BY <4>1, GrowChains
    <3>5. Len(a) = m + n /\ \A i \in 1..m : a[i] = led[i]
      BY <1>0, <3>1, <3>3
    <3>6. Len(b) = m + (n + 1) /\ \A i \in 1..m : b[i] = led[i]
      BY <2>0, <3>4, <3>5
    <3>7. OK(n + 1)
      BY <1>0, <3>3, <3>4, <3>6
    <3> HIDE DEF OK
    <3> QED
      BY <2>0, <3>7
  <2>2. CASE ~(n + 1 <= N)
    BY <2>0, <2>2
  <2> QED
    BY <2>1, <2>2
<1>6. S \subseteq Nat
  OBVIOUS
<1> HIDE DEF OK
<1>7. \A n \in S : n <= N => OK(n)
  OBVIOUS
<1> HIDE DEF S
<1>8. S = Nat
  BY <1>4, <1>5, <1>6, NatSetInduction
<1>9. OK(N)
  BY <1>7, <1>8
<1> QED
  BY <1>2, <1>9 DEF OK

\* A multiple of c above q * c + r is one of c * (q + 1), c * (q + 2), ...
LEMMA NextMultiples ==
    ASSUME NEW c \in Nat \ {0}, NEW from \in Nat, NEW b \in Nat, from < b, b % c = 0,
           NEW first, first = (from \div c + 1) * c
    PROVE  first \in Nat /\ first <= b /\ (b - first) % c = 0
<1>1. PICK q \in Nat : q = from \div c /\ from < (q + 1) * c
  OBVIOUS
<1>2. PICK m \in Nat : m = b \div c /\ b = m * c
  OBVIOUS
<1>3. m >= q + 1
  <2> SUFFICES ASSUME m <= q PROVE FALSE
    BY <1>1, <1>2
  <2> QED
    BY <1>1, <1>2
<1>4. PICK k \in Nat : k = m - (q + 1)
  BY <1>3
<1>5. b - first = k * c
  BY <1>1, <1>2, <1>4
<1>6. first \in Nat /\ first <= b
  BY <1>1, <1>2, <1>4, <1>5
<1>7. (k * c) % c = 0
  OBVIOUS
<1> QED
  BY <1>5, <1>6, <1>7

----------------------------------------------------------------------------

\* AppendEventsTx keeps the chain verifiable, checkpoints every boundary it
\* crosses, and gives every entry its outbox row.
LEMMA AppendKeeps ==
    ASSUME RelayIInv, SomeTransaction
    PROVE  RelayIInv'
<1>0. PICK N \in Nat : \E evs \in [1..N -> Events] : AppendEvents(evs)
  <2>1. PICK N \in 1..MaxTx : \E evs \in [1..N -> Fresh] : AppendEvents(evs)
    BY DEF SomeTransaction
  <2>2. PICK evs \in [1..N -> Fresh] : AppendEvents(evs)
    BY <2>1
  <2>3. evs \in [1..N -> Events] /\ N \in Nat
    BY RelayConstants DEF Fresh
  <2> QED
    BY <2>2, <2>3
<1>1. PICK evs \in [1..N -> Events] : AppendEvents(evs)
  BY <1>0
<1>2. Len(evs) = N /\ evs \in Seq(Events)
  OBVIOUS
<1>3. PICK led : led = Chained(ledger, evs)
  OBVIOUS
<1>4. PICK from \in Nat, to \in Nat : from = Len(ledger) /\ to = from + N
  BY DEF RelayIInv, ChainOK
<1>5. ChainOK(led) /\ Len(led) = to /\ \A i \in 1..from : led[i] = ledger[i]
  BY <1>2, <1>3, <1>4, ChainedChains DEF RelayIInv
<1>6. ledger' = led /\ UNCHANGED <<alarm, processed, hand, outcome>>
  BY <1>1, <1>3 DEF AppendEvents
<1>7. ChainOK(ledger)'
  BY <1>5, <1>6 DEF ChainOK
<1>8. CheckpointsOK'
  <2> DEFINE new == {[seq |-> b, hash |-> led[b].hash, sig |-> Sign(b, led[b].hash)] : b \in Boundaries(from, to)}
  <2>1. checkpoints' = checkpoints \cup new
    BY <1>1, <1>3, <1>4, <1>5 DEF AppendEvents
  <2>2. \A c \in new : c.sig = Sign(c.seq, c.hash)
    OBVIOUS
  <2>3. ASSUME NEW b \in 1..to, b % CheckpointInterval = 0
        PROVE  \E c \in checkpoints' : c.seq = b /\ c.hash = led[b].hash
    <3>1. CASE b <= from
      <4>1. b \in 1..from
        BY <1>4, <3>1
      <4> QED
        BY <1>4, <1>5, <2>1, <2>3, <4>1 DEF RelayIInv, CheckpointsOK
    <3>2. CASE ~(b <= from)
      <4>1. b \in Boundaries(from, to)
        <5>1. PICK first : first = (from \div CheckpointInterval + 1) * CheckpointInterval
          OBVIOUS
        <5>2. b \in Nat /\ from < b /\ CheckpointInterval \in Nat \ {0}
          BY <1>4, <3>2, RelayConstants
        <5>3. first \in Nat /\ first <= b /\ (b - first) % CheckpointInterval = 0
          <6>1. PICK c \in Nat \ {0} : c = CheckpointInterval
            BY <5>2
          <6>2. b % c = 0 /\ first = (from \div c + 1) * c
            BY <2>3, <5>1, <6>1
          <6>3. PICK x \in Nat : x = b /\ x % c = 0 /\ from < x
            BY <5>2, <6>2
          <6>4. first \in Nat /\ first <= x /\ (x - first) % c = 0
            BY <6>2, <6>3, NextMultiples, ZenonT(30)
          <6> QED
            BY <6>1, <6>3, <6>4
        <5>4. b \in first..to
          BY <1>4, <5>3
        <5> QED
          <6>1. Boundaries(from, to) = {x \in first..to : (x - first) % CheckpointInterval = 0}
            BY <5>1 DEF Boundaries
          <6> QED
            BY <5>3, <5>4, <6>1
      <4>2. PICK c \in new : c = [seq |-> b, hash |-> led[b].hash, sig |-> Sign(b, led[b].hash)]
        BY <4>1
      <4>3. c.seq = b /\ c.hash = led[b].hash /\ c \in checkpoints'
        BY <2>1, <4>2
      <4> QED
        BY <4>3
    <3> QED
      BY <3>1, <3>2
  <2>4. \A c \in checkpoints' : c.sig = Sign(c.seq, c.hash)
    <3> HIDE DEF new
    <3> QED
      BY <2>1, <2>2 DEF RelayIInv, CheckpointsOK
  <2> HIDE DEF new
  <2> QED
    BY <1>5, <1>6, <2>3, <2>4 DEF CheckpointsOK
<1>9. PICK add : add = [i \in 1..Len(evs) |-> [event |-> evs[i], status |-> "pending", attempts |-> 0, due |-> TRUE]]
  OBVIOUS
<1>10. ASSUME NEW i \in 1..N PROVE add[i] \in OutboxRow /\ add[i].attempts = 0
  <2>1. PICK e \in Events : e = evs[i]
    OBVIOUS
  <2>2. PICK r : r = [event |-> e, status |-> "pending", attempts |-> 0, due |-> TRUE]
    OBVIOUS
  <2>3. r \in OutboxRow /\ r.attempts = 0
    BY <2>2 DEF OutboxRow, Statuses
  <2> QED
    BY <1>2, <1>9, <2>1, <2>2, <2>3
<1>11. add \in Seq(OutboxRow) /\ Len(add) = N
  <2>1. add \in [1..N -> OutboxRow]
    BY <1>2, <1>9, <1>10
  <2> QED
    BY <2>1
<1>12. outbox \in Seq(OutboxRow) /\ Len(outbox) = from
  BY <1>4 DEF RelayIInv, RowsOK
<1>13. /\ outbox' \in Seq(OutboxRow) /\ Len(outbox') = to
       /\ \A i \in 1..from : outbox'[i] = outbox[i]
       /\ \A i \in 1..to : i > from => outbox'[i] = add[i - from]
  <2>1. outbox' = outbox \o add
    BY <1>1, <1>9 DEF AppendEvents
  <2>2. PICK q \in Seq(OutboxRow) : q = outbox
    BY <1>12
  <2>3. /\ q \o add \in Seq(OutboxRow) /\ Len(q \o add) = Len(q) + Len(add)
        /\ \A i \in 1..(Len(q) + Len(add)) : (q \o add)[i] = IF i <= Len(q) THEN q[i] ELSE add[i - Len(q)]
    BY <1>11, ConcatProperties
  <2> QED
    BY <1>4, <1>11, <1>12, <2>1, <2>2, <2>3
<1>14. ASSUME NEW i \in 1..to
       PROVE  outbox'[i].attempts <= MaxAttempts /\ (outbox'[i].status = "pending" => outbox'[i].attempts < MaxAttempts)
  <2>1. CASE i <= from
    <3>1. i \in 1..from
      BY <1>4, <2>1
    <3> QED
      BY <1>12, <1>13, <3>1 DEF RelayIInv, RowsOK
  <2>2. CASE ~(i <= from)
    <3>1. PICK k \in 1..N : k = i - from
      BY <1>4, <2>2
    <3>2. outbox'[i] = add[k]
      BY <1>4, <1>13, <2>2, <3>1
    <3>3. MaxAttempts \in Nat \ {0}
      BY RelayConstants
    <3> QED
      BY <1>10, <3>2, <3>3
  <2> QED
    BY <2>1, <2>2
<1>15. RowsOK'
  BY <1>5, <1>6, <1>13, <1>14 DEF RowsOK
<1>16. HandsOK'
  BY <1>4, <1>6, <1>12, <1>13 DEF RelayIInv, HandsOK
<1>17. NoDoubleClaim'
  <2>1. \A t \in Drainers : \A k \in 1..Len(hand[t]) : outbox'[hand[t][k]].status = "delivering"
    <3>1. ASSUME NEW t \in Drainers, NEW k \in 1..Len(hand[t]) PROVE outbox'[hand[t][k]].status = "delivering"
      <4>1. hand[t][k] \in 1..from /\ outbox[hand[t][k]].status = "delivering"
        BY <1>12 DEF RelayIInv, HandsOK, NoDoubleClaim
      <4> QED
        BY <1>13, <4>1
    <3> QED
      BY <3>1
  <2> QED
    BY <1>6, <2>1 DEF RelayIInv, NoDoubleClaim
<1> QED
  BY <1>6, <1>7, <1>8, <1>15, <1>16, <1>17 DEF RelayIInv

\* Scheduler.RunOnce finds nothing.
LEMMA VerifyKeeps ==
    ASSUME RelayIInv, VerifyRunOnce
    PROVE  RelayIInv'
<1>1. UNCHANGED <<ledger, checkpoints, outbox, processed, hand, outcome>>
  BY DEF VerifyRunOnce, relayVars
<1>2. Verify(ledger, checkpoints)
  BY DEF RelayIInv, ChainOK, CheckpointsOK, Verify
<1>3. alarm' = FALSE
  BY <1>2 DEF VerifyRunOnce, RelayIInv
<1> QED
  BY <1>1, <1>3 DEF RelayIInv, ChainOK, CheckpointsOK, RowsOK, HandsOK, NoDoubleClaim

\* Steps that leave the ledger alone.
LEMMA LedgerFrame ==
    ASSUME RelayIInv, UNCHANGED ledgerVars, RowsOK', HandsOK', NoDoubleClaim'
    PROVE  RelayIInv'
BY DEF RelayIInv, ledgerVars, ChainOK, CheckpointsOK

\* A row is rewritten.
LEMMA RowSet ==
    ASSUME RelayIInv, UNCHANGED ledgerVars, NEW i \in 1..Len(outbox), NEW status \in Statuses, NEW due \in BOOLEAN,
           status = "pending" => outbox[i].attempts < MaxAttempts,
           outbox' = SetRow(i, status, due)
    PROVE  /\ RowsOK' /\ Len(outbox') = Len(outbox)
           /\ outbox'[i].status = status /\ outbox'[i].event = outbox[i].event
           /\ \A k \in 1..Len(outbox) : k # i => outbox'[k] = outbox[k]
<1>0. PICK n \in Nat : n = Len(outbox) /\ outbox \in Seq(OutboxRow)
  BY DEF RelayIInv, RowsOK
<1>1. PICK r \in OutboxRow : r = outbox[i]
  BY <1>0
<1>2. PICK new : new = [r EXCEPT !.status = status, !.due = due]
  OBVIOUS
<1>3. new \in OutboxRow /\ new.status = status /\ new.event = r.event /\ new.attempts = r.attempts
  BY <1>2 DEF OutboxRow
<1>4. outbox' = [outbox EXCEPT ![i] = new]
  BY <1>1, <1>2 DEF SetRow
<1>5. outbox' \in Seq(OutboxRow) /\ Len(outbox') = n /\ outbox'[i] = new /\ \A k \in 1..n : k # i => outbox'[k] = outbox[k]
  BY <1>0, <1>3, <1>4
<1>6. RowsOK'
  BY <1>0, <1>1, <1>3, <1>5 DEF RelayIInv, RowsOK, ledgerVars
<1> QED
  BY <1>0, <1>1, <1>3, <1>5, <1>6

\* A claim: the rows were in nobody's hand, being pending.
LEMMA ClaimKeeps ==
    ASSUME RelayIInv, NEW t \in Drainers, ClaimOutboxBatch(t)
    PROVE  RelayIInv'
<1>0. PICK n \in Nat : n = Len(outbox) /\ outbox \in Seq(OutboxRow)
  BY DEF RelayIInv, RowsOK
<1>1. PICK rows \in FirstRows(Claimable) :
         /\ hand' = [hand EXCEPT ![t] = rows]
         /\ outbox' = [i \in 1..Len(outbox) |->
                IF i \in Range(rows) THEN [outbox[i] EXCEPT !.status = "delivering", !.attempts = @ + 1] ELSE outbox[i]]
  BY DEF ClaimOutboxBatch
<1>2. UNCHANGED ledgerVars /\ UNCHANGED <<processed, outcome>> /\ hand[t] = <<>>
  BY DEF ClaimOutboxBatch
<1>3. PICK S \in SUBSET Claimable : rows \in SetToSeqs(S)
  BY DEF FirstRows
<1>4. PICK m \in Nat : /\ rows \in [1..m -> S] /\ \A i, j \in 1..m : i # j => rows[i] # rows[j]
  <2>1. IsFiniteSet(1..n)
    BY FS_Interval
  <2>2. IsFiniteSet(S)
    BY <1>0, <2>1, FS_Subset DEF Claimable
  <2>3. Cardinality(S) \in Nat
    BY <2>2, FS_CardinalityType
  <2> QED
    BY <1>3, <2>3 DEF SetToSeqs
<1>5. Len(rows) = m /\ rows \in Seq(Nat) /\ \A k \in 1..m : rows[k] \in 1..n /\ outbox[rows[k]].status = "pending"
  BY <1>0, <1>4 DEF Claimable
<1>6. ASSUME NEW i \in 1..n
      PROVE  /\ outbox'[i] \in OutboxRow /\ outbox'[i].attempts <= MaxAttempts
             /\ outbox'[i].status = "pending" => outbox'[i].attempts < MaxAttempts
             /\ outbox'[i].status = IF i \in Range(rows) THEN "delivering" ELSE outbox[i].status
  <2>1. PICK r \in OutboxRow : r = outbox[i] /\ r.attempts <= MaxAttempts /\ (r.status = "pending" => r.attempts < MaxAttempts)
    BY <1>0 DEF RelayIInv, RowsOK
  <2>2. outbox'[i] = IF i \in Range(rows) THEN [r EXCEPT !.status = "delivering", !.attempts = @ + 1] ELSE r
    BY <1>0, <1>1, <2>1
  <2>3. MaxAttempts \in Nat
    BY RelayConstants
  <2>4. CASE i \in Range(rows)
    <3>1. r.status = "pending"
      BY <1>4, <1>5, <2>1, <2>4 DEF Range
    <3>2. PICK a \in Nat : a = r.attempts
      BY DEF OutboxRow
    <3>3. PICK status \in Statuses, c \in Nat : status = "delivering" /\ c = a + 1
      BY DEF Statuses
    <3>4. PICK new \in OutboxRow : new = [r EXCEPT !.status = status, !.attempts = c] /\ new.status = status /\ new.attempts = c
      <4> DEFINE new == [r EXCEPT !.status = status, !.attempts = c]
      <4>1. new \in OutboxRow /\ new.status = status /\ new.attempts = c
        BY DEF OutboxRow
      <4> QED
        BY <4>1
    <3>5. outbox'[i] = new
      BY <2>2, <2>4, <3>2, <3>3, <3>4
    <3> QED
      BY <2>1, <2>3, <2>4, <3>1, <3>2, <3>3, <3>4, <3>5
  <2>5. CASE i \notin Range(rows)
    BY <2>1, <2>2, <2>5
  <2> QED
    BY <2>4, <2>5
<1>7. outbox' \in Seq(OutboxRow) /\ Len(outbox') = n
  <2>1. outbox' \in [1..n -> OutboxRow]
    BY <1>0, <1>1, <1>6
  <2> QED
    BY <2>1
<1>8. RowsOK'
  BY <1>0, <1>2, <1>6, <1>7 DEF RelayIInv, RowsOK, ledgerVars
<1>9. hand' \in [Drainers -> Seq(Nat)] /\ hand'[t] = rows /\ \A u \in Drainers : u # t => hand'[u] = hand[u]
  BY <1>1, <1>5 DEF RelayIInv, HandsOK
<1>10. HandsOK'
  BY <1>0, <1>2, <1>5, <1>7, <1>9 DEF RelayIInv, HandsOK
<1>11. ASSUME NEW u \in Drainers, NEW k \in 1..Len(hand'[u])
       PROVE  /\ outbox'[hand'[u][k]].status = "delivering"
              /\ u # t => hand'[u][k] \notin Range(rows)
  <2>1. CASE u = t
    <3>1. k \in 1..m /\ hand'[u][k] = rows[k] /\ rows[k] \in Range(rows) /\ rows[k] \in 1..n
      BY <1>4, <1>5, <1>9, <1>11, <2>1 DEF Range
    <3> QED
      BY <1>6, <2>1, <3>1
  <2>2. CASE u # t
    <3>1. PICK i \in 1..n : i = hand'[u][k] /\ outbox[i].status = "delivering"
      <4>1. hand'[u] = hand[u] /\ k \in 1..Len(hand[u])
        BY <1>9, <1>11, <2>2
      <4>2. hand[u][k] \in 1..n /\ outbox[hand[u][k]].status = "delivering"
        BY <1>0, <4>1 DEF RelayIInv, HandsOK, NoDoubleClaim
      <4> QED
        BY <4>1, <4>2
    <3>2. i \notin Range(rows)
      BY <1>4, <1>5, <3>1 DEF Range
    <3> QED
      BY <1>6, <2>2, <3>1, <3>2
  <2> QED
    BY <2>1, <2>2
<1>12. ASSUME NEW u \in Drainers, NEW k \in 1..Len(hand'[u]), NEW v \in Drainers, NEW l \in 1..Len(hand'[v]),
              hand'[v][l] = hand'[u][k]
       PROVE  v = u /\ l = k
  <2>1. CASE u = t /\ v = t
    BY <1>4, <1>5, <1>9, <1>12, <2>1
  <2>2. CASE u # t /\ v # t
    <3>1. hand'[u] = hand[u] /\ hand'[v] = hand[v] /\ k \in 1..Len(hand[u]) /\ l \in 1..Len(hand[v])
      BY <1>9, <1>12, <2>2
    <3>2. hand[v][l] = hand[u][k]
      BY <1>12, <3>1
    <3> QED
      BY <3>1, <3>2 DEF RelayIInv, NoDoubleClaim
  <2>3. CASE u = t /\ v # t
    <3>1. hand'[v][l] \notin Range(rows)
      BY <1>11, <1>12, <2>3
    <3>2. hand'[u][k] \in Range(rows)
      BY <1>4, <1>5, <1>9, <1>12, <2>3 DEF Range
    <3> QED
      BY <1>12, <3>1, <3>2
  <2>4. CASE u # t /\ v = t
    <3>1. hand'[u][k] \notin Range(rows)
      BY <1>11, <1>12, <2>4
    <3>2. hand'[v][l] \in Range(rows)
      BY <1>4, <1>5, <1>9, <1>12, <2>4 DEF Range
    <3> QED
      BY <1>12, <3>1, <3>2
  <2> QED
    BY <2>1, <2>2, <2>3, <2>4
<1>13. NoDoubleClaim'
  BY <1>11, <1>12 DEF NoDoubleClaim
<1> QED
  BY <1>2, <1>8, <1>10, <1>13, LedgerFrame

\* What a drainer has in hand first.
LEMMA HandHead ==
    ASSUME RelayIInv, NEW t \in Drainers, hand[t] # <<>>
    PROVE  /\ Head(hand[t]) \in 1..Len(outbox) /\ Head(hand[t]) = hand[t][1] /\ 1 \in 1..Len(hand[t])
           /\ outbox[Head(hand[t])].status = "delivering" /\ Item(t) \in Events
           /\ Tail(hand[t]) \in Seq(Nat)
           /\ \A k \in 1..Len(Tail(hand[t])) : k + 1 \in 1..Len(hand[t]) /\ Tail(hand[t])[k] = hand[t][k + 1]
<1>1. PICK q \in Seq(Nat) : q = hand[t] /\ q # <<>>
  BY DEF RelayIInv, HandsOK
<1>2. /\ Head(q) = q[1] /\ 1 \in 1..Len(q) /\ Tail(q) \in Seq(Nat)
      /\ \A k \in 1..Len(Tail(q)) : k + 1 \in 1..Len(q) /\ Tail(q)[k] = q[k + 1]
  BY <1>1
<1>3. PICK i \in 1..Len(outbox) : i = q[1] /\ outbox[i].status = "delivering"
  BY <1>1, <1>2 DEF RelayIInv, HandsOK, NoDoubleClaim
<1>4. outbox[i] \in OutboxRow
  BY DEF RelayIInv, RowsOK
<1>5. outbox[i].event \in Events
  BY <1>4 DEF OutboxRow
<1> QED
  BY <1>1, <1>2, <1>3, <1>5 DEF Item

\* A drainer is done with its first row, or with its batch.
LEMMA DropKeeps ==
    ASSUME RelayIInv, UNCHANGED ledgerVars, processed' \subseteq Events, NEW t \in Drainers, hand[t] # <<>>,
           NEW rest \in Seq(Nat), rest = Tail(hand[t]) \/ rest = <<>>,
           hand' = [hand EXCEPT ![t] = rest], outcome' = [outcome EXCEPT ![t] = "none"],
           RowsOK', Len(outbox') = Len(outbox),
           \A i \in 1..Len(outbox) : i # Head(hand[t]) => outbox'[i] = outbox[i]
    PROVE  RelayIInv'
<1>1. /\ Head(hand[t]) = hand[t][1] /\ 1 \in 1..Len(hand[t])
      /\ \A k \in 1..Len(rest) : k + 1 \in 1..Len(hand[t]) /\ rest[k] = hand[t][k + 1]
  <2>1. CASE rest = Tail(hand[t])
    BY <2>1, HandHead
  <2>2. CASE rest = <<>>
    <3>1. Len(rest) = 0
      BY <2>2
    <3> QED
      BY <3>1, HandHead
  <2> QED
    BY <2>1, <2>2
<1>2. hand' \in [Drainers -> Seq(Nat)] /\ hand'[t] = rest /\ \A u \in Drainers : u # t => hand'[u] = hand[u]
  BY DEF RelayIInv, HandsOK
<1>3. /\ outcome' \in [Drainers -> Outcomes] /\ outcome'[t] = "none" /\ \A u \in Drainers : u # t => outcome'[u] = outcome[u]
  BY DEF RelayIInv, HandsOK, Outcomes
\* Where a row still in hand was before.
<1>4. ASSUME NEW u \in Drainers, NEW k \in 1..Len(hand'[u])
      PROVE  \E m \in 1..Len(hand[u]) : hand'[u][k] = hand[u][m] /\ (IF u = t THEN m = k + 1 ELSE m = k)
  <2>1. CASE u = t
    BY <1>1, <1>2, <1>4, <2>1
  <2>2. CASE u # t
    BY <1>2, <1>4, <2>2
  <2> QED
    BY <2>1, <2>2
<1>5. ASSUME NEW u \in Drainers, NEW k \in 1..Len(hand'[u])
      PROVE  /\ hand'[u][k] \in 1..Len(outbox) /\ hand'[u][k] # Head(hand[t])
             /\ outbox'[hand'[u][k]].status = "delivering"
  <2>1. PICK m \in 1..Len(hand[u]) : hand'[u][k] = hand[u][m] /\ (IF u = t THEN m = k + 1 ELSE m = k)
    BY <1>4
  <2>2. PICK i \in 1..Len(outbox) : i = hand[u][m] /\ outbox[i].status = "delivering"
    <3>1. hand[u][m] \in 1..Len(outbox)
      BY DEF RelayIInv, HandsOK
    <3>2. outbox[hand[u][m]].status = "delivering"
      BY DEF RelayIInv, NoDoubleClaim
    <3> QED
      BY <3>1, <3>2
  <2>3. k \in Int /\ k >= 1
    <3>1. hand'[u] \in Seq(Nat)
      BY <1>2
    <3> QED
      BY <1>5, <3>1
  <2>4. hand[u][m] # hand[t][1]
    <3> SUFFICES ASSUME hand[u][m] = hand[t][1] PROVE FALSE
      OBVIOUS
    <3>1. u = t /\ m = 1
      BY <1>1 DEF RelayIInv, NoDoubleClaim
    <3> QED
      BY <2>1, <2>3, <3>1
  <2> QED
    BY <1>1, <2>1, <2>2, <2>4
<1>6. HandsOK'
  <2>1. \A u \in Drainers : outcome'[u] # "none" => hand'[u] # <<>>
    BY <1>2, <1>3 DEF RelayIInv, HandsOK
  <2> QED
    BY <1>2, <1>3, <1>5, <2>1 DEF HandsOK
<1>7. ASSUME NEW u \in Drainers, NEW k \in 1..Len(hand'[u]), NEW v \in Drainers, NEW l \in 1..Len(hand'[v]),
             hand'[v][l] = hand'[u][k]
      PROVE  v = u /\ l = k
  <2>1. PICK m \in 1..Len(hand[u]) : hand'[u][k] = hand[u][m] /\ (IF u = t THEN m = k + 1 ELSE m = k)
    BY <1>4
  <2>2. PICK p \in 1..Len(hand[v]) : hand'[v][l] = hand[v][p] /\ (IF v = t THEN p = l + 1 ELSE p = l)
    BY <1>4
  <2>3. hand[v][p] = hand[u][m]
    BY <1>7, <2>1, <2>2
  <2>4. v = u /\ p = m
    BY <2>3 DEF RelayIInv, NoDoubleClaim
  <2>5. k \in Int /\ l \in Int
    <3>1. hand'[u] \in Seq(Nat) /\ hand'[v] \in Seq(Nat)
      BY <1>2
    <3> QED
      BY <1>7, <3>1
  <2> QED
    BY <2>1, <2>2, <2>4, <2>5, SMTT(30)
<1>8. NoDoubleClaim'
  BY <1>5, <1>7 DEF NoDoubleClaim
<1> QED
  BY <1>6, <1>8, LedgerFrame

\* MarkPublished, MarkFailed and a failed UPDATE.
LEMMA MarkKeeps ==
    ASSUME RelayIInv, NEW t \in Drainers, MarkPublished(t) \/ MarkFailed(t) \/ MarkErrors(t)
    PROVE  RelayIInv'
<1>0. /\ UNCHANGED ledgerVars /\ UNCHANGED processed /\ hand[t] # <<>> /\ processed' \subseteq Events
      /\ outcome' = [outcome EXCEPT ![t] = "none"]
  BY DEF MarkPublished, MarkFailed, MarkErrors, Drop, RelayIInv, HandsOK
<1>1. PICK i \in 1..Len(outbox) : i = Head(hand[t])
  BY <1>0, HandHead
<1>2. outbox[i] \in OutboxRow
  BY DEF RelayIInv, RowsOK
<1>3. outbox[i].due \in BOOLEAN /\ outbox[i].attempts \in Nat
  BY <1>2 DEF OutboxRow
<1>4. CASE MarkPublished(t) \/ MarkFailed(t)
  <2>1. PICK status \in Statuses, due \in BOOLEAN :
           outbox' = SetRow(i, status, due) /\ (status = "pending" => outbox[i].attempts < MaxAttempts)
    <3>1. CASE MarkPublished(t)
      <4>1. outbox' = SetRow(i, "published", outbox[i].due) /\ "published" \in Statuses
        BY <1>1, <3>1 DEF MarkPublished, Statuses
      <4> QED
        BY <1>3, <4>1
    <3>2. CASE MarkFailed(t)
      <4>1. outbox' = SetRow(i, IF outbox[i].attempts >= MaxAttempts THEN "failed" ELSE "pending", FALSE)
        BY <1>1, <3>2 DEF MarkFailed
      <4>2. CASE outbox[i].attempts >= MaxAttempts
        BY <4>1, <4>2 DEF Statuses
      <4>3. CASE ~(outbox[i].attempts >= MaxAttempts)
        <5>1. outbox[i].attempts < MaxAttempts
          BY <1>3, <4>3, RelayConstants
        <5> QED
          BY <4>1, <4>3, <5>1 DEF Statuses
      <4> QED
        BY <4>2, <4>3
    <3> QED
      BY <1>4, <3>1, <3>2
  <2>2. RowsOK' /\ Len(outbox') = Len(outbox) /\ \A k \in 1..Len(outbox) : k # i => outbox'[k] = outbox[k]
    BY <1>0, <2>1, RowSet
  <2>3. hand' = [hand EXCEPT ![t] = Tail(hand[t])] /\ Tail(hand[t]) \in Seq(Nat)
    BY <1>0, <1>4, HandHead DEF MarkPublished, MarkFailed, Drop
  <2> QED
    BY <1>0, <1>1, <2>2, <2>3, DropKeeps
<1>5. CASE MarkErrors(t)
  <2>1. UNCHANGED outbox /\ hand' = [hand EXCEPT ![t] = <<>>] /\ <<>> \in Seq(Nat)
    BY <1>5 DEF MarkErrors
  <2>2. RowsOK'
    BY <1>0, <2>1 DEF RelayIInv, RowsOK, ledgerVars
  <2> QED
    BY <1>0, <2>1, <2>2, DropKeeps
<1> QED
  BY <1>4, <1>5

\* The handlers say something of the row in hand.
LEMMA AnswerKeeps ==
    ASSUME RelayIInv, UNCHANGED <<ledgerVars, outbox, hand>>, processed' \subseteq Events,
           NEW t \in Drainers, AtHandlers(t), NEW said \in {"ok", "error"}, outcome' = [outcome EXCEPT ![t] = said]
    PROVE  RelayIInv'
<1>1. UNCHANGED <<outbox, hand>> /\ UNCHANGED ledgerVars
  OBVIOUS
<1>2. outcome' \in [Drainers -> Outcomes] /\ \A u \in Drainers : u # t => outcome'[u] = outcome[u]
  BY DEF RelayIInv, HandsOK, Outcomes
<1>3. HandsOK'
  BY <1>1, <1>2 DEF RelayIInv, HandsOK, AtHandlers
<1>4. RowsOK' /\ NoDoubleClaim'
  BY <1>1 DEF RelayIInv, RowsOK, NoDoubleClaim, ledgerVars
<1> QED
  BY <1>1, <1>3, <1>4, LedgerFrame

\* drainOnce's local handlers.
LEMMA HandleKeeps ==
    ASSUME RelayIInv, NEW t \in Drainers, HandleLocally(t)
    PROVE  RelayIInv'
<1>1. UNCHANGED <<ledgerVars, outbox, hand>> /\ AtHandlers(t)
  BY DEF HandleLocally
<1>2. Item(t) \in Events
  BY <1>1, HandHead DEF AtHandlers
<1>3. processed' \subseteq Events
  BY <1>2 DEF HandleLocally, RelayIInv, HandsOK
<1> QED
  BY <1>1, <1>3, AnswerKeeps DEF HandleLocally

\* next_attempt_at passes.
LEMMA BackoffKeeps ==
    ASSUME RelayIInv, NEW i \in 1..Len(outbox), BackoffElapses(i)
    PROVE  RelayIInv'
<1>0. PICK n \in Nat : n = Len(outbox) /\ outbox \in Seq(OutboxRow)
  BY DEF RelayIInv, RowsOK
<1>1. UNCHANGED ledgerVars /\ UNCHANGED <<processed, hand, outcome>>
  BY DEF BackoffElapses
<1>2. PICK r \in OutboxRow : r = outbox[i]
  BY <1>0
<1>3. PICK new : new = [r EXCEPT !.due = TRUE]
  OBVIOUS
<1>4. new \in OutboxRow /\ new.status = r.status /\ new.attempts = r.attempts
  BY <1>3 DEF OutboxRow
<1>5. outbox' = [outbox EXCEPT ![i] = new]
  BY <1>2, <1>3 DEF BackoffElapses
<1>6. outbox' \in Seq(OutboxRow) /\ Len(outbox') = n /\ outbox'[i] = new /\ \A k \in 1..n : k # i => outbox'[k] = outbox[k]
  BY <1>0, <1>4, <1>5
<1>7. RowsOK'
  BY <1>0, <1>1, <1>2, <1>4, <1>6 DEF RelayIInv, RowsOK, ledgerVars
<1>8. HandsOK'
  BY <1>0, <1>1, <1>6 DEF RelayIInv, HandsOK
<1>9. \A k \in 1..n : outbox'[k].status = outbox[k].status
  BY <1>2, <1>4, <1>6
<1>10. NoDoubleClaim'
  BY <1>0, <1>1, <1>9 DEF RelayIInv, HandsOK, NoDoubleClaim
<1> QED
  BY <1>1, <1>7, <1>8, <1>10, LedgerFrame

\* The control-plane stops and starts.
LEMMA RelayCrashKeeps ==
    ASSUME RelayIInv, RelayCrash
    PROVE  RelayIInv'
<1>1. UNCHANGED ledgerVars /\ UNCHANGED <<outbox, processed>>
  BY DEF RelayCrash
<1>2. hand' \in [Drainers -> Seq(Nat)] /\ (\A t \in Drainers : Len(hand'[t]) = 0) /\ outcome' = [t \in Drainers |-> "none"]
  BY DEF RelayCrash
<1>3. HandsOK'
  BY <1>1, <1>2 DEF RelayIInv, HandsOK, Outcomes
<1>4. RowsOK' /\ NoDoubleClaim'
  BY <1>1, <1>2 DEF RelayIInv, RowsOK, NoDoubleClaim, ledgerVars
<1> QED
  BY <1>1, <1>3, <1>4, LedgerFrame

\* Nothing happens to the relay.
LEMMA RelayIdle ==
    ASSUME RelayIInv, UNCHANGED <<ledgerVars, relayVars>>
    PROVE  RelayIInv'
BY DEF RelayIInv, ledgerVars, relayVars, ChainOK, CheckpointsOK, RowsOK, HandsOK, NoDoubleClaim

----------------------------------------------------------------------------

\* The empty ledger.
LEMMA RelayInitInv == RelayInit => RelayIInv
<1> SUFFICES ASSUME RelayInit PROVE RelayIInv
  OBVIOUS
<1>1. ChainOK(ledger) /\ CheckpointsOK
  BY DEF RelayInit, ChainOK, CheckpointsOK, Range
<1>2. RowsOK /\ HandsOK /\ NoDoubleClaim
  BY DEF RelayInit, RowsOK, HandsOK, NoDoubleClaim, Outcomes
<1> QED
  BY <1>1, <1>2 DEF RelayInit, RelayIInv

\* Every step of the relay keeps the invariant.
LEMMA RelayStepInv ==
    ASSUME RelayIInv, RelayStep
    PROVE  RelayIInv'
BY AppendKeeps, VerifyKeeps, ClaimKeeps, HandleKeeps, MarkKeeps, BackoffKeeps DEF RelayStep

\* The invariant of ledger, outbox and drainers, whatever the handler of
\* decision.rendered answers.
THEOREM RelayInvariant == RelaySpec => []RelayIInv
<1>1. RelayInit => RelayIInv
  BY RelayInitInv
<1>2. ASSUME RelayIInv, SomeAnswer PROVE RelayIInv'
  <2>1. PICK t \in Drainers, said \in {"ok", "error"} :
           AtHandlers(t) /\ HandlerReturns(t, said) /\ UNCHANGED <<ledgerVars, outbox, processed, hand>>
    BY <1>2 DEF SomeAnswer
  <2>2. processed' \subseteq Events
    BY <1>2, <2>1 DEF RelayIInv, HandsOK
  <2> QED
    BY <1>2, <2>1, <2>2, AnswerKeeps DEF HandlerReturns
<1>3. RelayIInv /\ [RelayStep \/ SomeAnswer \/ RelayCrash]_<<ledgerVars, relayVars>> => RelayIInv'
  BY <1>2, RelayStepInv, RelayCrashKeeps, RelayIdle
<1> QED
  BY <1>1, <1>3, PTL DEF RelaySpec

\* The chain verifies after every transaction, and every boundary it passed
\* is checkpointed (AppendEventsTx against Verify).
THEOREM RelayLedger == RelaySpec => []LedgerSound
<1>1. RelayIInv => LedgerSound
  BY DEF RelayIInv, ChainOK, CheckpointsOK, LedgerSound, Verify
<1> QED
  BY <1>1, RelayInvariant, PTL

\* No row is in two hands (ClaimOutboxBatch).
THEOREM RelayClaims == RelaySpec => []NoDoubleClaim
<1>1. RelayIInv => NoDoubleClaim
  BY DEF RelayIInv
<1> QED
  BY <1>1, RelayInvariant, PTL

\* The relay's state keeps its type: no row is attempted more than
\* MaxAttempts times.
THEOREM RelayTypes == RelaySpec => []RelayTypeOK
<1>1. ASSUME RelayIInv PROVE RelayTypeOK
  <2>1. PICK n \in Nat : n = Len(outbox) /\ outbox \in Seq(OutboxRow)
    BY <1>1 DEF RelayIInv, RowsOK
  <2>2. ASSUME NEW i \in 1..n PROVE outbox[i] \in [event : Events, status : Statuses, attempts : 0..MaxAttempts, due : BOOLEAN]
    <3>1. PICK r \in OutboxRow : r = outbox[i] /\ r.attempts <= MaxAttempts
      BY <1>1, <2>1 DEF RelayIInv, RowsOK
    <3>2. r.attempts \in 0..MaxAttempts
      BY <3>1, RelayConstants DEF OutboxRow
    <3> QED
      BY <3>1, <3>2 DEF OutboxRow
  <2>3. ASSUME NEW t \in Drainers PROVE hand[t] \in Seq(1..n)
    <3>1. PICK q \in Seq(Nat) : q = hand[t] /\ \A k \in 1..Len(q) : q[k] \in 1..n
      BY <1>1, <2>1 DEF RelayIInv, HandsOK
    <3> QED
      BY <3>1
  <2>4. hand \in [Drainers -> Seq(1..n)]
    BY <1>1, <2>3 DEF RelayIInv, HandsOK
  <2>5. \A i \in 1..Len(ledger) : ledger[i].seq = i /\ ledger[i].id \in Events
    BY <1>1 DEF RelayIInv, ChainOK
  <2> QED
    BY <1>1, <2>1, <2>2, <2>4, <2>5 DEF RelayIInv, RowsOK, HandsOK, RelayTypeOK
<1> QED
  BY <1>1, RelayInvariant, PTL
=============================================================================
