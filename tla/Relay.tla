-------------------------------- MODULE Relay --------------------------------
(***************************************************************************)
(* The control-plane's event spine (services/control-plane): the hash-     *)
(* chained ledger, the outbox written in the same transaction, the relay   *)
(* that drains the outbox to its handlers, and the chain verifier.         *)
(*                                                                         *)
(* Two goroutines drain: the ticker of Run and the listener of NOTIFY.     *)
(* Row i of the outbox is the row of ledger entry i: both are inserted by  *)
(* one transaction under the advisory lock, so ids follow seqs.  A hash is *)
(* the tuple of what it digests.  The ledger key is configured, so every   *)
(* boundary is signed.                                                     *)
(***************************************************************************)
EXTENDS Naturals, Sequences, FiniteSets, SequencesExt

CONSTANTS
    Events,             \* events that transactions append
    Type,               \* Type[e]: the event's type
    Drainers,           \* goroutines that run drainOnce
    Batch,              \* rows one claim takes (100)
    MaxAttempts,        \* attempts before a row is parked (10)
    CheckpointInterval, \* entries between signed checkpoints (10000)
    MaxTx,              \* bound: events one transaction appends
    Faults              \* which faults happen: "crash", "db_error"

ASSUME RelayConstants ==
    /\ Type \in [Events -> STRING]
    /\ {Batch, MaxAttempts, CheckpointInterval} \subseteq Nat \ {0} /\ MaxTx \in Nat
    /\ Faults \subseteq {"crash", "db_error"}

VARIABLES
    ledger,      \* ctrl.ledger, by seq
    checkpoints, \* ctrl.ledger_checkpoints
    alarm,       \* the verifier wrote a chain_verify_failure row
    outbox,      \* ctrl.outbox, by id
    processed,   \* ctrl.processed_events of consumer "scheduler"
    hand,        \* hand[t]: claimed rows drainer t still has to handle
    outcome      \* outcome[t]: what the handlers of the first of them said

ledgerVars == <<ledger, checkpoints, alarm>>
relayVars == <<outbox, processed, hand, outcome>>

Statuses == {"pending", "delivering", "published", "failed"}
Outcomes == {"none", "ok", "error"}

----------------------------------------------------------------------------
(***************************************************************************)
(* Ledger                                                                  *)
(***************************************************************************)

Genesis == <<>>
EntryHash(seq, id, prev) == <<seq, id, prev>>
Sign(seq, hash) == <<"sig", seq, hash>>

\* Mutant: every event of a batch is chained to the tail read at its start.
ChainedToTail(led, evs) ==
    LET tail == IF led = <<>> THEN Genesis ELSE Last(led).hash
        entry(i) == [seq |-> Len(led) + i, id |-> evs[i], prev |-> tail,
                     hash |-> EntryHash(Len(led) + i, evs[i], tail)]
    IN led \o [i \in 1..Len(evs) |-> entry(i)]

\* The loop of AppendEventsTx: each event takes the next seq and the hash of
\* the one before it.
Grow(before, e) ==
    LET prev == IF before = <<>> THEN Genesis ELSE Last(before).hash
        seq == Len(before) + 1
    IN Append(before, [seq |-> seq, id |-> e, prev |-> prev, hash |-> EntryHash(seq, e, prev)])
Chained(led, evs) ==
    LET grown[n \in 0..Len(evs)] == IF n = 0 THEN led ELSE Grow(grown[n - 1], evs[n])
    IN grown[Len(evs)]

\* Checkpoint boundaries crossed by the seqs from + 1 .. to.
Boundaries(from, to) ==
    LET first == (from \div CheckpointInterval + 1) * CheckpointInterval
    IN {b \in first..to : (b - first) % CheckpointInterval = 0}

\* AppendEventsTx, committed: ledger, outbox and checkpoints together.
AppendEvents(evs) ==
    LET led == Chained(ledger, evs) IN
    /\ ledger' = led
    /\ outbox' = outbox \o [i \in 1..Len(evs) |->
                     [event |-> evs[i], status |-> "pending", attempts |-> 0, due |-> TRUE]]
    /\ checkpoints' = checkpoints \cup
           {[seq |-> b, hash |-> led[b].hash, sig |-> Sign(b, led[b].hash)] :
                b \in Boundaries(Len(ledger), Len(led))}
    /\ UNCHANGED <<alarm, processed, hand, outcome>>

\* Verifier.Verify: each entry digests itself and names its predecessor; each
\* checkpoint carries its signature.
Verify(led, cps) ==
    /\ \A i \in 1..Len(led) :
          /\ led[i].hash = EntryHash(led[i].seq, led[i].id, led[i].prev)
          /\ i > 1 => led[i].prev = led[i - 1].hash
    /\ \A c \in cps : c.sig = Sign(c.seq, c.hash)

\* Scheduler.RunOnce: a failed pass leaves a security-audit row.
VerifyRunOnce ==
    /\ alarm' = (alarm \/ ~Verify(ledger, checkpoints))
    /\ UNCHANGED <<ledger, checkpoints, relayVars>>

----------------------------------------------------------------------------
(***************************************************************************)
(* Relay                                                                   *)
(***************************************************************************)

Claimable == {i \in 1..Len(outbox) : outbox[i].status = "pending" /\ outbox[i].due}

\* The rows with the Batch smallest ids among S, in order (the one element).
FirstRows(S) ==
    {rows \in SetToSeqs({i \in S : Cardinality({j \in S : j < i}) < Batch}) :
        \A k, m \in DOMAIN rows : k < m => rows[k] < rows[m]}

SetRow(i, status, due) == [outbox EXCEPT ![i].status = status, ![i].due = due]

\* Mutant: the claim counts an attempt and leaves the rows pending.
ClaimUnmarked(t) ==
    /\ hand[t] = <<>> /\ Claimable # {}
    /\ \E rows \in FirstRows(Claimable) :
       /\ hand' = [hand EXCEPT ![t] = rows]
       /\ outbox' = [i \in 1..Len(outbox) |->
              IF i \in Range(rows) THEN [outbox[i] EXCEPT !.attempts = @ + 1] ELSE outbox[i]]
    /\ UNCHANGED <<ledgerVars, processed, outcome>>

\* Mutant: the last attempt is never claimed.
ClaimSkipsLast(t) ==
    /\ hand[t] = <<>>
    /\ LET able == {i \in Claimable : outbox[i].attempts < MaxAttempts - 1} IN
       \E rows \in FirstRows(able) :
          /\ able # {} /\ hand' = [hand EXCEPT ![t] = rows]
          /\ outbox' = [i \in 1..Len(outbox) |->
                 IF i \in Range(rows)
                 THEN [outbox[i] EXCEPT !.status = "delivering", !.attempts = @ + 1]
                 ELSE outbox[i]]
    /\ UNCHANGED <<ledgerVars, processed, outcome>>

\* ClaimOutboxBatch, one transaction over rows no other claim has locked.
ClaimOutboxBatch(t) ==
    /\ hand[t] = <<>> /\ Claimable # {}
    /\ \E rows \in FirstRows(Claimable) :
       /\ hand' = [hand EXCEPT ![t] = rows]
       /\ outbox' = [i \in 1..Len(outbox) |->
              IF i \in Range(rows)
              THEN [outbox[i] EXCEPT !.status = "delivering", !.attempts = @ + 1]
              ELSE outbox[i]]
    /\ UNCHANGED <<ledgerVars, processed, outcome>>

Item(t) == outbox[Head(hand[t])].event
AtHandlers(t) == hand[t] # <<>> /\ outcome[t] = "none"

\* drainOnce for an event without a handler, and for validation.requested,
\* whose handler marks the event processed in a transaction of its own.
HandleLocally(t) ==
    /\ AtHandlers(t) /\ Type[Item(t)] # "decision.rendered"
    /\ \/ /\ outcome' = [outcome EXCEPT ![t] = "ok"]
          /\ processed' = IF Type[Item(t)] = "validation.requested"
                          THEN processed \cup {Item(t)} ELSE processed
       \/ /\ "db_error" \in Faults /\ Type[Item(t)] = "validation.requested"
          /\ outcome' = [outcome EXCEPT ![t] = "error"]
          /\ UNCHANGED processed
    /\ UNCHANGED <<ledgerVars, outbox, hand>>

\* The handler of decision.rendered returned.
HandlerReturns(t, said) == outcome' = [outcome EXCEPT ![t] = said]

Drop(t) == /\ hand' = [hand EXCEPT ![t] = Tail(@)]
           /\ outcome' = [outcome EXCEPT ![t] = "none"]

MarkPublished(t) ==
    /\ outcome[t] = "ok"
    /\ outbox' = SetRow(Head(hand[t]), "published", outbox[Head(hand[t])].due)
    /\ Drop(t) /\ UNCHANGED <<ledgerVars, processed>>

\* MarkFailed: back to pending until next_attempt_at, or parked.
MarkFailed(t) ==
    /\ outcome[t] = "error"
    /\ LET i == Head(hand[t]) IN
       outbox' = SetRow(i, IF outbox[i].attempts >= MaxAttempts THEN "failed" ELSE "pending", FALSE)
    /\ Drop(t) /\ UNCHANGED <<ledgerVars, processed>>

\* Either UPDATE fails: drainOnce returns and forgets the rest of its batch.
MarkErrors(t) ==
    /\ "db_error" \in Faults /\ outcome[t] # "none"
    /\ hand' = [hand EXCEPT ![t] = <<>>]
    /\ outcome' = [outcome EXCEPT ![t] = "none"]
    /\ UNCHANGED <<ledgerVars, outbox, processed>>

\* next_attempt_at passes.
BackoffElapses(i) ==
    /\ outbox[i].status = "pending" /\ ~outbox[i].due
    /\ outbox' = [outbox EXCEPT ![i].due = TRUE]
    /\ UNCHANGED <<ledgerVars, processed, hand, outcome>>

\* The process stops and starts: claimed rows are in nobody's hand.  Nothing
\* calls ReclaimStuckDelivering.
RelayCrash ==
    /\ "crash" \in Faults
    /\ hand' = [t \in Drainers |-> <<>>] /\ outcome' = [t \in Drainers |-> "none"]
    /\ UNCHANGED <<ledgerVars, outbox, processed>>

RelayInit ==
    /\ ledger = <<>> /\ checkpoints = {} /\ alarm = FALSE
    /\ outbox = <<>> /\ processed = {}
    /\ hand = [t \in Drainers |-> <<>>] /\ outcome = [t \in Drainers |-> "none"]

\* A transaction appends events that no other has.
Fresh == Events \ {ledger[i].id : i \in 1..Len(ledger)}
SomeTransaction ==
    \E n \in 1..MaxTx : \E evs \in [1..n -> Fresh] : IsInjective(evs) /\ AppendEvents(evs)

\* Every step of the relay except what the handler of decision.rendered does.
RelayStep ==
    \/ SomeTransaction
    \/ VerifyRunOnce
    \/ \E t \in Drainers : \/ ClaimOutboxBatch(t) \/ HandleLocally(t)
                           \/ MarkPublished(t) \/ MarkFailed(t) \/ MarkErrors(t)
    \/ \E i \in 1..Len(outbox) : BackoffElapses(i)

\* The relay beside a handler of decision.rendered that says anything.
SomeAnswer ==
    \E t \in Drainers, said \in {"ok", "error"} :
        AtHandlers(t) /\ HandlerReturns(t, said) /\ UNCHANGED <<ledgerVars, outbox, processed, hand>>
RelaySpec == RelayInit /\ [][RelayStep \/ SomeAnswer \/ RelayCrash]_<<ledgerVars, relayVars>>

\* The type of the relay's state: the outbox has a row for every event.
RelayTypeOK ==
    /\ \A i \in 1..Len(ledger) : ledger[i].seq = i /\ ledger[i].id \in Events
    /\ \A i \in 1..Len(outbox) :
          outbox[i] \in [event : Events, status : Statuses, attempts : 0..MaxAttempts, due : BOOLEAN]
    /\ Len(outbox) = Len(ledger) /\ alarm \in BOOLEAN /\ processed \subseteq Events
    /\ hand \in [Drainers -> Seq(1..Len(outbox))] /\ outcome \in [Drainers -> Outcomes]

----------------------------------------------------------------------------
(***************************************************************************)
(* Properties                                                              *)
(***************************************************************************)

\* Whatever batches the transactions append, the chain verifies, the verifier
\* raised no alarm, and every boundary the ledger has passed has a checkpoint
\* of the entry there (AppendEventsTx against Verify; I-07).
LedgerSound ==
    /\ ~alarm /\ Verify(ledger, checkpoints)
    /\ \A b \in 1..Len(ledger) : b % CheckpointInterval = 0 =>
          \E c \in checkpoints : c.seq = b /\ c.hash = ledger[b].hash

\* "concurrent relays never double-send": no row is in two hands, and a row in
\* a hand is in delivering, so that no other claim can take it.
NoDoubleClaim ==
    \A t \in Drainers : \A k \in 1..Len(hand[t]) :
        /\ outbox[hand[t][k]].status = "delivering"
        /\ \A u \in Drainers : \A m \in 1..Len(hand[u]) :
              hand[u][m] = hand[t][k] => u = t /\ m = k

\* A row in delivering that no drainer holds.
Orphaned(i) == outbox[i].status = "delivering"
               /\ \A t \in Drainers : i \notin Range(hand[t])
=============================================================================
