------------------------------- MODULE Leases --------------------------------
(***************************************************************************)
(* Change intents and their leases: POST /v1/change-intents, renewing,     *)
(* releasing, expiring and revoking a lease, and the intent token bucket.  *)
(*                                                                         *)
(* Transactions run under READ COMMITTED and block each other on two kinds *)
(* of lock: the advisory lock of the ledger (AppendEventsTx) and the row   *)
(* lock of a lease.  Renewing takes the row first, everybody else the      *)
(* ledger first; PostgreSQL ends the deadlock by aborting one of the two.  *)
(* Ids, goal, surfaces, budget and policy of an intent are left out.       *)
(***************************************************************************)
EXTENDS Naturals, Sequences, FiniteSets

CONSTANTS
    Clients,    \* requests of agents that can be open at a time
    Leases,     \* lease ids, one per intent created
    Keys,       \* Idempotency-Keys of POST /v1/change-intents
    Invalid,    \* keys whose body does not pass validateIntentCreate
    Capacity,   \* tokens of the bucket
    MaxRequests \* bound: renewals, releases and uninstalls in one behaviour

ASSUME LeaseConstants ==
    /\ Invalid \subseteq Keys /\ Capacity \in Nat \ {0} /\ MaxRequests \in Nat
    /\ Clients \cap {"reconciler", "delivery", "free"} = {}

VARIABLES
    lease,    \* ctrl.leases
    ledger,   \* ledger[l]: the events of lease l, in order
    commands, \* ctrl.command_log: the lease a key's recorded answer names
    tokens,   \* the bucket
    tx,       \* tx[c]: what request, reconciler or delivery c is doing
    chain,    \* holder of the advisory lock
    rowLock,  \* rowLock[l]: holder of the row lock
    requests  \* of these, made so far

leaseVars == <<lease, ledger, commands, tokens, tx, chain, rowLock, requests>>

Actors == Clients \cup {"reconciler", "delivery"}
Terminal == {"released", "expired", "revoked"}
TerminalEvents == {"lease.expired", "lease.revoked"}
NoLease == [state |-> "none", ahead |-> FALSE, key |-> "-"]
NoTx == [pc |-> "idle", op |-> "-", arg |-> "-", ahead |-> FALSE, tokens |-> 0]

At(c, op, pc) == tx[c].op = op /\ tx[c].pc = pc
Goto(c, pc) == tx' = [tx EXCEPT ![c].pc = pc]
Free(c) == /\ chain' = IF chain = c THEN "free" ELSE chain
           /\ rowLock' = [l \in Leases |-> IF rowLock[l] = c THEN "free" ELSE rowLock[l]]
End(c) == tx' = [tx EXCEPT ![c] = NoTx] /\ Free(c)
Log(l, event) == ledger' = [ledger EXCEPT ![l] = Append(@, event)]
Unlocked == UNCHANGED <<chain, rowLock>>

Begin(c, op, arg) ==
    /\ tx[c] = NoTx
    /\ op # "create" => requests < MaxRequests
    /\ requests' = IF op = "create" THEN requests ELSE requests + 1
    /\ tx' = [tx EXCEPT ![c] = [NoTx EXCEPT !.pc = "begin", !.op = op, !.arg = arg,
                                            !.ahead = IF op = "renew" THEN lease[arg].ahead ELSE FALSE]]
    /\ UNCHANGED <<lease, ledger, commands, tokens>> /\ Unlocked

----------------------------------------------------------------------------
(***************************************************************************)
(* POST /v1/change-intents                                                 *)
(***************************************************************************)

\* A recorded answer is replayed.
LookupCommand(c) ==
    /\ At(c, "create", "begin")
    /\ IF commands[tx[c].arg] # "-" THEN End(c) ELSE Goto(c, "bucket") /\ Unlocked
    /\ UNCHANGED <<lease, ledger, commands, tokens, requests>>

\* TakeToken reads without a lock ...
ReadBucket(c) ==
    /\ At(c, "create", "bucket")
    /\ tx' = [tx EXCEPT ![c].pc = "take", ![c].tokens = tokens]
    /\ Unlocked /\ UNCHANGED <<lease, ledger, commands, tokens, requests>>

\* ... and writes what it computed; the body is validated only then.
TakeToken(c) ==
    LET n == tx[c].tokens IN
    /\ At(c, "create", "take")
    /\ tokens' = IF n >= 1 THEN n - 1 ELSE n
    /\ IF n >= 1 /\ tx[c].arg \notin Invalid THEN Goto(c, "commit") /\ Unlocked ELSE End(c) \* 429, 400
    /\ UNCHANGED <<lease, ledger, commands, requests>>

\* intent.declared, lease.granted and the command; the first answer stays.
CreateIntentTx(c) ==
    /\ At(c, "create", "commit") /\ chain = "free"
    /\ \E l \in Leases :
          /\ lease[l] = NoLease
          /\ lease' = [lease EXCEPT ![l] = [state |-> "granted", ahead |-> TRUE,
                                            key |-> tx[c].arg]]
          /\ Log(l, "lease.granted")
          /\ commands' = [commands EXCEPT ![tx[c].arg] = IF @ = "-" THEN l ELSE @]
    /\ End(c)
    /\ UNCHANGED <<tokens, requests>>

----------------------------------------------------------------------------
(***************************************************************************)
(* Renewing                                                                *)
(***************************************************************************)

\* UPDATE ... WHERE state='granted' AND ttl_expires_at > now(), which is the
\* time the transaction began; 409 when it matches nothing.  Nothing is
\* recorded under the request's Idempotency-Key.
RenewUpdate(c) ==
    LET l == tx[c].arg IN
    /\ At(c, "renew", "begin") /\ rowLock[l] = "free"
    /\ IF lease[l].state = "granted" /\ (lease[l].ahead \/ tx[c].ahead)
          THEN /\ rowLock' = [rowLock EXCEPT ![l] = c]
               /\ Goto(c, "append") /\ UNCHANGED chain
          ELSE End(c)
    /\ UNCHANGED <<lease, ledger, commands, tokens, requests>>

RenewCommit(c) ==
    LET l == tx[c].arg IN
    /\ At(c, "renew", "append") /\ chain = "free"
    /\ lease' = [lease EXCEPT ![l].ahead = TRUE]
    /\ Log(l, "lease.renewed")
    /\ End(c)
    /\ UNCHANGED <<commands, tokens, requests>>

----------------------------------------------------------------------------
(***************************************************************************)
(* Releasing and expiring                                                  *)
(***************************************************************************)

\* GetLease: only a granted lease is released, 204 otherwise.
ReleaseRead(c) ==
    /\ At(c, "release", "begin")
    /\ IF lease[tx[c].arg].state = "granted" THEN Goto(c, "append") /\ Unlocked ELSE End(c)
    /\ UNCHANGED <<lease, ledger, commands, tokens, requests>>

\* ReconcileOnce reads a due lease again and finds it expired.
DueLease(l) ==
    /\ tx["reconciler"] = NoTx
    /\ lease[l].state = "granted" /\ ~lease[l].ahead
    /\ tx' = [tx EXCEPT !["reconciler"] = [NoTx EXCEPT !.pc = "append", !.op = "expire", !.arg = l]]
    /\ Unlocked /\ UNCHANGED <<lease, ledger, commands, tokens, requests>>

\* releaseLeaseTx: the event is appended first ...
ReleaseAppend(c) ==
    /\ tx[c].op \in {"release", "expire"} /\ tx[c].pc = "append" /\ chain = "free"
    /\ chain' = c /\ Goto(c, "update")
    /\ UNCHANGED <<lease, ledger, commands, tokens, rowLock, requests>>

\* Mutant: the UPDATE does not ask for state='granted'.
EndLeaseAnyway(l, state) == [lease EXCEPT ![l].state = state]

\* UPDATE ctrl.leases ... AND state='granted'
EndLease(l, state) == IF lease[l].state = "granted" THEN [lease EXCEPT ![l].state = state] ELSE lease

\* ... and stays in the ledger even if the row is no longer granted.
ReleaseUpdate(c) ==
    LET l == tx[c].arg  expire == tx[c].op = "expire" IN
    /\ tx[c].op \in {"release", "expire"} /\ tx[c].pc = "update" /\ rowLock[l] = "free"
    /\ lease' = EndLease(l, IF expire THEN "expired" ELSE "released")
    /\ Log(l, IF expire THEN "lease.expired" ELSE "lease.revoked")
    /\ End(c)
    /\ UNCHANGED <<commands, tokens, requests>>

----------------------------------------------------------------------------
(***************************************************************************)
(* installation.deleted                                                    *)
(***************************************************************************)

\* delivery.accepted is appended first.
Uninstall ==
    /\ At("delivery", "uninstall", "begin") /\ chain = "free"
    /\ chain' = "delivery" /\ Goto("delivery", "update")
    /\ UNCHANGED <<lease, ledger, commands, tokens, rowLock, requests>>

\* Mutant: each lease is revoked by a transaction of its own, begun while
\* this one holds the advisory lock.
RevokeNested(l) == rowLock[l] = "free" /\ chain = "free"

\* The UPDATE needs the row and runs in the transaction that has the lock.
Revocable(l) == rowLock[l] = "free"

\* Every granted lease of the repository, whose rows come free in turn.
RevokeLeases ==
    LET active == {l \in Leases : lease[l].state = "granted"} IN
    /\ At("delivery", "uninstall", "update")
    /\ \A l \in active : Revocable(l)
    /\ lease' = [l \in Leases |-> IF l \in active THEN [lease[l] EXCEPT !.state = "revoked"] ELSE lease[l]]
    /\ ledger' = [l \in Leases |-> IF l \in active THEN Append(ledger[l], "lease.revoked") ELSE ledger[l]]
    /\ End("delivery")
    /\ UNCHANGED <<commands, tokens, requests>>

----------------------------------------------------------------------------

\* c wants the advisory lock and has a row, d has the lock and wants the row.
Deadlocked(c, d) ==
    \E l \in Leases :
        /\ rowLock[l] = c /\ At(c, "renew", "append")
        /\ chain = d /\ tx[d].pc = "update"
        /\ tx[d].op = "uninstall" \/ tx[d].arg = l

\* PostgreSQL aborts the transaction that finds the cycle.
Abort(c) ==
    /\ \E d \in Actors : Deadlocked(c, d) \/ Deadlocked(d, c)
    /\ End(c)
    /\ UNCHANGED <<lease, ledger, commands, tokens, requests>>

TTLPasses(l) ==
    /\ lease[l].state = "granted" /\ lease[l].ahead
    /\ lease' = [lease EXCEPT ![l].ahead = FALSE]
    /\ Unlocked /\ UNCHANGED <<ledger, commands, tokens, tx, requests>>

Refill ==
    /\ tokens < Capacity /\ tokens' = tokens + 1
    /\ Unlocked /\ UNCHANGED <<lease, ledger, commands, tx, requests>>

\* Bound: the ids of Leases suffice for the creations that are open.
IdsLeft == Cardinality({l \in Leases : lease[l] = NoLease}) > Cardinality({c \in Clients : tx[c].op = "create"})

Request(c) ==
    \/ IdsLeft /\ \E k \in Keys : Begin(c, "create", k)
    \/ \E l \in Leases, op \in {"renew", "release"} : lease[l] # NoLease /\ Begin(c, op, l)

LeaseInit ==
    /\ lease = [l \in Leases |-> NoLease] /\ ledger = [l \in Leases |-> <<>>]
    /\ commands = [k \in Keys |-> "-"] /\ tokens = Capacity
    /\ tx = [c \in Actors |-> NoTx]
    /\ chain = "free" /\ rowLock = [l \in Leases |-> "free"]
    /\ requests = 0

TxStep(c) ==
    \/ LookupCommand(c) \/ ReadBucket(c) \/ TakeToken(c) \/ CreateIntentTx(c)
    \/ RenewUpdate(c) \/ RenewCommit(c)
    \/ ReleaseRead(c) \/ ReleaseAppend(c) \/ ReleaseUpdate(c)
    \/ Abort(c)

LeaseNext ==
    \/ \E c \in Clients : Request(c)
    \/ Begin("delivery", "uninstall", "-")
    \/ \E c \in Actors : TxStep(c)
    \/ Uninstall \/ RevokeLeases
    \/ \E l \in Leases : DueLease(l) \/ TTLPasses(l)
    \/ Refill

\* Open transactions go on, the reconciler keeps its cadence and time passes.
\* Strong fairness: PostgreSQL grants a lock in the order of its queue, so a
\* waiter is not overtaken for ever by transactions that come, deadlock with
\* somebody else and are aborted.
LeaseFairness ==
    /\ \A c \in Actors : SF_leaseVars(TxStep(c))
    /\ SF_leaseVars(Uninstall \/ RevokeLeases)
    /\ \A l \in Leases : WF_leaseVars(DueLease(l)) /\ WF_leaseVars(TTLPasses(l))

LeaseSpec == LeaseInit /\ [][LeaseNext]_leaseVars /\ LeaseFairness

----------------------------------------------------------------------------
(***************************************************************************)
(* Properties                                                              *)
(***************************************************************************)

\* The type of leases, locks and the command log.
LeaseTypeOK ==
    /\ lease \in [Leases -> [state : Terminal \cup {"none", "granted"}, ahead : BOOLEAN, key : Keys \cup {"-"}]]
    /\ tokens \in 0..Capacity
    /\ chain \in Actors \cup {"free"} /\ rowLock \in [Leases -> Actors \cup {"free"}]
    /\ commands \in [Keys -> Leases \cup {"-"}]

\* What a terminal event leaves in the lease's row.
StateAfter(event) == IF event = "lease.expired" THEN {"expired"} ELSE {"released", "revoked"}

\* Entry i is the first of lease l that ends it.
FirstEnd(l, i) ==
    /\ i \in DOMAIN ledger[l] /\ ledger[l][i] \in TerminalEvents
    /\ \A j \in 1..(i - 1) : ledger[l][j] \notin TerminalEvents

\* No entry ends lease l.
NeverEnded(l) == \A i \in DOMAIN ledger[l] : ledger[l][i] \notin TerminalEvents

\* The projection agrees with the ledger: the first event that ends a lease
\* decides its row, however many releases, expiries and revocations raced
\* past it (I-08; releaseLeaseTx, applyInstallationDeleted).
FirstEndDecides ==
    \A l \in Leases :
        /\ NeverEnded(l) => lease[l].state \in {"none", "granted"}
        /\ \A i \in DOMAIN ledger[l] : FirstEnd(l, i) => lease[l].state \in StateAfter(ledger[l][i])

\* Every request is answered and every sweep ends although renewing takes its
\* locks in the opposite order from releasing, expiring and revoking.
RequestsEnd == \A c \in Actors : tx[c] # NoTx ~> tx[c] = NoTx
=============================================================================
