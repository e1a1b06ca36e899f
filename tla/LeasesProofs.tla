---------------------------- MODULE LeasesProofs -----------------------------
(***************************************************************************)
(* Theorems about Leases for any clients, leases, keys and bounds.  The    *)
(* inductive invariant adds to the checked one which event ended a         *)
(* terminal row, and that a transaction on a lease was begun on one that   *)
(* exists: releasing a lease nobody created would log its end and leave    *)
(* the row as it was.                                                      *)
(***************************************************************************)
EXTENDS Leases, TLAPS

Ops == {"-", "create", "renew", "release", "expire", "uninstall"}
Pcs == {"idle", "begin", "bucket", "take", "commit", "append", "update"}
Events == {"lease.granted", "lease.renewed"} \cup TerminalEvents

Tx == [pc : Pcs, op : Ops, arg : Leases \cup Keys \cup {"-"}, ahead : BOOLEAN, tokens : 0..Capacity]

TxTypeOK ==
    /\ tx \in [Actors -> Tx]
    /\ ledger \in [Leases -> Seq(Events)]

\* What a transaction on a lease works on is one that was created.
ArgsExist ==
    \A c \in Actors :
        /\ tx[c].op = "create" => tx[c].arg \in Keys
        /\ tx[c].op \in {"renew", "release", "expire"} =>
              tx[c].arg \in Leases /\ lease[tx[c].arg].state # "none"

\* Row l is open and its ledger has no end, or closed by the first end.
RowMatches(l) ==
    /\ lease[l].state = "none" => lease[l] = NoLease
    /\ lease[l].state \in {"none", "granted"} => NeverEnded(l)
    /\ lease[l].state \in Terminal =>
          \E i \in DOMAIN ledger[l] : FirstEnd(l, i) /\ lease[l].state \in StateAfter(ledger[l][i])

RowMatchesLedger == \A l \in Leases : RowMatches(l)

LeaseIInv == LeaseTypeOK /\ TxTypeOK /\ ArgsExist /\ RowMatchesLedger

----------------------------------------------------------------------------

\* One more entry: the first end stays where it is, and an entry that ends
\* a lease whose ledger had no end is the first.
LEMMA OneMoreEntry ==
    ASSUME TxTypeOK, NEW l \in Leases, NEW e \in Events,
           ledger'[l] = Append(ledger[l], e)
    PROVE  /\ \A i \in DOMAIN ledger[l] :
                 FirstEnd(l, i) => i \in DOMAIN ledger'[l] /\ FirstEnd(l, i)' /\ ledger'[l][i] = ledger[l][i]
           /\ NeverEnded(l) /\ e \notin TerminalEvents => NeverEnded(l)'
           /\ NeverEnded(l) /\ e \in TerminalEvents =>
                 \E i \in DOMAIN ledger'[l] : FirstEnd(l, i)' /\ ledger'[l][i] = e
<1>0. ledger[l] \in Seq(Events)
  BY DEF TxTypeOK
<1>1. PICK n \in Nat : n = Len(ledger[l]) /\ DOMAIN ledger[l] = 1..n
  BY <1>0
<1>2. /\ DOMAIN ledger'[l] = 1..(n + 1) /\ ledger'[l][n + 1] = e
      /\ \A i \in 1..n : ledger'[l][i] = ledger[l][i]
  BY <1>0, <1>1
<1>3. ASSUME NEW i \in DOMAIN ledger[l], FirstEnd(l, i)
      PROVE  i \in DOMAIN ledger'[l] /\ FirstEnd(l, i)' /\ ledger'[l][i] = ledger[l][i]
  <2>1. i \in 1..n /\ i \in 1..(n + 1) /\ 1..(i - 1) \subseteq 1..n
    BY <1>1, <1>3
  <2> QED
    BY <1>1, <1>2, <1>3, <2>1 DEF FirstEnd
<1>4. ASSUME NeverEnded(l), e \notin TerminalEvents PROVE NeverEnded(l)'
  BY <1>1, <1>2, <1>4 DEF NeverEnded
<1>5. ASSUME NeverEnded(l), e \in TerminalEvents
      PROVE  \E i \in DOMAIN ledger'[l] : FirstEnd(l, i)' /\ ledger'[l][i] = e
  <2>1. n + 1 \in DOMAIN ledger'[l] /\ 1..((n + 1) - 1) = 1..n
    BY <1>1, <1>2
  <2>2. FirstEnd(l, n + 1)'
    BY <1>1, <1>2, <1>5, <2>1 DEF FirstEnd, NeverEnded
  <2> QED
    BY <1>2, <2>1, <2>2
<1> QED
  BY <1>3, <1>4, <1>5

\* A lease whose row keeps its state and whose ledger gets no entry.
LEMMA RowUntouched ==
    ASSUME NEW l \in Leases, RowMatches(l),
           lease'[l].state = lease[l].state, lease[l].state = "none" => lease'[l] = lease[l],
           ledger'[l] = ledger[l]
    PROVE  RowMatches(l)'
BY DEF RowMatches, NeverEnded, FirstEnd

\* A lease that was created and whose row keeps its state gets an entry that
\* does not end it, or gets any entry after its end.
LEMMA RowKept ==
    ASSUME TxTypeOK, NEW l \in Leases, NEW e \in Events, RowMatches(l),
           lease'[l].state = lease[l].state, lease[l].state # "none",
           ledger'[l] = Append(ledger[l], e),
           e \in TerminalEvents => lease[l].state \in Terminal
    PROVE  RowMatches(l)'
<1>1. CASE lease[l].state \in Terminal
  <2>1. PICK i \in DOMAIN ledger[l] : FirstEnd(l, i) /\ lease[l].state \in StateAfter(ledger[l][i])
    BY <1>1 DEF RowMatches
  <2>2. i \in DOMAIN ledger'[l] /\ FirstEnd(l, i)' /\ ledger'[l][i] = ledger[l][i]
    BY <2>1, OneMoreEntry
  <2>3. lease'[l].state \in StateAfter(ledger'[l][i])
    BY <2>1, <2>2
  <2>4. lease'[l].state \notin {"none", "granted"}
    BY <1>1 DEF Terminal
  <2> QED
    BY <2>2, <2>3, <2>4 DEF RowMatches, StateAfter
<1>2. CASE lease[l].state \notin Terminal
  <2>1. CASE lease[l].state = "granted"
    BY <2>1, <1>2, OneMoreEntry DEF RowMatches
  <2>2. CASE lease[l].state # "granted"
    BY <2>2, <1>2 DEF RowMatches
  <2> QED
    BY <2>1, <2>2
<1> QED
  BY <1>1, <1>2

\* A granted row ends with the event that says so.
LEMMA RowEnded ==
    ASSUME TxTypeOK, NEW l \in Leases, NEW e \in TerminalEvents, RowMatches(l),
           lease[l].state = "granted",
           lease'[l].state \in Terminal, lease'[l].state \in StateAfter(e),
           ledger'[l] = Append(ledger[l], e)
    PROVE  RowMatches(l)'
<1>1. e \in Events /\ NeverEnded(l)
  BY DEF Events, RowMatches
<1>2. PICK i \in DOMAIN ledger'[l] : FirstEnd(l, i)' /\ ledger'[l][i] = e
  BY <1>1, OneMoreEntry
<1>3. lease'[l].state \notin {"none", "granted"}
  BY DEF Terminal
<1> QED
  BY <1>2, <1>3 DEF RowMatches, StateAfter

\* A thread with nothing to do.
LEMMA NoTxTyped == NoTx \in Tx
<1>1. 0 \in 0..Capacity
  BY LeaseConstants
<1> QED
  BY <1>1 DEF NoTx, Tx, Ops, Pcs

\* The initial state: no lease, no entry, no transaction.
LEMMA LeaseInitInv == LeaseInit => LeaseIInv
<1> SUFFICES ASSUME LeaseInit PROVE LeaseIInv
    OBVIOUS
<1>1. LeaseTypeOK
  <2>1. tokens \in 0..Capacity
    BY LeaseConstants DEF LeaseInit
  <2>2. NoLease \in [state : Terminal \cup {"none", "granted"}, ahead : BOOLEAN, key : Keys \cup {"-"}]
    BY DEF NoLease
  <2> QED
    BY <2>1, <2>2 DEF LeaseInit, LeaseTypeOK
<1>2. TxTypeOK
  BY NoTxTyped DEF LeaseInit, TxTypeOK
<1>3. ArgsExist
  <2>1. \A c \in Actors : tx[c].op = "-"
    BY DEF LeaseInit, NoTx
  <2> QED
    BY <2>1 DEF ArgsExist
<1>4. RowMatchesLedger
  <2>1. \A l \in Leases : lease[l] = NoLease /\ lease[l].state = "none" /\ DOMAIN ledger[l] = {}
    BY DEF LeaseInit, NoLease
  <2> QED
    BY <2>1 DEF RowMatchesLedger, RowMatches, NeverEnded, Terminal
<1> QED
  BY <1>1, <1>2, <1>3, <1>4 DEF LeaseIInv

\* Rows once created stay created.
Persists == \A l \in Leases : lease[l].state # "none" => lease'[l].state # "none"

\* A transaction that ends, by its answer, its commit or an abort, gives back
\* its locks and leaves the arguments of the others as they were.
LEMMA EndKeeps ==
    ASSUME LeaseIInv, NEW c \in Actors, End(c), Persists
    PROVE  /\ tx' \in [Actors -> Tx]
           /\ chain' \in Actors \cup {"free"} /\ rowLock' \in [Leases -> Actors \cup {"free"}]
           /\ ArgsExist'
<1>1. NoTx \in Tx
  BY NoTxTyped
<1>2. tx' = [tx EXCEPT ![c] = NoTx]
  BY DEF End
<1>3. chain' \in Actors \cup {"free"} /\ rowLock' \in [Leases -> Actors \cup {"free"}]
  BY DEF End, Free, LeaseIInv, LeaseTypeOK
<1>4. ArgsExist'
  BY <1>2 DEF LeaseIInv, ArgsExist, Persists, TxTypeOK, NoTx
<1> QED
  BY <1>1, <1>2, <1>3, <1>4 DEF LeaseIInv, TxTypeOK

\* A transaction that goes on.
LEMMA GotoKeeps ==
    ASSUME LeaseIInv, NEW c \in Actors, NEW pc \in Pcs, Goto(c, pc), Persists
    PROVE  /\ tx' \in [Actors -> Tx]
           /\ ArgsExist'
<1>1. tx' \in [Actors -> Tx]
  BY DEF Goto, LeaseIInv, TxTypeOK, Tx
<1>2. \A d \in Actors : tx'[d].op = tx[d].op /\ tx'[d].arg = tx[d].arg
  BY DEF Goto, LeaseIInv, TxTypeOK, Tx
<1> QED
  BY <1>1, <1>2 DEF LeaseIInv, ArgsExist, Persists

\* A step that leaves rows and ledger alone needs only its own types.
LEMMA TableUntouched ==
    ASSUME LeaseIInv, UNCHANGED <<lease, ledger>>,
           tokens' \in 0..Capacity, commands' \in [Keys -> Leases \cup {"-"}],
           tx' \in [Actors -> Tx],
           chain' \in Actors \cup {"free"}, rowLock' \in [Leases -> Actors \cup {"free"}],
           ArgsExist'
    PROVE  LeaseIInv'
<1>1. LeaseTypeOK' /\ TxTypeOK'
  BY DEF LeaseIInv, LeaseTypeOK, TxTypeOK
<1>2. RowMatchesLedger'
  BY RowUntouched DEF LeaseIInv, RowMatchesLedger, RowMatches
<1> QED
  BY <1>1, <1>2 DEF LeaseIInv

\* Beginning a request on what exists.
LEMMA BeginKeeps ==
    ASSUME LeaseIInv, NEW c \in Actors, NEW op \in Ops, NEW arg \in Leases \cup Keys \cup {"-"},
           Begin(c, op, arg),
           op = "create" => arg \in Keys,
           op \in {"renew", "release", "expire"} => arg \in Leases /\ lease[arg].state # "none"
    PROVE  LeaseIInv'
<1> DEFINE ahead == IF op = "renew" THEN lease[arg].ahead ELSE FALSE
           new == [NoTx EXCEPT !.pc = "begin", !.op = op, !.arg = arg, !.ahead = ahead]
<1>1. new \in Tx /\ new.op = op /\ new.arg = arg
  <2>1. ahead \in BOOLEAN
    BY DEF LeaseIInv, LeaseTypeOK
  <2> HIDE DEF ahead
  <2> QED
    BY <2>1, NoTxTyped DEF Tx, Pcs
<1>2. tx' = [tx EXCEPT ![c] = new]
  BY DEF Begin
<1> HIDE DEF new
<1>3. tx' \in [Actors -> Tx]
  BY <1>1, <1>2 DEF LeaseIInv, TxTypeOK
<1>4. UNCHANGED <<lease, ledger, commands, tokens, chain, rowLock>>
  BY DEF Begin, Unlocked
<1>5. ArgsExist'
  BY <1>1, <1>2, <1>4 DEF LeaseIInv, ArgsExist, TxTypeOK
<1> QED
  BY <1>3, <1>4, <1>5, TableUntouched DEF LeaseIInv, LeaseTypeOK

\* The steps of a request to create an intent.
LEMMA CreateKeeps ==
    ASSUME LeaseIInv, NEW c \in Actors,
           LookupCommand(c) \/ ReadBucket(c) \/ TakeToken(c) \/ CreateIntentTx(c)
    PROVE  LeaseIInv'
<1>1. CASE LookupCommand(c)
  <2>1. UNCHANGED <<lease, ledger, commands, tokens>> /\ Persists
    BY <1>1 DEF LookupCommand, Persists
  <2>2. CASE End(c)
    BY <2>1, <2>2, EndKeeps, TableUntouched DEF LeaseIInv, LeaseTypeOK
  <2>3. CASE Goto(c, "bucket") /\ Unlocked
    BY <2>1, <2>3, GotoKeeps, TableUntouched DEF LeaseIInv, LeaseTypeOK, Unlocked, Pcs
  <2> QED
    BY <1>1, <2>2, <2>3 DEF LookupCommand
<1>2. CASE ReadBucket(c)
  <2>1. UNCHANGED <<lease, ledger, commands, tokens, chain, rowLock>>
    BY <1>2 DEF ReadBucket, Unlocked
  <2>2. tx' \in [Actors -> Tx] /\ \A d \in Actors : tx'[d].op = tx[d].op /\ tx'[d].arg = tx[d].arg
    <3> DEFINE new == [tx[c] EXCEPT !.pc = "take", !.tokens = tokens]
    <3>1. tx' = [tx EXCEPT ![c] = new]
      BY <1>2 DEF ReadBucket, LeaseIInv, TxTypeOK
    <3>2. new \in Tx /\ new.op = tx[c].op /\ new.arg = tx[c].arg
      BY ZenonT(30) DEF LeaseIInv, LeaseTypeOK, TxTypeOK, Tx, Pcs
    <3> HIDE DEF new
    <3> QED
      BY <3>1, <3>2 DEF LeaseIInv, TxTypeOK
  <2>3. ArgsExist'
    BY <2>1, <2>2 DEF LeaseIInv, ArgsExist
  <2> QED
    BY <2>1, <2>2, <2>3, TableUntouched DEF LeaseIInv, LeaseTypeOK
<1>3. CASE TakeToken(c)
  <2>1. UNCHANGED <<lease, ledger, commands>> /\ Persists
    BY <1>3 DEF TakeToken, Persists
  <2>2. tokens' \in 0..Capacity
    <3>1. tx[c].tokens \in 0..Capacity /\ Capacity \in Nat
      BY LeaseConstants DEF LeaseIInv, TxTypeOK, Tx
    <3>2. tokens' = IF tx[c].tokens >= 1 THEN tx[c].tokens - 1 ELSE tx[c].tokens
      BY <1>3 DEF TakeToken
    <3> QED
      BY <3>1, <3>2
  <2>3. CASE End(c)
    BY <2>1, <2>2, <2>3, EndKeeps, TableUntouched DEF LeaseIInv, LeaseTypeOK
  <2>4. CASE Goto(c, "commit") /\ Unlocked
    BY <2>1, <2>2, <2>4, GotoKeeps, TableUntouched DEF LeaseIInv, LeaseTypeOK, Unlocked, Pcs
  <2> QED
    BY <1>3, <2>3, <2>4 DEF TakeToken
<1>4. CASE CreateIntentTx(c)
  <2> DEFINE row == [state |-> "granted", ahead |-> TRUE, key |-> tx[c].arg]
  <2>1. PICK l \in Leases :
           /\ lease[l] = NoLease
           /\ lease' = [lease EXCEPT ![l] = row]
           /\ Log(l, "lease.granted")
           /\ commands' = [commands EXCEPT ![tx[c].arg] = IF @ = "-" THEN l ELSE @]
    BY <1>4 DEF CreateIntentTx
  <2>2. End(c) /\ UNCHANGED tokens /\ tx[c].arg \in Keys
    BY <1>4 DEF CreateIntentTx, At, LeaseIInv, ArgsExist
  <2>3. row \in [state : Terminal \cup {"none", "granted"}, ahead : BOOLEAN, key : Keys \cup {"-"}] /\ row.state = "granted"
    BY <2>2
  <2> HIDE DEF row
  <2>4. lease' \in [Leases -> [state : Terminal \cup {"none", "granted"}, ahead : BOOLEAN, key : Keys \cup {"-"}]]
    BY <2>1, <2>3 DEF LeaseIInv, LeaseTypeOK
  <2>5. commands' \in [Keys -> Leases \cup {"-"}]
    BY <2>1, <2>2 DEF LeaseIInv, LeaseTypeOK
  <2>6. Persists
    BY <2>1, <2>3 DEF Persists, LeaseIInv, LeaseTypeOK
  <2>7. ledger' \in [Leases -> Seq(Events)] /\ ledger'[l] = Append(ledger[l], "lease.granted")
    BY <2>1 DEF Log, LeaseIInv, TxTypeOK, Events
  <2>8. RowMatches(l)'
    <3>1. NeverEnded(l)
      BY <2>1 DEF LeaseIInv, RowMatchesLedger, RowMatches, NoLease
    <3>2. NeverEnded(l)'
      BY <2>7, <3>1, OneMoreEntry DEF LeaseIInv, Events, TerminalEvents
    <3>3. lease'[l].state = "granted"
      BY <2>1, <2>3 DEF LeaseIInv, LeaseTypeOK
    <3> QED
      BY <3>2, <3>3 DEF RowMatches, Terminal
  <2>9. RowMatchesLedger'
    <3> SUFFICES ASSUME NEW m \in Leases, m # l PROVE RowMatches(m)'
      BY <2>8 DEF RowMatchesLedger
    <3>1. lease'[m] = lease[m] /\ ledger'[m] = ledger[m]
      BY <2>1 DEF Log, LeaseIInv, LeaseTypeOK, TxTypeOK
    <3> QED
      BY <3>1, RowUntouched DEF LeaseIInv, RowMatchesLedger
  <2> QED
    BY <2>2, <2>4, <2>5, <2>6, <2>7, <2>9, EndKeeps DEF LeaseIInv, LeaseTypeOK, TxTypeOK
<1> QED
  BY <1>1, <1>2, <1>3, <1>4

\* The steps of a renewal: the row keeps its state.
LEMMA RenewKeeps ==
    ASSUME LeaseIInv, NEW c \in Actors, RenewUpdate(c) \/ RenewCommit(c)
    PROVE  LeaseIInv'
<1> DEFINE l == tx[c].arg
<1>1. CASE RenewUpdate(c)
  <2>1. UNCHANGED <<lease, ledger, commands, tokens>> /\ Persists
    BY <1>1 DEF RenewUpdate, Persists
  <2>2. CASE End(c)
    BY <2>1, <2>2, EndKeeps, TableUntouched DEF LeaseIInv, LeaseTypeOK
  <2>3. CASE rowLock' = [rowLock EXCEPT ![l] = c] /\ Goto(c, "append") /\ UNCHANGED chain
    <3>1. rowLock' \in [Leases -> Actors \cup {"free"}] /\ chain' \in Actors \cup {"free"}
      BY <2>3 DEF LeaseIInv, LeaseTypeOK
    <3> QED
      BY <2>1, <2>3, <3>1, GotoKeeps, TableUntouched DEF LeaseIInv, LeaseTypeOK, Pcs
  <2> QED
    BY <1>1, <2>2, <2>3 DEF RenewUpdate
<1>2. CASE RenewCommit(c)
  <2>0. PICK k \in Leases : k = tx[c].arg /\ lease[k].state # "none"
    BY <1>2 DEF RenewCommit, At, LeaseIInv, ArgsExist
  <2>1. /\ lease' = [lease EXCEPT ![k].ahead = TRUE] /\ End(c) /\ UNCHANGED <<commands, tokens>>
        /\ ledger' = [ledger EXCEPT ![k] = Append(@, "lease.renewed")]
    BY <1>2, <2>0 DEF RenewCommit, Log
  <2>2. /\ lease' \in [Leases -> [state : Terminal \cup {"none", "granted"}, ahead : BOOLEAN, key : Keys \cup {"-"}]]
        /\ \A m \in Leases : lease'[m].state = lease[m].state /\ (m # k => lease'[m] = lease[m])
    BY <2>1 DEF LeaseIInv, LeaseTypeOK
  <2>3. Persists
    BY <2>2 DEF Persists
  <2>4. /\ ledger' \in [Leases -> Seq(Events)] /\ ledger'[k] = Append(ledger[k], "lease.renewed")
        /\ \A m \in Leases : m # k => ledger'[m] = ledger[m]
    BY <2>1 DEF LeaseIInv, TxTypeOK, Events
  <2>5. RowMatches(k)'
    BY <2>0, <2>2, <2>4, RowKept DEF LeaseIInv, RowMatchesLedger, Events, TerminalEvents
  <2>6. RowMatchesLedger'
    BY <2>2, <2>4, <2>5, RowUntouched DEF LeaseIInv, RowMatchesLedger
  <2> QED
    BY <2>1, <2>2, <2>3, <2>4, <2>6, EndKeeps DEF LeaseIInv, LeaseTypeOK, TxTypeOK
<1> QED
  BY <1>1, <1>2

\* The steps of a release and of an expiry: the entry is the first end of a
\* granted row and a later one of a row that somebody ended before.
LEMMA ReleaseKeeps ==
    ASSUME LeaseIInv, NEW c \in Actors, ReleaseRead(c) \/ ReleaseAppend(c) \/ ReleaseUpdate(c)
    PROVE  LeaseIInv'
<1>1. CASE ReleaseRead(c)
  <2>1. UNCHANGED <<lease, ledger, commands, tokens>> /\ Persists
    BY <1>1 DEF ReleaseRead, Persists
  <2>2. CASE End(c)
    BY <2>1, <2>2, EndKeeps, TableUntouched DEF LeaseIInv, LeaseTypeOK
  <2>3. CASE Goto(c, "append") /\ Unlocked
    BY <2>1, <2>3, GotoKeeps, TableUntouched DEF LeaseIInv, LeaseTypeOK, Unlocked, Pcs
  <2> QED
    BY <1>1, <2>2, <2>3 DEF ReleaseRead
<1>2. CASE ReleaseAppend(c)
  <2>1. UNCHANGED <<lease, ledger, commands, tokens, rowLock>> /\ Persists /\ chain' = c /\ Goto(c, "update")
    BY <1>2 DEF ReleaseAppend, Persists
  <2> QED
    BY <2>1, GotoKeeps, TableUntouched DEF LeaseIInv, LeaseTypeOK, Pcs
<1>3. CASE ReleaseUpdate(c)
  <2> DEFINE state == IF tx[c].op = "expire" THEN "expired" ELSE "released"
             event == IF tx[c].op = "expire" THEN "lease.expired" ELSE "lease.revoked"
  <2>0. PICK k \in Leases : k = tx[c].arg /\ lease[k].state # "none"
    BY <1>3 DEF ReleaseUpdate, LeaseIInv, ArgsExist
  <2>1. /\ lease' = EndLease(k, state) /\ End(c) /\ UNCHANGED <<commands, tokens>>
        /\ ledger' = [ledger EXCEPT ![k] = Append(@, event)]
    BY <1>3, <2>0 DEF ReleaseUpdate, Log
  <2>2. event \in TerminalEvents /\ event \in Events /\ state \in Terminal /\ state \in StateAfter(event)
    BY DEF TerminalEvents, Events, Terminal, StateAfter
  <2> HIDE DEF state, event
  <2>3. /\ lease' \in [Leases -> [state : Terminal \cup {"none", "granted"}, ahead : BOOLEAN, key : Keys \cup {"-"}]]
        /\ \A m \in Leases : m # k => lease'[m] = lease[m]
        /\ lease'[k].state = IF lease[k].state = "granted" THEN state ELSE lease[k].state
    BY <2>1, <2>2 DEF EndLease, LeaseIInv, LeaseTypeOK
  <2>4. Persists
    BY <2>0, <2>2, <2>3 DEF Persists, Terminal
  <2>5. /\ ledger' \in [Leases -> Seq(Events)] /\ ledger'[k] = Append(ledger[k], event)
        /\ \A m \in Leases : m # k => ledger'[m] = ledger[m]
    BY <2>1, <2>2 DEF LeaseIInv, TxTypeOK
  <2>6. RowMatches(k)
    BY DEF LeaseIInv, RowMatchesLedger
  <2>7. RowMatches(k)'
    <3>1. CASE lease[k].state = "granted"
      BY <3>1, <2>2, <2>3, <2>5, <2>6, RowEnded DEF LeaseIInv
    <3>2. CASE lease[k].state # "granted"
      <4>1. lease[k].state \in Terminal
        BY <3>2, <2>0 DEF LeaseIInv, LeaseTypeOK
      <4> QED
        BY <3>2, <4>1, <2>0, <2>2, <2>3, <2>5, <2>6, RowKept DEF LeaseIInv
    <3> QED
      BY <3>1, <3>2
  <2>8. RowMatchesLedger'
    BY <2>3, <2>5, <2>7, RowUntouched DEF LeaseIInv, RowMatchesLedger
  <2> QED
    BY <2>1, <2>3, <2>4, <2>5, <2>8, EndKeeps DEF LeaseIInv, LeaseTypeOK, TxTypeOK
<1> QED
  BY <1>1, <1>2, <1>3

\* Uninstalling revokes the granted rows, each with its entry.
LEMMA UninstallKeeps ==
    ASSUME LeaseIInv, Uninstall \/ RevokeLeases
    PROVE  LeaseIInv'
<1>0. "delivery" \in Actors
  BY DEF Actors
<1>1. CASE Uninstall
  <2>1. /\ UNCHANGED <<lease, ledger, commands, tokens, rowLock>> /\ Persists
        /\ chain' = "delivery" /\ Goto("delivery", "update")
    BY <1>1 DEF Uninstall, Persists
  <2> QED
    BY <1>0, <2>1, GotoKeeps, TableUntouched DEF LeaseIInv, LeaseTypeOK, Pcs
<1>2. CASE RevokeLeases
  <2> DEFINE granted(l) == lease[l].state = "granted"
  <2>1. /\ lease' = [l \in Leases |-> IF granted(l) THEN [lease[l] EXCEPT !.state = "revoked"] ELSE lease[l]]
        /\ ledger' = [l \in Leases |-> IF granted(l) THEN Append(ledger[l], "lease.revoked") ELSE ledger[l]]
        /\ End("delivery") /\ UNCHANGED <<commands, tokens>>
    BY <1>2 DEF RevokeLeases
  <2>2. /\ lease' \in [Leases -> [state : Terminal \cup {"none", "granted"}, ahead : BOOLEAN, key : Keys \cup {"-"}]]
        /\ \A l \in Leases : lease'[l].state = IF granted(l) THEN "revoked" ELSE lease[l].state
        /\ \A l \in Leases : ~granted(l) => lease'[l] = lease[l]
    BY <2>1, ZenonT(30) DEF LeaseIInv, LeaseTypeOK, Terminal
  <2>3. Persists
    BY <2>2 DEF Persists
  <2>4. /\ ledger' \in [Leases -> Seq(Events)]
        /\ \A l \in Leases : ledger'[l] = IF granted(l) THEN Append(ledger[l], "lease.revoked") ELSE ledger[l]
    BY <2>1 DEF LeaseIInv, TxTypeOK, Events, TerminalEvents
  <2>5. RowMatchesLedger'
    <3> SUFFICES ASSUME NEW l \in Leases PROVE RowMatches(l)'
      BY DEF RowMatchesLedger
    <3>1. RowMatches(l)
      BY DEF LeaseIInv, RowMatchesLedger
    <3>2. CASE granted(l)
      BY <3>1, <3>2, <2>2, <2>4, RowEnded DEF LeaseIInv, Terminal, TerminalEvents, StateAfter
    <3>3. CASE ~granted(l)
      BY <3>1, <3>3, <2>2, <2>4, RowUntouched
    <3> QED
      BY <3>2, <3>3
  <2> QED
    BY <1>0, <2>1, <2>2, <2>3, <2>4, <2>5, EndKeeps DEF LeaseIInv, LeaseTypeOK, TxTypeOK
<1> QED
  BY <1>1, <1>2

\* The reconciler takes up a due lease, or the clock passes its deadline.
LEMMA TimeKeeps ==
    ASSUME LeaseIInv, NEW l \in Leases, DueLease(l) \/ TTLPasses(l)
    PROVE  LeaseIInv'
<1>1. CASE DueLease(l)
  <2> DEFINE new == [NoTx EXCEPT !.pc = "append", !.op = "expire", !.arg = l]
  <2>1. /\ UNCHANGED <<lease, ledger, commands, tokens, chain, rowLock>>
        /\ tx' = [tx EXCEPT !["reconciler"] = new] /\ lease[l].state = "granted"
    BY <1>1 DEF DueLease, Unlocked
  <2>2. new \in Tx /\ new.op = "expire" /\ new.arg = l
    BY NoTxTyped DEF Tx, Ops, Pcs
  <2> HIDE DEF new
  <2>3. tx' \in [Actors -> Tx]
    BY <2>1, <2>2 DEF LeaseIInv, TxTypeOK
  <2>4. ArgsExist'
    BY <2>1, <2>2 DEF LeaseIInv, ArgsExist, TxTypeOK
  <2> QED
    BY <2>1, <2>3, <2>4, TableUntouched DEF LeaseIInv, LeaseTypeOK
<1>2. CASE TTLPasses(l)
  <2>1. /\ UNCHANGED <<ledger, commands, tokens, tx, chain, rowLock>>
        /\ lease' = [lease EXCEPT ![l].ahead = FALSE] /\ lease[l].state = "granted"
    BY <1>2 DEF TTLPasses, Unlocked
  <2>2. /\ lease' \in [Leases -> [state : Terminal \cup {"none", "granted"}, ahead : BOOLEAN, key : Keys \cup {"-"}]]
        /\ \A m \in Leases : lease'[m].state = lease[m].state /\ (m # l => lease'[m] = lease[m])
    BY <2>1 DEF LeaseIInv, LeaseTypeOK
  <2>3. RowMatchesLedger'
    BY <2>1, <2>2, RowUntouched DEF LeaseIInv, RowMatchesLedger
  <2>4. ArgsExist'
    BY <2>1, <2>2 DEF LeaseIInv, ArgsExist
  <2> QED
    BY <2>1, <2>2, <2>3, <2>4 DEF LeaseIInv, LeaseTypeOK, TxTypeOK
<1> QED
  BY <1>1, <1>2

\* Every step of the specification keeps the invariant.
LEMMA LeaseNextInv == LeaseIInv /\ [LeaseNext]_leaseVars => LeaseIInv'
<1> SUFFICES ASSUME LeaseIInv, [LeaseNext]_leaseVars PROVE LeaseIInv'
    OBVIOUS
<1>1. ASSUME NEW c \in Clients, Request(c) PROVE LeaseIInv'
  <2>1. c \in Actors
    BY DEF Actors
  <2>2. CASE \E k \in Keys : Begin(c, "create", k)
    BY <2>1, <2>2, BeginKeeps DEF Ops
  <2>3. CASE \E l \in Leases, op \in {"renew", "release"} : lease[l] # NoLease /\ Begin(c, op, l)
    <3>1. PICK l \in Leases, op \in {"renew", "release"} : lease[l] # NoLease /\ Begin(c, op, l)
      BY <2>3
    <3>2. lease[l].state # "none" /\ op \in Ops /\ op # "create"
      BY <3>1 DEF LeaseIInv, RowMatchesLedger, RowMatches, Ops
    <3> QED
      BY <2>1, <3>1, <3>2, BeginKeeps
  <2> QED
    BY <1>1, <2>2, <2>3 DEF Request
<1>2. ASSUME Begin("delivery", "uninstall", "-") PROVE LeaseIInv'
  BY <1>2, BeginKeeps DEF Actors, Ops
<1>3. ASSUME NEW c \in Actors, TxStep(c) PROVE LeaseIInv'
  <2>1. CASE Abort(c)
    BY <2>1, EndKeeps, TableUntouched DEF Abort, Persists, LeaseIInv, LeaseTypeOK
  <2> QED
    BY <1>3, <2>1, CreateKeeps, RenewKeeps, ReleaseKeeps DEF TxStep
<1>4. ASSUME Refill PROVE LeaseIInv'
  <2>1. UNCHANGED <<lease, ledger, commands, tx, chain, rowLock>>
    BY <1>4 DEF Refill, Unlocked
  <2>2. tokens' \in 0..Capacity
    BY <1>4, LeaseConstants DEF Refill, LeaseIInv, LeaseTypeOK
  <2>3. ArgsExist'
    BY <2>1 DEF LeaseIInv, ArgsExist
  <2> QED
    BY <2>1, <2>2, <2>3, TableUntouched DEF LeaseIInv, LeaseTypeOK, TxTypeOK
<1>5. ASSUME UNCHANGED leaseVars PROVE LeaseIInv'
  <2>1. UNCHANGED <<lease, ledger, commands, tokens, tx, chain, rowLock>>
    BY <1>5 DEF leaseVars
  <2>2. ArgsExist'
    BY <2>1 DEF LeaseIInv, ArgsExist
  <2> QED
    BY <2>1, <2>2, TableUntouched DEF LeaseIInv, LeaseTypeOK, TxTypeOK
<1> QED
  BY <1>1, <1>2, <1>3, <1>4, <1>5, UninstallKeeps, TimeKeeps DEF LeaseNext

\* The invariant says what the checked property does: the first end is unique.
LEMMA FirstEndFromInv == LeaseIInv => FirstEndDecides
<1> SUFFICES ASSUME LeaseIInv, NEW l \in Leases
             PROVE  /\ NeverEnded(l) => lease[l].state \in {"none", "granted"}
                    /\ \A i \in DOMAIN ledger[l] : FirstEnd(l, i) => lease[l].state \in StateAfter(ledger[l][i])
  BY DEF FirstEndDecides
<1>1. lease[l].state \in Terminal \cup {"none", "granted"} /\ RowMatches(l)
  BY DEF LeaseIInv, LeaseTypeOK, RowMatchesLedger
<1>2. \A i \in DOMAIN ledger[l] : i \in Nat /\ i >= 1
  <2>1. ledger[l] \in Seq(Events)
    BY DEF LeaseIInv, TxTypeOK
  <2> QED
    BY <2>1
<1>3. ASSUME NEW i \in DOMAIN ledger[l], NEW j \in DOMAIN ledger[l], FirstEnd(l, i), FirstEnd(l, j)
      PROVE  i = j
  <2>1. ~(i < j) /\ ~(j < i)
    BY <1>2, <1>3 DEF FirstEnd
  <2> QED
    BY <1>2, <2>1
<1>4. CASE lease[l].state \in {"none", "granted"}
  BY <1>1, <1>4 DEF RowMatches, NeverEnded, FirstEnd
<1>5. CASE lease[l].state \in Terminal
  <2>1. PICK i \in DOMAIN ledger[l] : FirstEnd(l, i) /\ lease[l].state \in StateAfter(ledger[l][i])
    BY <1>1, <1>5 DEF RowMatches
  <2>2. ~NeverEnded(l)
    BY <2>1 DEF NeverEnded, FirstEnd
  <2> QED
    BY <1>3, <2>1, <2>2
<1> QED
  BY <1>1, <1>4, <1>5

\* LeaseIInv holds in every reachable state.
THEOREM LeasesInvariant == LeaseSpec => []LeaseIInv
<1> QED
  BY LeaseInitInv, LeaseNextInv, PTL DEF LeaseSpec

\* For any number of clients, leases and racing releases, expiries and
\* revocations, the row of a lease says what the first event that ended it
\* says (releaseLeaseTx, applyInstallationDeleted).
THEOREM LeasesFirstEnd == LeaseSpec => []FirstEndDecides
<1> QED
  BY LeasesInvariant, FirstEndFromInv, PTL

=============================================================================
