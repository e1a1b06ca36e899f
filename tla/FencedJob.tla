------------------------------ MODULE FencedJob ------------------------------
(***************************************************************************)
(* What the fleet's job table promises to the control-plane about each run *)
(* (I-11): the run is granted to one holder at a time, every grant and     *)
(* every revocation opens a new epoch, and at most one result is accepted, *)
(* in the epoch then granted.  Runs move independently and one step may    *)
(* move several of them (a batch claim, a sweep).                          *)
(***************************************************************************)
EXTENDS Naturals

CONSTANTS Runs, Outcomes
VARIABLE cell

Cell == [phase : {"none", "open", "granted", "closed"}, epoch : Nat,
         result : Outcomes \cup {"none"}]

At(p, e, x) == [phase |-> p, epoch |-> e, result |-> x]

Register(c, d) == c.phase = "none" /\ d = At("open", c.epoch, c.result)

Grant(c, d) == c.phase = "open" /\ d = At("granted", c.epoch + 1, c.result)

Revoke(c, d) == c.phase = "granted" /\ d = At("open", c.epoch + 1, c.result)

Kill(c, d) ==
    c.phase \in {"open", "granted"} /\ d = At("closed", c.epoch + 1, c.result)

Accept(c, d) ==
    c.phase = "granted" /\ \E o \in Outcomes : d = At("closed", c.epoch, o)

Move(c, d) ==
    Register(c, d) \/ Grant(c, d) \/ Revoke(c, d) \/ Kill(c, d) \/ Accept(c, d)

Init == cell = [r \in Runs |-> At("none", 0, "none")]

Next ==
    /\ cell' \in [Runs -> Cell]
    /\ \A r \in Runs : cell'[r] = cell[r] \/ Move(cell[r], cell'[r])

Spec == Init /\ [][Next]_cell
=============================================================================
