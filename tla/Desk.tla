-------------------------------- MODULE Desk --------------------------------
(***************************************************************************)
(* The requests of an office, so many of which are served.                 *)
(***************************************************************************)
EXTENDS RequestSteps, Naturals

CONSTANT MaxServed   \* bound: requests served

ASSUME ServedAssumption == MaxServed \in Nat

VARIABLE served      \* requests served

requestVars == <<pc, seen, served>>

Serve == served < MaxServed /\ served' = served + 1
Begin(p, step, what) == pc[p] = "idle" /\ Goes(p, step, what) /\ Serve
Continue(p, step, what) == Goes(p, step, what) /\ UNCHANGED served
\* A request that ends with a conflict has saved nothing.
Done(p) == Continue(p, "idle", None)
\* A request that is one statement.
AtOnce == Serve /\ UNCHANGED <<pc, seen>>

At(step) == {p \in Requests : pc[p] = step}
Nobody == \A p \in Requests : pc[p] = "idle"
NobodyYet == pc = [p \in Requests |-> "idle"] /\ seen = [p \in Requests |-> None] /\ served = 0
=============================================================================
