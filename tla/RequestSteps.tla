---------------------------- MODULE RequestSteps ----------------------------
(***************************************************************************)
(* Requests that overlap.  Nothing but the services opens a transaction,   *)
(* so what a view reads before it calls one may be old when it is used:    *)
(* each request goes through steps, and keeps what it has read.            *)
(***************************************************************************)
EXTENDS Null

CONSTANT Requests   \* requests that may overlap

VARIABLES
  pc,            \* the step a request is at, or idle
  seen           \* what it has read so far

Goes(p, step, what) == pc' = [pc EXCEPT ![p] = step] /\ seen' = [seen EXCEPT ![p] = what]
=============================================================================
