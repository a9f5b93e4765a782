------------------------- MODULE MCSubscriptionGate -------------------------
(***************************************************************************)
(* Small instances of SubscriptionGate.  Subscriptions end on day 0 or 1   *)
(* with no grace or one day of it, so the walk to day 3 takes a row        *)
(* through every status the task can give it.                              *)
(***************************************************************************)
EXTENDS SubscriptionGate, TLC

Interchangeable == Permutations(Requests)
=============================================================================
