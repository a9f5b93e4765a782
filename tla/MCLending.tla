----------------------------- MODULE MCLending -----------------------------
(***************************************************************************)
(* Small instances of Lending, with loans short enough to be on time, late *)
(* or renewed within the days a run has.                                   *)
(***************************************************************************)
EXTENDS Lending, TLC

\* Sound only where every request may do the same things.
Interchangeable == Permutations(Requests)
\* Sound only where every member is billed.
AnyBookOrMember == Permutations(Books) \cup Permutations(Members)
=============================================================================
