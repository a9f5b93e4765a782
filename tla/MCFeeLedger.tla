---------------------------- MODULE MCFeeLedger ----------------------------
(***************************************************************************)
(* Small instances of FeeLedger.  Two charges share an idempotency key, as *)
(* an instalment posted, withdrawn and posted again does; the third is a   *)
(* manual one.  The billing instances give everything to one student, the  *)
(* counter instances put the third charge on a second student, who shares  *)
(* only the receipt counter with the first.                                *)
(***************************************************************************)
EXTENDS FeeLedger, TLC

CONSTANTS s1, s2, k1, inst

MCSource == [c \in Charges |-> IF c = 3 THEN NoKey ELSE inst]
MCAmount == [c \in Charges |-> IF c = 2 THEN 1 ELSE 2]
OneStudent == [c \in Charges |-> s1]
TwoStudents == [c \in Charges |-> IF c = 3 THEN s2 ELSE s1]
\* Charges of the counter instances each have a key of their own.
NoSource == [c \in Charges |-> NoKey]
MCGrantee == [k \in Concessions |-> s1]
MCReduction == [k \in Concessions |-> [c \in Charges |-> 1]]
Interchangeable == Permutations(Requests)
=============================================================================
