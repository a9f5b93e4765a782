------------------------------- MODULE Office -------------------------------
(***************************************************************************)
(* The front office of a branch: admissions and plan billing with the late *)
(* fines on what they bill, and the registers, served by the same desks.   *)
(***************************************************************************)
EXTENDS LateFines, Registers

vars == <<admissionVars, fineVars, registerVars, requestVars>>

Init == AdmissionInit /\ FineInit /\ RegisterInit /\ NobodyYet

Admission(step) == step /\ UNCHANGED <<fineVars, registerVars>>
Next ==
  \/ Admission(PlanStep)
  \/ \E p \in Requests : Admission(BillingStep(p)) \/ Admission(RegistryStep(p)) \/ Admission(Crash(p))
  \/ Admission(Entry)
  \/ FineStep /\ UNCHANGED registerVars
  \/ RegisterStep /\ UNCHANGED <<admissionVars, fineVars>>
Spec == Init /\ [][Next]_vars

\* No request that bills or edits a plan overlaps one that edits a plan, and
\* none dies between the insert of an enrolment and its bills.
PlansAtRest == At("edit") \cup At("replace") = {}
NobodyBills == \A p \in Requests : pc[p] \notin {"signal", "bill", "apply", "post", "import"}
OrderlyNext ==
  \/ NobodyBills /\ Admission(PlanStep)
  \/ \E p \in Requests :
       \/ PlansAtRest /\ Admission(BillingStep(p))
       \/ Admission(RegistryStep(p))
       \/ p \notin Billing /\ Admission(Crash(p))
  \/ Admission(Entry)
  \/ FineStep /\ UNCHANGED registerVars
  \/ RegisterStep /\ UNCHANGED <<admissionVars, fineVars>>
OrderlySpec == Init /\ [][OrderlyNext]_vars

-----------------------------------------------------------------------------
\* Whoever is enrolled is billed by every plan of the class, and an import is
\* saved and billed as a whole.
AdmittedWhole == EnrolledIsBilled /\ ImportedWhole
\* What is charged is what the plans and the rule for late fines say.
ChargedByTheRules == BilledFromLivePlan /\ FineWithinRule
\* Neither seats nor stock are given out twice.
SeatsAndStockLast == [][SeatsLast /\ StockLasts']_vars
=============================================================================
