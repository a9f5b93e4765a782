----------------------------- MODULE LateFines ------------------------------
(***************************************************************************)
(* Late fines on the plan charges of Admissions (apply_late_fines of       *)
(* apps/fees/services.py).  Nothing in src/ but a test calls it, so a run  *)
(* is a request that may come at any time and overlap another; its day is  *)
(* the day it started.                                                     *)
(***************************************************************************)
EXTENDS Admissions

CONSTANTS
  DueOf(_),      \* due day of an instalment
  grace_days, late_fine_amount,
  PerDay(_),     \* whether the rule of its head is per day, not flat
  LastDay        \* bound: last day told apart

ASSUME FineAssumption ==
  /\ {grace_days, late_fine_amount, LastDay} \subseteq Nat
  /\ \A i \in 1..MaxRows : DueOf(i) \in Int /\ PerDay(i) \in BOOLEAN

VARIABLES
  today,
  paidOn,        \* paidOn[c]: day the charge c was paid in full, for paid charges
  fine           \* fine[c]: live late fine of the charge c, for charges that have one

fineVars == <<today, paidOn, fine>>

days_late(c, day) == day - DueOf(c[2]) - grace_days
Amount(c, day) == IF PerDay(c[2]) THEN late_fine_amount * days_late(c, day) ELSE late_fine_amount

\* Fault: a paid charge is fined on.
AllCharges == charges
Outstanding == charges \ DOMAIN paidOn
FineRead(p) ==
  LET overdue == {c \in Outstanding : days_late(c, today) > 0}
  IN  /\ Begin(p, "fine", [c \in overdue |-> [amount |-> Amount(c, today),
                                              found  |-> IF c \in DOMAIN fine THEN fine[c] ELSE None]])
      /\ UNCHANGED <<admissionVars, fineVars>>
\* A fine that was not found is posted, unless the key has one by now; a
\* smaller one is overwritten.
FineWrite(p) ==
  LET new   == {c \in DOMAIN seen[p] : seen[p][c].found = None} \ DOMAIN fine
      grown == {c \in DOMAIN seen[p] : seen[p][c].found # None /\ seen[p][c].amount > seen[p][c].found}
  IN  /\ pc[p] = "fine"
      /\ fine' = [c \in DOMAIN fine \cup new |-> IF c \in new \cup grown THEN seen[p][c].amount ELSE fine[c]]
      /\ Done(p)
      /\ UNCHANGED <<admissionVars, today, paidOn>>

\* External: the counter (FeeLedger).
Pay(c) ==
  /\ c \in Outstanding /\ AtOnce
  /\ paidOn' = [d \in DOMAIN paidOn \cup {c} |-> IF d = c THEN today ELSE paidOn[d]]
  /\ UNCHANGED <<admissionVars, today, fine>>
NextDay ==
  /\ today < LastDay /\ today' = today + 1
  /\ UNCHANGED <<admissionVars, requestVars, paidOn, fine>>

FineInit == today = 1 /\ paidOn = <<>> /\ fine = <<>>
FineStep ==
  \/ \E p \in Requests : FineRead(p) \/ FineWrite(p)
  \/ \E c \in charges : Pay(c)
  \/ NextDay

-----------------------------------------------------------------------------
\* A fine is never more than the head's rule gives for the days the charge was
\* late, and stops growing when the charge is paid, although runs overlap with
\* payments and with each other.
FineWithinRule ==
  \A c \in DOMAIN fine :
    LET last == DueOf(c[2]) + grace_days
        day  == IF c \in DOMAIN paidOn THEN paidOn[c] ELSE today
    IN  day > last /\ fine[c] <= late_fine_amount * (IF PerDay(c[2]) THEN day - last ELSE 1)
=============================================================================
