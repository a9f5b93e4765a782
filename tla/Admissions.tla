----------------------------- MODULE Admissions -----------------------------
(***************************************************************************)
(* The registry of one branch (apps/people) and the fee plans that bill    *)
(* it (apps/fees): students, their enrolments and guardians, the current   *)
(* academic year, plans with their instalments, and the plan charges.      *)
(*                                                                         *)
(* An enrolment made through the API commits on its own and its signal     *)
(* then bills it plan by plan, each plan in a transaction; an import is    *)
(* one transaction.  Posting a charge is the idempotent post_charge that   *)
(* FeeLedger has in detail: here it adds to a set.  Nothing in the code    *)
(* withdraws a plan charge.                                                *)
(***************************************************************************)
EXTENDS Desk, Sequences, FiniteSets, SequencesExt

CONSTANTS
  Students, Years, Programs, Plans, Phones,
  Files,         \* files an import may upload: sequences of [student, program, phone]
  Admitted,      \* enrolments the API may get, as [student, year, program]
  FirstPlans, FirstYears, FirstStudents, \* plans, current years and students to begin with
  MaxRows,       \* bound: instalment rows ever created
  MaxCrashes     \* bound: requests that die half-way

\* A FeePlan with the rows of its instalments.
PlanRow == [year : Years, program : Programs, rows : SUBSET Nat]
\* The first plans have the instalments that were created first.
ASSUME PlansAssumption ==
  /\ None \notin PlanRow /\ FirstPlans \subseteq [Plans -> PlanRow \cup {None}]
  /\ \A first \in FirstPlans :
       LET all == UNION {first[f].rows : f \in {f \in Plans : first[f] # None}}
       IN  all = 1..Cardinality(all) /\ Cardinality(all) \in 0..MaxRows
FileRow == [student : Students, program : Programs \cup {None}, phone : Phones \cup {None}]
ASSUME FilesAssumption == Files \subseteq Seq(FileRow) /\ None \notin Files
ASSUME RosterAssumption ==
  /\ FirstStudents \subseteq SUBSET Students
  /\ Admitted \subseteq [student : Students, year : Years, program : Programs]
ASSUME RowsAssumption == {MaxRows, MaxCrashes} \subseteq Nat

VARIABLES
  current,       \* academic years with is_current
  student,       \* students with a row
  enrolment,     \* enrolment[s][y]: None or [program, status]
  guardians,     \* guardians[ph]: rows with that phone
  primary,       \* primary[s]: phone of the primary guardian, or None
  plan,          \* plan[f]: None or [year, program, rows], rows its instalments
  rows,          \* instalment rows created so far
  charges,       \* live plan charges, as <<student, instalment>>
  owed,          \* history: what a new enrolment was to be billed
  file,          \* history: the file a student was imported from, or None
  dropped,       \* history: instalments of plans that were deleted
  crashes

registry == <<current, student, enrolment, guardians, primary, file>>
fees == <<plan, rows, charges, owed, dropped>>
admissionVars == <<registry, fees, crashes>>

-----------------------------------------------------------------------------
(***************************************************************************)
(* Plans                                                                   *)
(***************************************************************************)
Existing == {f \in Plans : plan[f] # None}
\* _plan_applies: terms are left out.
PlansFor(y, g) == {f \in Existing : plan[f].year = y /\ plan[f].program = g}
Bills(s, of) == {s} \X of
RowsOf(set) == UNION {plan[f].rows : f \in set}
Fresh(n) == (rows + 1)..(rows + n)

CreatePlan(f, y, g, n) ==
  /\ plan[f] = None /\ rows + n <= MaxRows
  /\ AtOnce
  /\ plan' = [plan EXCEPT ![f] = [year |-> y, program |-> g, rows |-> Fresh(n)]]
  /\ rows' = rows + n
  /\ UNCHANGED <<registry, charges, owed, dropped, crashes>>

\* The view prefetches the instalments with the plan, before the transaction.
EditFetch(p, f) ==
  /\ plan[f] # None
  /\ Begin(p, "edit", [plan |-> f, rows |-> plan[f].rows])
  /\ UNCHANGED admissionVars
\* Saving the plan locks its row until the edit commits.
PlanFree(f) == \A q \in At("replace") : seen[q].plan # f
\* Fault: the instalments are replaced whoever was billed.
NeverBilled(of) == FALSE
Billed(of) == \E c \in charges : c[2] \in of
EditCheck(p) ==
  LET f == seen[p].plan
  IN  /\ pc[p] = "edit" /\ PlanFree(f)
      /\ IF plan[f] = None \/ Billed(seen[p].rows) THEN Done(p) ELSE Continue(p, "replace", seen[p])
      /\ UNCHANGED admissionVars
EditReplace(p) ==
  LET f == seen[p].plan
  IN  /\ pc[p] = "replace" /\ rows < MaxRows
      /\ plan' = [plan EXCEPT ![f].rows = Fresh(1)] /\ rows' = rows + 1
      /\ Done(p)
      /\ UNCHANGED <<registry, charges, owed, dropped, crashes>>

\* An edit without instalments saves the other fields and looks at no charge.
MovePlan(f, g) ==
  /\ plan[f] # None /\ PlanFree(f) /\ AtOnce
  /\ plan' = [plan EXCEPT ![f].program = g]
  /\ UNCHANGED <<registry, rows, charges, owed, dropped, crashes>>
DeletePlan(f) ==
  /\ plan[f] # None /\ PlanFree(f) /\ AtOnce
  /\ plan' = [plan EXCEPT ![f] = None] /\ dropped' = dropped \cup plan[f].rows
  /\ UNCHANGED <<registry, rows, charges, owed, crashes>>

\* apply_plan bills the enrolments it finds from the plan the view fetched.
ApplyFetch(p, f) ==
  /\ plan[f] # None
  /\ Begin(p, "apply", plan[f])
  /\ UNCHANGED admissionVars
ApplyRead(p) ==
  LET covered == {s \in student : enrolment[s][seen[p].year] = [program |-> seen[p].program, status |-> "active"]}
  IN  /\ pc[p] = "apply"
      /\ Continue(p, "post", covered \X seen[p].rows)
      /\ UNCHANGED admissionVars
ApplyPost(p) ==
  /\ pc[p] = "post"
  /\ charges' = charges \cup seen[p]
  /\ Done(p)
  /\ UNCHANGED <<registry, plan, rows, owed, dropped, crashes>>

-----------------------------------------------------------------------------
(***************************************************************************)
(* Enrolments                                                              *)
(***************************************************************************)
\* The rows an import has inserted and not committed yet.
Imported(s) == SubSeq(s.file, 1, Len(s.file) - Len(s.todo))
\* people_admission_no_unique: a number that an import under way has inserted
\* is waited for.
IndexFree(imports, st) == \A q \in imports : \A n \in DOMAIN Imported(seen[q]) : Imported(seen[q])[n].student # st

CreateStudent(s) ==
  /\ s \notin student /\ IndexFree(At("import"), s) /\ AtOnce
  /\ student' = student \cup {s}
  /\ UNCHANGED <<current, enrolment, guardians, primary, file, fees, crashes>>

\* The insert commits before the signal runs.
Enrol(p, s, y, g, status) ==
  /\ s \in student /\ enrolment[s][y] = None
  /\ enrolment' = [enrolment EXCEPT ![s][y] = [program |-> g, status |-> status]]
  /\ IF status = "active"
       THEN /\ Begin(p, "signal", [student |-> s, year |-> y, program |-> g])
            /\ owed' = owed \cup Bills(s, RowsOf(PlansFor(y, g)))
       ELSE pc[p] = "idle" /\ AtOnce /\ UNCHANGED owed
  /\ UNCHANGED <<current, student, guardians, primary, file, plan, rows, charges, dropped, crashes>>
\* Fault: one plan of the class is billed and the others are not.
FirstPlan(of) == IF of = {} THEN {} ELSE {CHOOSE b \in of : TRUE}
EveryPlan(of) == of
SignalRead(p) ==
  LET s == seen[p]
  IN  /\ pc[p] = "signal"
      /\ Continue(p, "bill", EveryPlan({Bills(s.student, plan[f].rows) : f \in PlansFor(s.year, s.program)}))
      /\ UNCHANGED admissionVars
SignalBill(p) ==
  /\ pc[p] = "bill"
  /\ IF seen[p] = {} THEN Done(p) /\ UNCHANGED charges
     ELSE \E one \in seen[p] : charges' = charges \cup one /\ Continue(p, "bill", seen[p] \ {one})
  /\ UNCHANGED <<registry, plan, rows, owed, dropped, crashes>>

\* Only a new enrolment is billed.
EditEnrolment(s, y, g, status) ==
  /\ enrolment[s][y] # None /\ AtOnce
  /\ enrolment' = [enrolment EXCEPT ![s][y] = [program |-> g, status |-> status]]
  /\ UNCHANGED <<current, student, guardians, primary, file, fees, crashes>>
DeleteEnrolment(s, y) ==
  /\ enrolment[s][y] # None /\ AtOnce
  /\ enrolment' = [enrolment EXCEPT ![s][y] = None]
  /\ UNCHANGED <<current, student, guardians, primary, file, fees, crashes>>

-----------------------------------------------------------------------------
(***************************************************************************)
(* Imports                                                                 *)
(***************************************************************************)
\* A row the file check lets pass; a dry run and a file with an error save
\* nothing and are left out.
Valid(row) == row.student \notin student /\ (row.program # None => current # {})
Upload(p, f) ==
  /\ \A n \in DOMAIN f : Valid(f[n])
  /\ Cardinality({f[n].student : n \in DOMAIN f}) = Len(f)
  /\ Begin(p, "import", [file |-> f, todo |-> f, year |-> IF current = {} THEN None ELSE CHOOSE y \in current : TRUE,
                         phones |-> {}, bills |-> {}])
  /\ UNCHANGED admissionVars

\* get_or_create finds no guardian, or one, or fails with two.
Guardians(s, ph) == guardians[ph] + (IF ph \in s.phones THEN 1 ELSE 0)
Refused(s, row) == row.student \in student \/ (row.phone # None /\ Guardians(s, row.phone) > 1)
ImportRow(p) ==
  LET s == seen[p]  row == Head(s.todo)
      named == IF row.phone # None /\ Guardians(s, row.phone) = 0 THEN {row.phone} ELSE {}
      bills == IF row.program = None THEN {} ELSE Bills(row.student, RowsOf(PlansFor(s.year, row.program)))
  IN  /\ pc[p] = "import" /\ s.todo # <<>> /\ IndexFree(At("import") \ {p}, row.student)
      /\ IF Refused(s, row) THEN Done(p)
         ELSE Continue(p, "import", [s EXCEPT !.todo = Tail(@), !.phones = @ \cup named, !.bills = @ \cup bills])
      /\ UNCHANGED admissionVars

\* Fault: the rows before a failure stay.
SavedSoFar(s) == IF Len(s.file) > 1 THEN SubSeq(s.file, 1, Len(s.file) - 1) ELSE s.file
\* What commits: every row of the file.
Saved(s) == s.file
ImportCommit(p) ==
  LET s == seen[p]
      all == ToSet(Saved(s))
      RowOf(st) == CHOOSE row \in all : row.student = st
      new == {row.student : row \in all}
  IN  /\ pc[p] = "import" /\ s.todo = <<>>
      /\ student' = student \cup new
      /\ enrolment' = [st \in Students |->
           IF st \in new /\ RowOf(st).program # None
             THEN [enrolment[st] EXCEPT ![s.year] = [program |-> RowOf(st).program, status |-> "active"]]
             ELSE enrolment[st]]
      /\ guardians' = [ph \in Phones |-> guardians[ph] + (IF ph \in s.phones THEN 1 ELSE 0)]
      /\ primary' = [st \in Students |-> IF st \in new THEN RowOf(st).phone ELSE primary[st]]
      /\ file' = [st \in Students |-> IF st \in new THEN s.file ELSE file[st]]
      /\ charges' = charges \cup {c \in s.bills : c[1] \in new}
      /\ owed' = owed \cup UNION {IF row.program = None THEN {}
                                   ELSE Bills(row.student, RowsOf(PlansFor(s.year, row.program))) : row \in all}
      /\ Done(p)
      /\ UNCHANGED <<current, plan, rows, dropped, crashes>>

-----------------------------------------------------------------------------
(***************************************************************************)
(* One current year, one primary guardian: unset the old, then set         *)
(***************************************************************************)
YearUnset(p, y) ==
  /\ current' = current \cap {y}
  /\ Begin(p, "year", y)
  /\ UNCHANGED <<student, enrolment, guardians, primary, file, fees, crashes>>
\* people_one_current_year
YearSet(p) ==
  /\ pc[p] = "year"
  /\ current' = IF current \subseteq {seen[p]} THEN {seen[p]} ELSE current
  /\ Done(p)
  /\ UNCHANGED <<student, enrolment, guardians, primary, file, fees, crashes>>

AddGuardian(ph) ==
  /\ guardians[ph] < 2 /\ AtOnce
  /\ guardians' = [guardians EXCEPT ![ph] = @ + 1]
  /\ UNCHANGED <<current, student, enrolment, primary, file, fees, crashes>>
LinkUnset(p, s, ph) ==
  /\ s \in student /\ guardians[ph] > 0 /\ primary[s] # ph
  /\ primary' = [primary EXCEPT ![s] = None]
  /\ Begin(p, "link", [student |-> s, phone |-> ph])
  /\ UNCHANGED <<current, student, enrolment, guardians, file, fees, crashes>>
\* people_one_primary_guardian
LinkSet(p) ==
  LET s == seen[p].student
  IN  /\ pc[p] = "link"
      /\ primary' = IF primary[s] = None THEN [primary EXCEPT ![s] = seen[p].phone] ELSE primary
      /\ Done(p)
      /\ UNCHANGED <<current, student, enrolment, guardians, file, fees, crashes>>

\* A request dies: what it has committed stays, its transaction is undone.
Crash(p) ==
  /\ crashes < MaxCrashes /\ pc[p] # "idle"
  /\ crashes' = crashes + 1
  /\ Done(p)
  /\ UNCHANGED <<registry, fees>>

-----------------------------------------------------------------------------
AdmissionInit ==
  /\ current \in FirstYears /\ student \in FirstStudents /\ file = [s \in Students |-> None]
  /\ enrolment = [s \in Students |-> [y \in Years |-> None]]
  /\ guardians = [ph \in Phones |-> 0] /\ primary = [s \in Students |-> None]
  /\ plan \in FirstPlans /\ rows = Cardinality(RowsOf(Existing))
  /\ charges = {} /\ owed = {} /\ dropped = {} /\ crashes = 0

PlanStep ==
  \/ \E p \in Requests : (\E f \in Plans : EditFetch(p, f)) \/ EditCheck(p) \/ EditReplace(p)
  \/ \E f \in Plans : \E g \in Programs : MovePlan(f, g) \/ \E y \in Years, n \in 1..2 : CreatePlan(f, y, g, n)
  \/ \E f \in Plans : DeletePlan(f)
BillingStep(p) ==
  \/ \E f \in Plans : ApplyFetch(p, f)
  \/ \E a \in Admitted, status \in {"active", "left"} : Enrol(p, a.student, a.year, a.program, status)
  \/ \E f \in Files : Upload(p, f)
  \/ ApplyRead(p) \/ ApplyPost(p) \/ SignalRead(p) \/ SignalBill(p) \/ ImportRow(p) \/ ImportCommit(p)
RegistryStep(p) ==
  \/ \E y \in Years : YearUnset(p, y)
  \/ \E s \in Students, ph \in Phones : LinkUnset(p, s, ph)
  \/ YearSet(p) \/ LinkSet(p)
Entry ==
  \/ \E s \in Students : CreateStudent(s)
  \/ \E a \in Admitted, status \in {"active", "left"} : EditEnrolment(a.student, a.year, a.program, status)
  \/ \E s \in Students, y \in Years : DeleteEnrolment(s, y)
  \/ \E ph \in Phones : AddGuardian(ph)

-----------------------------------------------------------------------------
\* "an enrolment and its charges commit or roll back together": whoever was
\* enrolled owes every instalment of the plans there were for the class, once
\* no request that bills is under way.
Billing == At("signal") \cup At("bill")
EnrolledIsBilled == Billing = {} => owed \subseteq charges

\* An import saves the whole file or nothing: each student came with the
\* others of the file, and was billed with them, whatever import or enrolment
\* overlapped and wherever it failed.
ImportedWhole ==
  \A s \in student : file[s] # None => \A n \in DOMAIN file[s] : file[file[s][n].student] = file[s]

\* "Students have already been billed from this plan; change their charges
\* instead": an instalment somebody was billed for is not edited away.
BilledFromLivePlan == \A c \in charges : c[2] \in RowsOf(Existing) \cup dropped
=============================================================================
