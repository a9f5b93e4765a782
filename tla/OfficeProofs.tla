---------------------------- MODULE OfficeProofs ----------------------------
(***************************************************************************)
(* Proofs about Office, for any branch: any students, classes, plans,      *)
(* files, vehicles and items, and any number of requests that overlap.     *)
(*                                                                         *)
(* Four invariants, one per thing the front office keeps.  RegisterInv,    *)
(* AdmissionInv and FineInv are kept by every step of Spec; PlanInv needs  *)
(* the steps of OrderlySpec.  Each says what a request may rely on of what *)
(* it has read; a step of one part of the office leaves the variables of   *)
(* the other parts alone and moves no request to one of their steps        *)
(* (Moves), so each invariant is broken down by the steps of its own part  *)
(* only.                                                                   *)
(***************************************************************************)
EXTENDS Office, FiniteSetTheorems, SequenceTheorems, TLAPS

PlanSteps == {"edit", "replace"}
BillSteps == {"signal", "bill", "apply", "post", "import"}
RegistrySteps == {"year", "link"}
RegisterSteps == {"seat", "unseat", "issue", "back", "return", "item", "pay"}

DeskShape == DOMAIN pc = Requests /\ DOMAIN seen = Requests
\* Every request stays where it is, with what it has read, or moves from a step
\* of `from` to one of `to`.
Moves(from, to) ==
  /\ DOMAIN pc' = Requests /\ DOMAIN seen' = Requests
  /\ \A q \in Requests : \/ pc'[q] = pc[q] /\ seen'[q] = seen[q]
                         \/ pc[q] \in from /\ pc'[q] \in to
\* Only p moves, to `step`, with what it has read.
OnlyMoves(p, step, what) ==
  /\ DOMAIN pc' = Requests /\ DOMAIN seen' = Requests
  /\ pc'[p] = step /\ seen'[p] = what
  /\ \A q \in Requests : q # p => pc'[q] = pc[q] /\ seen'[q] = seen[q]

\* A request that goes on leaves the others where they are.
LEMMA GoesOn ==
  ASSUME DeskShape, NEW p \in Requests, NEW step, NEW what, Goes(p, step, what)
  PROVE  OnlyMoves(p, step, what)
BY DEF DeskShape, Goes, OnlyMoves

\* One that begins, goes on or ends moves from the step it is at.
LEMMA OneMoves ==
  ASSUME NEW p \in Requests, NEW step, NEW what, OnlyMoves(p, step, what),
         NEW from, NEW to, pc[p] \in from, step \in to
  PROVE  Moves(from, to)
BY DEF OnlyMoves, Moves

\* A step without a request moves nobody.
LEMMA NobodyMoves ==
  ASSUME DeskShape, UNCHANGED <<pc, seen>>, NEW from, NEW to
  PROVE  Moves(from, to)
BY DEF DeskShape, Moves

-----------------------------------------------------------------------------
(***************************************************************************)
(* What the steps of each part of the office may move.                     *)
(***************************************************************************)
\* Work on plans.
LEMMA PlanMoves ==
  ASSUME DeskShape, PlanStep
  PROVE  /\ Moves({"idle"} \cup PlanSteps, {"idle"} \cup PlanSteps)
         /\ UNCHANGED <<registry, charges, owed, crashes>>
<1> DEFINE steps == {"idle"} \cup PlanSteps
<1>1. ASSUME NEW p \in Requests, NEW f \in Plans, EditFetch(p, f)
      PROVE  Moves(steps, steps) /\ UNCHANGED <<registry, charges, owed, crashes>>
  BY <1>1, GoesOn, OneMoves DEF EditFetch, Begin, PlanSteps, admissionVars, fees
<1>2. ASSUME NEW p \in Requests, EditCheck(p)
      PROVE  Moves(steps, steps) /\ UNCHANGED <<registry, charges, owed, crashes>>
  <2>1. \E step \in steps : \E what : Goes(p, step, what)
    BY <1>2 DEF EditCheck, Done, Continue, PlanSteps
  <2>2. pc[p] \in steps
    BY <1>2 DEF EditCheck, PlanSteps
  <2> QED
    BY <1>2, <2>1, <2>2, GoesOn, OneMoves DEF EditCheck, admissionVars, fees
<1>3. ASSUME NEW p \in Requests, EditReplace(p)
      PROVE  Moves(steps, steps) /\ UNCHANGED <<registry, charges, owed, crashes>>
  <2>1. Goes(p, "idle", None) /\ pc[p] \in steps
    BY <1>3 DEF EditReplace, Done, Continue, PlanSteps
  <2> QED
    BY <1>3, <2>1, GoesOn, OneMoves DEF EditReplace
<1>4. ASSUME NEW f \in Plans, NEW g \in Programs, MovePlan(f, g)
      PROVE  Moves(steps, steps) /\ UNCHANGED <<registry, charges, owed, crashes>>
  BY <1>4, NobodyMoves DEF MovePlan, AtOnce
<1>5. ASSUME NEW f \in Plans, NEW g \in Programs, NEW y \in Years, NEW n \in 1..2, CreatePlan(f, y, g, n)
      PROVE  Moves(steps, steps) /\ UNCHANGED <<registry, charges, owed, crashes>>
  BY <1>5, NobodyMoves DEF CreatePlan, AtOnce
<1>6. ASSUME NEW f \in Plans, DeletePlan(f)
      PROVE  Moves(steps, steps) /\ UNCHANGED <<registry, charges, owed, crashes>>
  BY <1>6, NobodyMoves DEF DeletePlan, AtOnce
<1> QED
  BY <1>1, <1>2, <1>3, <1>4, <1>5, <1>6 DEF PlanStep

\* Work that bills.
LEMMA BillingMoves ==
  ASSUME DeskShape, NEW p \in Requests, BillingStep(p)
  PROVE  /\ Moves({"idle"} \cup BillSteps, {"idle"} \cup BillSteps)
         /\ UNCHANGED <<plan, rows, dropped>>
<1> DEFINE steps == {"idle"} \cup BillSteps
<1>0. ASSUME NEW step \in steps, NEW what, Goes(p, step, what), pc[p] \in steps
      PROVE  Moves(steps, steps)
  BY <1>0, GoesOn, OneMoves
<1>1. ASSUME NEW f \in Plans, ApplyFetch(p, f)
      PROVE  Moves(steps, steps) /\ UNCHANGED <<plan, rows, dropped>>
  BY <1>0, <1>1 DEF ApplyFetch, Begin, BillSteps, admissionVars, fees
<1>2. ASSUME NEW a \in Admitted, NEW status \in {"active", "left"}, Enrol(p, a.student, a.year, a.program, status)
      PROVE  Moves(steps, steps) /\ UNCHANGED <<plan, rows, dropped>>
  <2>1. CASE status = "active"
    BY <1>0, <1>2, <2>1 DEF Enrol, Begin, BillSteps
  <2>2. CASE status # "active"
    BY <1>2, <2>2, NobodyMoves DEF Enrol, AtOnce
  <2> QED
    BY <2>1, <2>2
<1>3. ASSUME NEW f \in Files, Upload(p, f)
      PROVE  Moves(steps, steps) /\ UNCHANGED <<plan, rows, dropped>>
  BY <1>0, <1>3 DEF Upload, Begin, BillSteps, admissionVars, fees
<1>4. ASSUME ApplyRead(p)
      PROVE  Moves(steps, steps) /\ UNCHANGED <<plan, rows, dropped>>
  BY <1>0, <1>4 DEF ApplyRead, Continue, BillSteps, admissionVars, fees
<1>5. ASSUME ApplyPost(p)
      PROVE  Moves(steps, steps) /\ UNCHANGED <<plan, rows, dropped>>
  BY <1>0, <1>5 DEF ApplyPost, Done, Continue, BillSteps
<1>6. ASSUME SignalRead(p)
      PROVE  Moves(steps, steps) /\ UNCHANGED <<plan, rows, dropped>>
  BY <1>0, <1>6 DEF SignalRead, Continue, BillSteps, admissionVars, fees
<1>7. ASSUME SignalBill(p)
      PROVE  Moves(steps, steps) /\ UNCHANGED <<plan, rows, dropped>>
  <2>1. \E step \in steps : \E what : Goes(p, step, what)
    BY <1>7 DEF SignalBill, Done, Continue, BillSteps
  <2> QED
    BY <1>0, <1>7, <2>1 DEF SignalBill, BillSteps
<1>8. ASSUME ImportRow(p)
      PROVE  Moves(steps, steps) /\ UNCHANGED <<plan, rows, dropped>>
  <2>1. \E step \in steps : \E what : Goes(p, step, what)
    BY <1>8 DEF ImportRow, Done, Continue, BillSteps
  <2> QED
    BY <1>0, <1>8, <2>1 DEF ImportRow, BillSteps, admissionVars, fees
<1>9. ASSUME ImportCommit(p)
      PROVE  Moves(steps, steps) /\ UNCHANGED <<plan, rows, dropped>>
  BY <1>0, <1>9 DEF ImportCommit, Done, Continue, BillSteps
<1> QED
  BY <1>1, <1>2, <1>3, <1>4, <1>5, <1>6, <1>7, <1>8, <1>9 DEF BillingStep

\* The current year and the primary guardian.
LEMMA RegistryMoves ==
  ASSUME DeskShape, NEW p \in Requests, RegistryStep(p)
  PROVE  /\ Moves({"idle"} \cup RegistrySteps, {"idle"} \cup RegistrySteps)
         /\ UNCHANGED <<student, file, fees>>
<1> DEFINE steps == {"idle"} \cup RegistrySteps
<1>0. ASSUME NEW step \in steps, NEW what, Goes(p, step, what), pc[p] \in steps
      PROVE  Moves(steps, steps)
  BY <1>0, GoesOn, OneMoves
<1>1. ASSUME NEW y \in Years, YearUnset(p, y)
      PROVE  Moves(steps, steps) /\ UNCHANGED <<student, file, fees>>
  BY <1>0, <1>1 DEF YearUnset, Begin, RegistrySteps
<1>2. ASSUME NEW s \in Students, NEW ph \in Phones, LinkUnset(p, s, ph)
      PROVE  Moves(steps, steps) /\ UNCHANGED <<student, file, fees>>
  BY <1>0, <1>2 DEF LinkUnset, Begin, RegistrySteps
<1>3. ASSUME YearSet(p)
      PROVE  Moves(steps, steps) /\ UNCHANGED <<student, file, fees>>
  BY <1>0, <1>3 DEF YearSet, Done, Continue, RegistrySteps
<1>4. ASSUME LinkSet(p)
      PROVE  Moves(steps, steps) /\ UNCHANGED <<student, file, fees>>
  BY <1>0, <1>4 DEF LinkSet, Done, Continue, RegistrySteps
<1> QED
  BY <1>1, <1>2, <1>3, <1>4 DEF RegistryStep

\* A request that dies.
LEMMA CrashMoves ==
  ASSUME DeskShape, NEW p \in Requests, Crash(p)
  PROVE  /\ OnlyMoves(p, "idle", None)
         /\ UNCHANGED <<registry, fees>>
BY GoesOn DEF Crash, Done, Continue

\* Requests of one statement.
LEMMA EntryMoves ==
  ASSUME DeskShape, Entry
  PROVE  /\ Moves({}, {}) /\ UNCHANGED <<file, fees, pc, seen>>
         /\ UNCHANGED student \/ \E s \in Students : CreateStudent(s)
<1>1. UNCHANGED <<pc, seen>> => Moves({}, {})
  BY NobodyMoves
<1> QED
  BY <1>1 DEF Entry, CreateStudent, EditEnrolment, DeleteEnrolment, AddGuardian, AtOnce

\* Runs that add late fines, and payments.
LEMMA FineMoves ==
  ASSUME DeskShape, FineStep
  PROVE  Moves({"idle", "fine"}, {"idle", "fine"}) /\ UNCHANGED admissionVars
<1> DEFINE steps == {"idle", "fine"}
<1>1. ASSUME NEW p \in Requests, FineRead(p)
      PROVE  Moves(steps, steps) /\ UNCHANGED admissionVars
  BY <1>1, GoesOn, OneMoves DEF FineRead, Begin
<1>2. ASSUME NEW p \in Requests, FineWrite(p)
      PROVE  Moves(steps, steps) /\ UNCHANGED admissionVars
  BY <1>2, GoesOn, OneMoves DEF FineWrite, Done, Continue
<1>3. ASSUME NEW c \in charges, Pay(c)
      PROVE  Moves(steps, steps) /\ UNCHANGED admissionVars
  BY <1>3, NobodyMoves DEF Pay, AtOnce
<1>4. ASSUME NextDay
      PROVE  Moves(steps, steps) /\ UNCHANGED admissionVars
  BY <1>4, NobodyMoves DEF NextDay, requestVars
<1> QED
  BY <1>1, <1>2, <1>3, <1>4 DEF FineStep

\* The registers.
LEMMA RegisterMoves ==
  ASSUME DeskShape, RegisterStep
  PROVE  Moves({"idle"} \cup RegisterSteps, {"idle"} \cup RegisterSteps)
<1> DEFINE steps == {"idle"} \cup RegisterSteps
<1>0. ASSUME NEW p \in Requests, NEW step \in steps, NEW what, Goes(p, step, what), pc[p] \in steps
      PROVE  Moves(steps, steps)
  BY <1>0, GoesOn, OneMoves
<1> HIDE DEF steps
<1>1. {"idle"} \cup RegisterSteps = steps
  BY DEF steps
<1>2. ASSUME NEW p \in Requests,
             AssignLock(p) \/ (\E r \in Riders : UnassignFetch(p, r)) \/ IssueLock(p)
               \/ (\E i \in Issues : ReturnFetch(p, i)) \/ ItemFetch(p) \/ (\E month \in Months : PayCheck(p, month))
      PROVE  Moves(steps, steps)
  <2>1. \E step \in steps : \E what : Goes(p, step, what) /\ pc[p] \in steps
    BY <1>2 DEF AssignLock, UnassignFetch, IssueLock, ReturnFetch, ItemFetch, PayCheck, Begin, RegisterSteps, steps
  <2> QED
    BY <1>0, <2>1
<1>3. ASSUME NEW p \in Requests,
             AssignInsert(p) \/ UnassignSave(p) \/ IssueSave(p) \/ ReturnSave(p) \/ ReturnLock(p)
               \/ (\E total \in 1..MaxUnits : ItemSave(p, total)) \/ PayInsert(p)
      PROVE  Moves(steps, steps)
  <2>1. \E step \in steps : \E what : Goes(p, step, what) /\ pc[p] \in steps
    BY <1>3 DEF AssignInsert, UnassignSave, IssueSave, ReturnSave, ReturnLock, ItemSave, PayInsert, Done, Continue,
                RegisterSteps, steps
  <2> QED
    BY <1>0, <2>1
<1>4. ASSUME NEW n \in 0..MaxUnits, EditVehicle(n)
      PROVE  Moves(steps, steps)
  BY <1>4, NobodyMoves DEF EditVehicle, AtOnce
<1> QED
  BY <1>1, <1>2, <1>3, <1>4 DEF RegisterStep

-----------------------------------------------------------------------------
(***************************************************************************)
(* The registers: whoever holds the row of the vehicle has a seat for one  *)
(* more, and whoever holds the row of the item knows what is on the shelf: *)
(* more than nothing, for a unit that is about to be handed out.           *)
(***************************************************************************)
RegisterTables ==
  /\ rider \in [Riders -> {"none", "riding", "removed"}] /\ capacity \in Nat
  /\ issue \in [Issues -> {"none", "out", "returned"}] /\ item \in [total : Nat, available : Nat]
RegisterCarries(step, what) ==
  /\ step = "seat" => active_riders < capacity
  /\ step = "issue" => what = item.available /\ what >= 1
  /\ step = "back" => what \in Issues
  /\ step = "return" => what.issue \in Issues /\ what.available = item.available
  /\ step = "item" => what \in Nat
HoldsItem == At("issue") \cup At("return")
OneHolder ==
  /\ \A p, q \in At("seat") : p = q
  /\ \A p, q \in HoldsItem : p = q
RegisterInv ==
  /\ DeskShape /\ RegisterTables /\ OneHolder /\ StockLasts
  /\ \A p \in Requests : RegisterCarries(pc[p], seen[p])

\* The counts are numbers, and count every row once.
LEMMA Counts ==
  ASSUME RegisterTables
  PROVE  active_riders \in Nat /\ UnitsOut \in Nat
<1>1. IsFiniteSet({r \in Riders : rider[r] = "riding"}) /\ IsFiniteSet({i \in Issues : issue[i] = "out"})
  BY UnitsAssumption, FS_Subset
<1> QED
  BY <1>1, FS_CardinalityType DEF active_riders, UnitsOut

\* One more rider has one more row.
LEMMA OneMoreRider ==
  ASSUME RegisterTables, NEW r \in New(rider), rider' = [rider EXCEPT ![r] = "riding"]
  PROVE  active_riders' = active_riders + 1
<1> DEFINE riding == {q \in Riders : rider[q] = "riding"}
<1>1. IsFiniteSet(riding)
  BY UnitsAssumption, FS_Subset
<1>2. r \in Riders /\ r \notin riding /\ {q \in Riders : rider'[q] = "riding"} = riding \cup {r}
  BY DEF RegisterTables, New
<1> QED
  BY <1>1, <1>2, FS_AddElement DEF active_riders

\* A row that is removed adds nobody.
LEMMA NoMoreRiders ==
  ASSUME RegisterTables, NEW r, rider' = [rider EXCEPT ![r] = "removed"]
  PROVE  active_riders' \in Nat /\ active_riders' <= active_riders
<1> DEFINE riding == {q \in Riders : rider[q] = "riding"}
           after == {q \in Riders : rider'[q] = "riding"}
<1>1. IsFiniteSet(riding) /\ after \subseteq riding
  BY UnitsAssumption, FS_Subset DEF RegisterTables
<1>2. Cardinality(after) <= Cardinality(riding) /\ Cardinality(after) \in Nat
  BY <1>1, FS_Subset, FS_CardinalityType
<1> QED
  BY <1>2 DEF active_riders

\* One more unit is handed out.
LEMMA OneMoreOut ==
  ASSUME RegisterTables, NEW i \in New(issue), issue' = [issue EXCEPT ![i] = "out"]
  PROVE  UnitsOut' = UnitsOut + 1
<1> DEFINE out == {q \in Issues : issue[q] = "out"}
<1>1. IsFiniteSet(out)
  BY UnitsAssumption, FS_Subset
<1>2. i \in Issues /\ i \notin out /\ {q \in Issues : issue'[q] = "out"} = out \cup {i}
  BY DEF RegisterTables, New
<1> QED
  BY <1>1, <1>2, FS_AddElement DEF UnitsOut

\* A unit that comes back hands out nothing, and is out no longer.
LEMMA NoMoreOut ==
  ASSUME RegisterTables, NEW i \in Issues, issue' = [issue EXCEPT ![i] = "returned"]
  PROVE  /\ UnitsOut' \in Nat /\ UnitsOut' <= UnitsOut
         /\ issue[i] = "out" => UnitsOut' = UnitsOut - 1
<1> DEFINE out == {q \in Issues : issue[q] = "out"}
           after == {q \in Issues : issue'[q] = "out"}
<1>1. IsFiniteSet(out) /\ after \subseteq out
  BY UnitsAssumption, FS_Subset DEF RegisterTables
<1>2. Cardinality(after) <= Cardinality(out) /\ Cardinality(after) \in Nat
  BY <1>1, FS_Subset, FS_CardinalityType
<1>3. ASSUME issue[i] = "out" PROVE Cardinality(after) = Cardinality(out) - 1
  <2>1. i \in out /\ after = out \ {i}
    BY <1>3 DEF RegisterTables
  <2> HIDE DEF out, after
  <2>2. QED
    BY <1>1, <2>1, FS_RemoveElement
<1> QED
  BY <1>2, <1>3 DEF UnitsOut

-----------------------------------------------------------------------------
(***************************************************************************)
(* RegisterInv is kept.                                                    *)
(***************************************************************************)
\* A step of another part of the office.
LEMMA RegistersLeftAlone ==
  ASSUME RegisterInv, UNCHANGED registerVars, NEW from, NEW to, Moves(from, to), to \cap RegisterSteps = {}
  PROVE  RegisterInv'
<1>1. RegisterTables' /\ active_riders' = active_riders /\ DeskShape' /\ StockLasts'
  <2>1. UNCHANGED <<rider, capacity, item, issue, restocked>>
    BY DEF registerVars, stockVars
  <2>2. RegisterTables' /\ DeskShape'
    BY <2>1 DEF RegisterInv, RegisterTables, Moves, DeskShape
  <2>3. active_riders' = active_riders /\ UnitsOut' = UnitsOut
    BY <2>1 DEF active_riders, UnitsOut
  <2> QED
    BY <2>1, <2>2, <2>3 DEF RegisterInv, StockLasts
<1>2. \A q \in Requests : pc'[q] \in RegisterSteps => pc'[q] = pc[q] /\ seen'[q] = seen[q]
  BY DEF Moves
<1>3. OneHolder'
  BY <1>2 DEF RegisterInv, OneHolder, HoldsItem, At, RegisterSteps
<1>4. \A q \in Requests : RegisterCarries(pc[q], seen[q])'
  BY <1>1, <1>2 DEF RegisterInv, RegisterCarries, RegisterSteps, registerVars, stockVars
<1> QED
  BY <1>1, <1>3, <1>4 DEF RegisterInv

\* Seats: each step of an assignment.
LEMMA SeatSteps ==
  ASSUME RegisterInv, NEW p \in Requests,
         AssignLock(p) \/ AssignInsert(p) \/ UnassignSave(p) \/ (\E r \in Riders : UnassignFetch(p, r))
  PROVE  RegisterInv' /\ SeatsLast
<1>1. DeskShape /\ RegisterTables
  BY DEF RegisterInv
<1>2. active_riders \in Nat /\ UnitsOut \in Nat
  BY <1>1, Counts
<1>3. ASSUME UNCHANGED rider PROVE active_riders' = active_riders
  BY <1>3 DEF active_riders
<1>4. UNCHANGED <<item, issue, restocked>> /\ UnitsOut' = UnitsOut /\ StockLasts'
  <2>1. UNCHANGED <<item, issue, restocked>>
    BY DEF AssignLock, AssignInsert, UnassignSave, UnassignFetch, registerVars, stockVars
  <2>2. UnitsOut' = UnitsOut
    BY <2>1 DEF UnitsOut
  <2> QED
    BY <2>1, <2>2 DEF RegisterInv, StockLasts
<1>5. CASE AssignLock(p)
  <2>1. OnlyMoves(p, "seat", None)
    BY <1>1, <1>5, GoesOn DEF AssignLock, Begin
  <2>2. At("seat") = {} /\ active_riders < capacity /\ UNCHANGED registerVars /\ pc[p] = "idle"
    BY <1>5 DEF AssignLock, RowFree, HasSeat, Begin
  <2>3. RegisterTables' /\ active_riders' = active_riders /\ DeskShape'
    BY <1>1, <1>3, <2>1, <2>2 DEF RegisterTables, registerVars, stockVars, OnlyMoves, DeskShape
  <2>4. OneHolder'
    BY <2>1, <2>2 DEF OneHolder, HoldsItem, At, OnlyMoves, RegisterInv
  <2>5. \A q \in Requests : RegisterCarries(pc[q], seen[q])'
    BY <2>1, <2>2, <2>3 DEF RegisterInv, RegisterCarries, OnlyMoves, registerVars, stockVars
  <2> QED
    BY <1>2, <1>4, <2>3, <2>4, <2>5 DEF RegisterInv, SeatsLast
<1>6. CASE AssignInsert(p)
  <2>1. OnlyMoves(p, "idle", None) /\ pc[p] = "seat"
    BY <1>1, <1>6, GoesOn DEF AssignInsert, Done, Continue
  <2>2. PICK r \in New(rider) : rider' = [rider EXCEPT ![r] = "riding"]
    BY <1>6 DEF AssignInsert
  <2>3. active_riders' = active_riders + 1 /\ active_riders < capacity /\ UNCHANGED capacity
    BY <1>1, <1>6, <2>1, <2>2, OneMoreRider DEF AssignInsert, RegisterInv, RegisterCarries
  <2>4. RegisterTables' /\ DeskShape'
    BY <1>1, <1>4, <2>1, <2>2, <2>3 DEF RegisterTables, OnlyMoves, DeskShape
  <2>5. OneHolder' /\ At("seat")' = {}
    BY <2>1 DEF OneHolder, HoldsItem, At, OnlyMoves, RegisterInv
  <2>6. \A q \in Requests : RegisterCarries(pc[q], seen[q])'
    BY <1>4, <2>1, <2>5 DEF RegisterInv, RegisterCarries, OnlyMoves, At
  <2> QED
    BY <1>1, <1>2, <1>4, <2>3, <2>4, <2>5, <2>6 DEF RegisterInv, SeatsLast, RegisterTables
<1>7. CASE UnassignSave(p)
  <2>1. OnlyMoves(p, "idle", None) /\ UNCHANGED capacity
    BY <1>1, <1>7, GoesOn DEF UnassignSave, Done, Continue
  <2>2. RegisterTables' /\ DeskShape'
    BY <1>1, <1>4, <1>7, <2>1 DEF UnassignSave, RegisterTables, OnlyMoves, DeskShape
  <2>3. active_riders' <= active_riders /\ active_riders' \in Nat
    BY <1>1, <1>7, NoMoreRiders DEF UnassignSave
  <2>4. OneHolder'
    BY <2>1 DEF OneHolder, HoldsItem, At, OnlyMoves, RegisterInv
  <2>5. \A q \in Requests : RegisterCarries(pc[q], seen[q])'
    BY <1>1, <1>2, <1>4, <2>1, <2>3 DEF RegisterInv, RegisterCarries, OnlyMoves, RegisterTables
  <2> QED
    BY <1>2, <1>4, <2>2, <2>3, <2>4, <2>5 DEF RegisterInv, SeatsLast
<1>8. CASE \E r \in Riders : UnassignFetch(p, r)
  <2>1. PICK r \in Riders : OnlyMoves(p, "unseat", r) /\ UNCHANGED registerVars
    BY <1>1, <1>8, GoesOn DEF UnassignFetch, Begin
  <2>2. RegisterTables' /\ DeskShape' /\ active_riders' = active_riders
    BY <1>1, <1>3, <2>1 DEF RegisterTables, registerVars, stockVars, OnlyMoves, DeskShape
  <2>3. OneHolder'
    BY <2>1 DEF OneHolder, HoldsItem, At, OnlyMoves, RegisterInv
  <2>4. \A q \in Requests : RegisterCarries(pc[q], seen[q])'
    BY <2>1, <2>2 DEF RegisterInv, RegisterCarries, OnlyMoves, registerVars, stockVars
  <2> QED
    BY <1>2, <1>4, <2>2, <2>3, <2>4 DEF RegisterInv, SeatsLast
<1> QED
  BY <1>5, <1>6, <1>7, <1>8

\* An edit of the vehicle waits for whoever is about to seat a rider.
LEMMA VehicleSteps ==
  ASSUME RegisterInv, NEW n \in 0..MaxUnits, EditVehicle(n)
  PROVE  RegisterInv' /\ SeatsLast
<1>1. DeskShape /\ RegisterTables
  BY DEF RegisterInv
<1>2. active_riders \in Nat /\ UnitsOut \in Nat
  BY <1>1, Counts
<1>3. UNCHANGED <<pc, seen, rider, item, issue, restocked>> /\ At("seat") = {} /\ capacity' \in Nat
  BY UnitsAssumption DEF EditVehicle, RowFree, AtOnce, stockVars
<1>4. RegisterTables' /\ DeskShape' /\ active_riders' = active_riders /\ UnitsOut' = UnitsOut /\ OneHolder'
  BY <1>1, <1>3 DEF RegisterInv, RegisterTables, DeskShape, OneHolder, HoldsItem, At, active_riders, UnitsOut
<1>5. \A q \in Requests : RegisterCarries(pc[q], seen[q])'
  BY <1>3 DEF RegisterInv, RegisterCarries, At
<1>6. StockLasts'
  BY <1>3, <1>4 DEF RegisterInv, StockLasts
<1> QED
  BY <1>2, <1>4, <1>5, <1>6 DEF RegisterInv, SeatsLast

\* Stock: each step that hands a unit out, takes one back or edits the item.
LEMMA StockSteps ==
  ASSUME RegisterInv, NEW p \in Requests,
         IssueLock(p) \/ IssueSave(p) \/ ReturnLock(p) \/ ReturnSave(p) \/ (\E i \in Issues : ReturnFetch(p, i))
           \/ ItemFetch(p) \/ (\E total \in 1..MaxUnits : ItemSave(p, total))
  PROVE  RegisterInv' /\ SeatsLast
<1>1. DeskShape /\ RegisterTables
  BY DEF RegisterInv
<1>2. active_riders \in Nat /\ UnitsOut \in Nat /\ item.available \in Nat /\ item.total \in Nat
  BY <1>1, Counts DEF RegisterTables
<1>3. ASSUME UNCHANGED issue PROVE UnitsOut' = UnitsOut
  BY <1>3 DEF UnitsOut
<1>4. UNCHANGED <<capacity, rider>> /\ active_riders' = active_riders
  BY DEF IssueLock, IssueSave, ReturnLock, ReturnSave, ReturnFetch, ItemFetch, ItemSave, registerVars, active_riders
<1>5. SeatsLast
  BY <1>2, <1>4 DEF SeatsLast
<1>a. ASSUME UNCHANGED registerVars PROVE StockLasts' /\ UnitsOut' = UnitsOut
  BY <1>3, <1>a DEF RegisterInv, StockLasts, registerVars, stockVars
<1>6. CASE IssueLock(p)
  <2>1. /\ OnlyMoves(p, "issue", item.available) /\ UNCHANGED registerVars /\ HoldsItem = {}
        /\ item.available >= 1
    BY <1>1, <1>6, GoesOn DEF IssueLock, Begin, RowFree, HoldsItem, HasUnit
  <2>2. RegisterTables' /\ DeskShape' /\ StockLasts'
    BY <1>1, <1>a, <2>1 DEF RegisterTables, registerVars, stockVars, OnlyMoves, DeskShape
  <2>3. OneHolder'
    BY <2>1 DEF OneHolder, HoldsItem, At, OnlyMoves, RegisterInv
  <2>4. \A q \in Requests : RegisterCarries(pc[q], seen[q])'
    BY <1>4, <2>1 DEF RegisterInv, RegisterCarries, OnlyMoves, registerVars, stockVars
  <2> QED
    BY <1>5, <2>2, <2>3, <2>4 DEF RegisterInv
<1>7. CASE IssueSave(p)
  <2>1. OnlyMoves(p, "idle", None) /\ pc[p] = "issue"
    BY <1>1, <1>7, GoesOn DEF IssueSave, Done, Continue
  <2>2. PICK i \in New(issue) : issue' = [issue EXCEPT ![i] = "out"]
    BY <1>7 DEF IssueSave
  <2>3. seen[p] = item.available /\ item.available >= 1
    BY <2>1 DEF RegisterInv, RegisterCarries
  <2>4. item' = [item EXCEPT !.available = item.available - 1] /\ UnitsOut' = UnitsOut + 1 /\ UNCHANGED restocked
    BY <1>1, <1>7, <2>2, <2>3, OneMoreOut DEF IssueSave
  <2>5. RegisterTables' /\ DeskShape' /\ item'.available = item.available - 1 /\ item'.total = item.total
    <3>1. /\ item' \in [total : Nat, available : Nat] /\ item'.available = item.available - 1
          /\ item'.total = item.total
      BY <1>1, <1>2, <2>3, <2>4 DEF RegisterTables
    <3>2. issue' \in [Issues -> {"none", "out", "returned"}]
      BY <1>1, <2>2 DEF RegisterTables
    <3> QED
      BY <1>1, <1>4, <2>1, <3>1, <3>2 DEF RegisterTables, OnlyMoves, DeskShape
  <2>6. OneHolder' /\ HoldsItem' = {}
    BY <2>1 DEF OneHolder, HoldsItem, At, OnlyMoves, RegisterInv
  <2>7. \A q \in Requests : RegisterCarries(pc[q], seen[q])'
    BY <1>4, <2>1, <2>6 DEF RegisterInv, RegisterCarries, OnlyMoves, At, HoldsItem
  <2>8. StockLasts'
    BY <1>2, <2>3, <2>4, <2>5 DEF RegisterInv, StockLasts
  <2> QED
    BY <1>5, <2>5, <2>6, <2>7, <2>8 DEF RegisterInv
<1>8. CASE ReturnLock(p)
  <2>1. /\ OnlyMoves(p, "return", [issue |-> seen[p], available |-> item.available])
        /\ UNCHANGED registerVars /\ HoldsItem = {} /\ seen[p] \in Issues
    BY <1>1, <1>8, GoesOn DEF ReturnLock, Continue, RowFree, HoldsItem, RegisterInv, RegisterCarries
  <2>2. RegisterTables' /\ DeskShape' /\ StockLasts'
    BY <1>1, <1>a, <2>1 DEF RegisterTables, registerVars, stockVars, OnlyMoves, DeskShape
  <2>3. OneHolder'
    BY <2>1 DEF OneHolder, HoldsItem, At, OnlyMoves, RegisterInv
  <2>4. \A q \in Requests : RegisterCarries(pc[q], seen[q])'
    BY <1>2, <1>4, <2>1 DEF RegisterInv, RegisterCarries, OnlyMoves, registerVars, stockVars
  <2> QED
    BY <1>5, <2>2, <2>3, <2>4 DEF RegisterInv
<1>9. CASE ReturnSave(p)
  <2>1. OnlyMoves(p, "idle", None) /\ pc[p] = "return"
    BY <1>1, <1>9, GoesOn DEF ReturnSave, Done, Continue
  <2>2. seen[p].available = item.available /\ seen[p].issue \in Issues
    BY <2>1 DEF RegisterInv, RegisterCarries
  <2>3. issue' = [issue EXCEPT ![seen[p].issue] = "returned"]
    BY <1>9 DEF ReturnSave
  <2>4. /\ UnitsOut' \in Nat /\ UnitsOut' <= UnitsOut
        /\ issue[seen[p].issue] = "out" => UnitsOut' = UnitsOut - 1
    BY <1>1, <2>2, <2>3, NoMoreOut
  <2>5. /\ item' \in [total : Nat, available : Nat] /\ item'.total = item.total
        /\ item'.available <= item.total /\ item'.available <= item.available + 1
    BY <1>1, <1>2, <1>9, <2>2 DEF ReturnSave, RegisterTables
  <2>9. ~restocked' => ~restocked /\ issue[seen[p].issue] = "out"
    BY <1>9 DEF ReturnSave
  <2>6. RegisterTables' /\ DeskShape'
    BY <1>1, <1>4, <2>1, <2>3, <2>5 DEF RegisterTables, OnlyMoves, DeskShape
  <2>7. OneHolder' /\ HoldsItem' = {}
    BY <2>1 DEF OneHolder, HoldsItem, At, OnlyMoves, RegisterInv
  <2>8. \A q \in Requests : RegisterCarries(pc[q], seen[q])'
    BY <1>4, <2>1, <2>7 DEF RegisterInv, RegisterCarries, OnlyMoves, At, HoldsItem
  <2>10. StockLasts'
    BY <1>2, <2>4, <2>5, <2>9 DEF RegisterInv, StockLasts
  <2> QED
    BY <1>5, <2>6, <2>7, <2>8, <2>10 DEF RegisterInv
<1>10. CASE \E i \in Issues : ReturnFetch(p, i)
  <2>1. PICK i \in Issues : OnlyMoves(p, "back", i) /\ UNCHANGED registerVars
    BY <1>1, <1>10, GoesOn DEF ReturnFetch, Begin
  <2>2. RegisterTables' /\ DeskShape' /\ StockLasts'
    BY <1>1, <1>a, <2>1 DEF RegisterTables, registerVars, stockVars, OnlyMoves, DeskShape
  <2>3. OneHolder'
    BY <2>1 DEF OneHolder, HoldsItem, At, OnlyMoves, RegisterInv
  <2>4. \A q \in Requests : RegisterCarries(pc[q], seen[q])'
    BY <1>4, <2>1 DEF RegisterInv, RegisterCarries, OnlyMoves, registerVars, stockVars
  <2> QED
    BY <1>5, <2>2, <2>3, <2>4 DEF RegisterInv
<1>11. CASE ItemFetch(p)
  <2>1. OnlyMoves(p, "item", item.available) /\ UNCHANGED registerVars
    BY <1>1, <1>11, GoesOn DEF ItemFetch, Begin
  <2>2. RegisterTables' /\ DeskShape' /\ StockLasts'
    BY <1>1, <1>a, <2>1 DEF RegisterTables, registerVars, stockVars, OnlyMoves, DeskShape
  <2>3. OneHolder'
    BY <2>1 DEF OneHolder, HoldsItem, At, OnlyMoves, RegisterInv
  <2>4. \A q \in Requests : RegisterCarries(pc[q], seen[q])'
    BY <1>2, <1>4, <2>1 DEF RegisterInv, RegisterCarries, OnlyMoves, registerVars, stockVars
  <2> QED
    BY <1>5, <2>2, <2>3, <2>4 DEF RegisterInv
<1>12. CASE \E total \in 1..MaxUnits : ItemSave(p, total)
  <2>1. PICK total \in 1..MaxUnits : ItemSave(p, total)
    BY <1>12
  <2>2. OnlyMoves(p, "idle", None) /\ pc[p] = "item" /\ HoldsItem = {} /\ UNCHANGED issue
    BY <1>1, <2>1, GoesOn DEF ItemSave, Done, Continue, RowFree, HoldsItem
  <2>3. seen[p] \in Nat /\ total \in Nat
    BY <2>2 DEF RegisterInv, RegisterCarries
  <2>4. /\ item' \in [total : Nat, available : Nat] /\ (item' = item \/ item'.available <= item'.total)
    BY <1>1, <2>1, <2>3 DEF ItemSave, RegisterTables
  <2>9. ~restocked' => ~restocked /\ ~(item'.available > item.available) /\ ~(item'.total < item.total)
    BY <2>1 DEF ItemSave
  <2>5. RegisterTables' /\ DeskShape' /\ UnitsOut' = UnitsOut
    BY <1>1, <1>3, <1>4, <2>2, <2>4 DEF RegisterTables, OnlyMoves, DeskShape
  <2>6. OneHolder' /\ HoldsItem' = {}
    BY <2>2 DEF OneHolder, HoldsItem, At, OnlyMoves, RegisterInv
  <2>7. \A q \in Requests : RegisterCarries(pc[q], seen[q])'
    BY <1>4, <2>2, <2>6 DEF RegisterInv, RegisterCarries, OnlyMoves, At, HoldsItem
  <2>8. StockLasts'
    <3>1. /\ item'.available \in Nat /\ item'.total \in Nat
          /\ item.available <= item.total
      BY <2>4 DEF RegisterInv, StockLasts, RegisterTables
    <3>2. item'.available \in 0..item'.total
      BY <1>2, <2>4, <3>1
    <3>3. ASSUME ~restocked' PROVE UnitsOut + item'.available <= item'.total
      BY <1>2, <2>9, <3>1, <3>3 DEF RegisterInv, StockLasts
    <3> QED
      BY <2>5, <3>2, <3>3 DEF StockLasts
  <2> QED
    BY <1>5, <2>5, <2>6, <2>7, <2>8 DEF RegisterInv
<1> QED
  BY <1>6, <1>7, <1>8, <1>9, <1>10, <1>11, <1>12

\* Payslips: neither seats nor stock.
LEMMA PaySteps ==
  ASSUME RegisterInv, NEW p \in Requests, (\E month \in Months : PayCheck(p, month)) \/ PayInsert(p)
  PROVE  RegisterInv' /\ SeatsLast
<1>1. DeskShape /\ RegisterTables
  BY DEF RegisterInv
<1>2. active_riders \in Nat /\ UnitsOut \in Nat
  BY <1>1, Counts
<1>3. UNCHANGED <<capacity, rider, item, issue, restocked>>
  BY DEF PayCheck, PayInsert, registerVars, stockVars
<1>4. \E what : OnlyMoves(p, "pay", what) \/ OnlyMoves(p, "idle", what)
  BY <1>1, GoesOn DEF PayCheck, PayInsert, Begin, Done, Continue
<1>5. RegisterTables' /\ DeskShape' /\ active_riders' = active_riders /\ UnitsOut' = UnitsOut
  BY <1>1, <1>3, <1>4 DEF RegisterTables, OnlyMoves, DeskShape, active_riders, UnitsOut
<1>6. OneHolder'
  BY <1>4 DEF OneHolder, HoldsItem, At, OnlyMoves, RegisterInv
<1>7. \A q \in Requests : RegisterCarries(pc[q], seen[q])'
  BY <1>3, <1>4, <1>5 DEF RegisterInv, RegisterCarries, OnlyMoves
<1>8. StockLasts'
  BY <1>3, <1>5 DEF RegisterInv, StockLasts
<1> QED
  BY <1>2, <1>5, <1>6, <1>7, <1>8 DEF RegisterInv, SeatsLast

-----------------------------------------------------------------------------
(***************************************************************************)
(* Seats and stock.                                                        *)
(***************************************************************************)
\* Nothing but the registers' own steps touches them.
LEMMA OtherPartsLeaveRegisters ==
  ASSUME DeskShape, Next, ~(RegisterStep /\ UNCHANGED <<admissionVars, fineVars>>)
  PROVE  UNCHANGED registerVars /\ \E from, to : Moves(from, to) /\ to \cap RegisterSteps = {}
<1>1. ASSUME NEW to, to \in {{"idle"} \cup PlanSteps, {"idle"} \cup BillSteps, {"idle"} \cup RegistrySteps,
                           {"idle"}, {"idle", "fine"}, {}}
      PROVE  to \cap RegisterSteps = {}
  BY <1>1 DEF PlanSteps, BillSteps, RegistrySteps, RegisterSteps
<1>2. CASE Admission(PlanStep)
  BY <1>1, <1>2, PlanMoves DEF Admission
<1>3. CASE \E p \in Requests : Admission(BillingStep(p))
  BY <1>1, <1>3, BillingMoves DEF Admission
<1>4. CASE \E p \in Requests : Admission(RegistryStep(p))
  BY <1>1, <1>4, RegistryMoves DEF Admission
<1>5. CASE \E p \in Requests : Admission(Crash(p))
  <2>1. PICK p \in Requests : Admission(Crash(p))
    BY <1>5
  <2>2. Moves({pc[p]}, {"idle"}) /\ UNCHANGED registerVars
    BY <2>1, CrashMoves, OneMoves DEF Admission
  <2> QED
    BY <1>1, <2>2
<1>6. CASE Admission(Entry)
  BY <1>1, <1>6, EntryMoves DEF Admission
<1>7. CASE FineStep /\ UNCHANGED registerVars
  BY <1>1, <1>7, FineMoves
<1> QED
  BY <1>2, <1>3, <1>4, <1>5, <1>6, <1>7 DEF Next

\* Every step keeps RegisterInv, seats nobody without a seat and hands out
\* nothing that is not on the shelf.
LEMMA NextRegisters ==
  ASSUME RegisterInv, [Next]_vars
  PROVE  RegisterInv' /\ (vars' = vars \/ (SeatsLast /\ StockLasts'))
<1>1. CASE UNCHANGED vars
  <2>1. UNCHANGED registerVars /\ UNCHANGED <<pc, seen>>
    BY <1>1 DEF vars, requestVars
  <2>2. Moves({}, {})
    BY <2>1, NobodyMoves DEF RegisterInv
  <2> QED
    BY <1>1, <2>1, <2>2, RegistersLeftAlone
<1>2. CASE RegisterStep
  BY <1>2, SeatSteps, VehicleSteps, StockSteps, PaySteps DEF RegisterStep, RegisterInv
<1>3. CASE Next /\ ~RegisterStep
  <2>1. UNCHANGED registerVars /\ \E from, to : Moves(from, to) /\ to \cap RegisterSteps = {}
    BY <1>3, OtherPartsLeaveRegisters DEF RegisterInv
  <2>2. RegisterInv'
    BY <2>1, RegistersLeftAlone
  <2>3. active_riders \in Nat /\ active_riders' = active_riders
    BY <2>1, Counts DEF RegisterInv, registerVars, active_riders
  <2> QED
    BY <2>2, <2>3 DEF SeatsLast, RegisterInv
<1> QED
  BY <1>1, <1>2, <1>3

\* An office opens with empty registers.
LEMMA InitRegisters ==
  ASSUME Init
  PROVE  RegisterInv
<1>1. RegisterTables /\ item.available = item.total /\ issue = [i \in Issues |-> "none"]
  BY UnitsAssumption DEF Init, RegisterInit, RegisterTables
<1>2. StockLasts
  <2>1. {i \in Issues : issue[i] = "out"} = {}
    BY <1>1
  <2>2. UnitsOut = 0
    BY <2>1, FS_EmptySet DEF UnitsOut
  <2> QED
    BY <1>1, <2>2 DEF StockLasts, RegisterTables
<1> QED
  BY <1>1, <1>2 DEF Init, NobodyYet, RegisterInv, DeskShape, OneHolder, HoldsItem, At, RegisterCarries

(***************************************************************************)
(* THEOREM: a rider gets on only while the vehicle has a seat, the shelf   *)
(* never holds less than nothing, and what is on it and what is handed out *)
(* are no more than there is until units are counted anew (assign_rider,   *)
(* issue_item, return_item and the item's view), whatever overlaps: it     *)
(* takes the lock of the counted row and a look at it under the lock.      *)
(***************************************************************************)
THEOREM NeitherSeatsNorStockTwice == Spec => SeatsAndStockLast
<1>1. Init => RegisterInv
  BY InitRegisters
<1>2. RegisterInv /\ [Next]_vars => RegisterInv'
  BY NextRegisters
<1>3. RegisterInv /\ [Next]_vars => [SeatsLast /\ StockLasts']_vars
  BY NextRegisters
<1> QED
  BY <1>1, <1>2, <1>3, PTL DEF Spec, SeatsAndStockLast

-----------------------------------------------------------------------------
(***************************************************************************)
(* Admissions: no two imports under way insert the same student, and none  *)
(* inserts one that is there.                                              *)
(***************************************************************************)
Bill(n) == Students \X (1..n)
\* The rows of its file an import has inserted, and the students in them.
Inserted(s) == 1..(Len(s.file) - Len(s.todo))
Names(s) == {s.file[n].student : n \in Inserted(s)}
ImportSeen(s, n) ==
  /\ s \in [file : Files, todo : Seq(FileRow), year : {s.year}, phones : SUBSET Phones, bills : SUBSET Bill(n)]
  /\ Len(s.todo) <= Len(s.file)
  /\ \A j \in 1..Len(s.todo) : s.todo[j] = s.file[Len(s.file) - Len(s.todo) + j]
\* ... of n instalments, the students there and the plans.
AdmissionCarries(step, what, n, there, of) ==
  /\ step \in PlanSteps => what.plan \in Plans /\ what.rows \subseteq 1..n
  /\ step = "replace" => of[what.plan] # None
  /\ step = "apply" => what.rows \subseteq 1..n
  /\ step = "post" => what \subseteq Bill(n)
  /\ step = "signal" => what.student \in Students
  /\ step = "bill" => \A one \in what : one \subseteq Bill(n)
  /\ step = "import" => ImportSeen(what, n) /\ Names(what) \cap there = {}
PlanTables ==
  /\ plan \in [Plans -> PlanRow \cup {None}] /\ rows \in 0..MaxRows
  /\ \A f \in Existing : plan[f].rows \subseteq 1..rows
  /\ dropped \subseteq 1..rows /\ charges \subseteq Bill(rows)
ImportsApart == \A p, q \in At("import") : p # q => Names(seen[p]) \cap Names(seen[q]) = {}
FilesWhole ==
  /\ student \subseteq Students /\ DOMAIN file = Students
  /\ \A t \in Students : file[t] # None =>
       /\ t \in student /\ file[t] \in Files
       /\ \A n \in DOMAIN file[t] : file[t][n].student \in student /\ file[file[t][n].student] = file[t]
AdmissionInv ==
  /\ DeskShape /\ PlanTables /\ FilesWhole /\ ImportsApart
  /\ \A p \in Requests : AdmissionCarries(pc[p], seen[p], rows, student, plan)

\* What is billed up to some instalment is billed up to a later one.
LEMMA MoreBills ==
  ASSUME NEW m \in Nat, NEW n \in Nat, m <= n
  PROVE  1..m \subseteq 1..n /\ Bill(m) \subseteq Bill(n)
BY DEF Bill

\* A file is a sequence of rows.
LEMMA FilesAreSequences ==
  ASSUME NEW f \in Files
  PROVE  f \in Seq(FileRow) /\ Len(f) \in Nat /\ DOMAIN f = 1..Len(f) /\ f # None
           /\ \A n \in DOMAIN f : f[n] \in FileRow /\ f[n].student \in Students
<1>1. f \in Seq(FileRow) /\ f # None
  BY FilesAssumption
<1>2. Len(f) \in Nat /\ DOMAIN f = 1..Len(f) /\ \A n \in DOMAIN f : f[n] \in FileRow
  BY <1>1
<1> QED
  BY <1>1, <1>2 DEF FileRow

\* Whom the unique index makes an import wait for.
LEMMA IndexKnows ==
  ASSUME NEW imports, NEW st, IndexFree(imports, st), NEW q \in imports, ImportSeen(seen[q], rows)
  PROVE  st \notin Names(seen[q])
<1> DEFINE f == seen[q].file
           k == Len(f) - Len(seen[q].todo)
<1>1. f \in Files /\ seen[q].todo \in Seq(FileRow) /\ Len(seen[q].todo) <= Len(f)
  BY DEF ImportSeen
<1>2. Len(f) \in Nat /\ Len(seen[q].todo) \in Nat /\ \A n \in 1..Len(f) : f[n] \in FileRow
  BY <1>1, FilesAreSequences
<1> HIDE DEF f
<1>3. k \in Nat /\ k <= Len(f)
  BY <1>1, <1>2
<1> HIDE DEF k
<1>4. /\ Len(SubSeq(f, 1, k)) = k /\ SubSeq(f, 1, k) \in Seq(FileRow)
      /\ \A n \in 1..k : SubSeq(f, 1, k)[n] = f[n]
  <2>1. \A n \in 1..k : f[n] \in FileRow
    BY <1>2, <1>3
  <2>2. /\ SubSeq(f, 1, k) \in Seq(FileRow)
        /\ Len(SubSeq(f, 1, k)) = IF 1 <= k THEN k - 1 + 1 ELSE 0
        /\ \A n \in 1..(k - 1 + 1) : SubSeq(f, 1, k)[n] = f[1 + n - 1]
    BY <1>2, <1>3, <2>1, SubSeqProperties
  <2>3. (IF 1 <= k THEN k - 1 + 1 ELSE 0) = k /\ k - 1 + 1 = k /\ \A n \in 1..k : 1 + n - 1 = n
    BY <1>3
  <2> QED
    BY <2>2, <2>3
<1>5. Imported(seen[q]) = SubSeq(f, 1, k)
  BY DEF Imported, f, k
<1>6. DOMAIN Imported(seen[q]) = 1..k
  BY <1>4, <1>5
<1>7. \A n \in 1..k : f[n].student # st
  BY <1>4, <1>5, <1>6 DEF IndexFree
<1> QED
  BY <1>7 DEF Names, Inserted, f, k

\* A request that stands still may still rely on what it has read.
LEMMA CarriesOn ==
  ASSUME NEW step, NEW what, NEW m \in Nat, NEW n \in Nat, m <= n, NEW there, NEW now, NEW of, NEW plans,
         AdmissionCarries(step, what, m, there, of),
         step = "replace" => plans[what.plan] # None,
         step = "import" => Names(what) \cap now = {}
  PROVE  AdmissionCarries(step, what, n, now, plans)
<1>1. 1..m \subseteq 1..n /\ Bill(m) \subseteq Bill(n)
  BY MoreBills
<1>2. ImportSeen(what, m) => ImportSeen(what, n)
  BY <1>1 DEF ImportSeen
<1> QED
  BY <1>1, <1>2 DEF AdmissionCarries

\* A step that neither plans nor bills.
LEMMA AdmissionsLeftAlone ==
  ASSUME AdmissionInv, UNCHANGED <<student, file, plan, rows, dropped, charges>>,
         NEW from, NEW to, Moves(from, to), to \cap (PlanSteps \cup BillSteps) = {}
  PROVE  AdmissionInv'
<1>1. PlanTables' /\ FilesWhole' /\ DeskShape'
  BY DEF AdmissionInv, PlanTables, FilesWhole, Existing, Moves, DeskShape
<1>2. \A q \in Requests : pc'[q] \in PlanSteps \cup BillSteps => pc'[q] = pc[q] /\ seen'[q] = seen[q]
  BY DEF Moves
<1>3. ImportsApart'
  <2>1. ImportsApart
    BY DEF AdmissionInv
  <2> QED
    BY <1>2, <2>1 DEF ImportsApart, At, BillSteps
<1>4. ASSUME NEW q \in Requests PROVE AdmissionCarries(pc'[q], seen'[q], rows', student', plan')
  <2>1. CASE pc'[q] \in PlanSteps \cup BillSteps
    BY <1>2, <2>1 DEF AdmissionInv
  <2>2. CASE pc'[q] \notin PlanSteps \cup BillSteps
    BY <2>2 DEF AdmissionCarries, PlanSteps, BillSteps
  <2> QED
    BY <2>1, <2>2
<1> QED
  BY <1>1, <1>3, <1>4 DEF AdmissionInv

\* Whatever a step writes, it is enough to look at the requests it moves and
\* at what it changes under the others.
LEMMA AdmissionsAgain ==
  ASSUME AdmissionInv, PlanTables', FilesWhole', DeskShape', ImportsApart', rows <= rows',
         NEW movers,
         \A q \in Requests \ movers :
           /\ pc'[q] = pc[q] /\ seen'[q] = seen[q]
           /\ pc[q] = "replace" => plan'[seen[q].plan] # None
           /\ pc[q] = "import" => Names(seen[q]) \cap student' = {},
         \A q \in Requests \cap movers : AdmissionCarries(pc'[q], seen'[q], rows', student', plan')
  PROVE  AdmissionInv'
<1>1. rows \in Nat /\ rows' \in Nat
  BY RowsAssumption DEF AdmissionInv, PlanTables
<1>2. ASSUME NEW q \in Requests \ movers PROVE AdmissionCarries(pc'[q], seen'[q], rows', student', plan')
  <2>1. AdmissionCarries(pc[q], seen[q], rows, student, plan)
    BY DEF AdmissionInv
  <2>2. AdmissionCarries(pc[q], seen[q], rows', student', plan')
    BY <1>1, <1>2, <2>1, CarriesOn
  <2> QED
    BY <1>2, <2>2
<1> QED
  BY <1>2 DEF AdmissionInv

\* The imports under way are the same.
LEMMA SameImports ==
  ASSUME ImportsApart,
         \A q \in Requests : pc'[q] = "import" => pc[q] = "import" /\ seen'[q] = seen[q]
  PROVE  ImportsApart'
BY DEF ImportsApart, At

\* Creating, moving and deleting a plan.
LEMMA PlanEntries ==
  ASSUME AdmissionInv, NEW f \in Plans,
         (\E g \in Programs : MovePlan(f, g)) \/ DeletePlan(f)
           \/ (\E g \in Programs, y \in Years, n \in 1..2 : CreatePlan(f, y, g, n))
  PROVE  AdmissionInv'
<1>1. PlanTables /\ DeskShape /\ FilesWhole /\ ImportsApart
  BY DEF AdmissionInv
<1>2. UNCHANGED <<pc, seen, student, file, charges>>
  BY DEF MovePlan, DeletePlan, CreatePlan, AtOnce, registry
<1>3. FilesWhole' /\ DeskShape' /\ ImportsApart'
  BY <1>1, <1>2 DEF FilesWhole, DeskShape, ImportsApart, At
<1>4. rows \in Nat /\ MaxRows \in Nat /\ rows <= MaxRows /\ plan[f] \in PlanRow \cup {None}
  BY <1>1, RowsAssumption DEF PlanTables
<1>5. \A q \in Requests : pc[q] = "replace" => plan[seen[q].plan] # None
  BY DEF AdmissionInv, AdmissionCarries
<1>6. \A q \in Requests : pc[q] = "import" => Names(seen[q]) \cap student = {}
  BY DEF AdmissionInv, AdmissionCarries
<1>7. ASSUME PlanTables', rows <= rows', \A q \in Requests : pc[q] = "replace" => plan'[seen[q].plan] # None
      PROVE  AdmissionInv'
  <2>1. \A q \in Requests : /\ pc'[q] = pc[q] /\ seen'[q] = seen[q]
                            /\ pc[q] = "replace" => plan'[seen[q].plan] # None
                            /\ pc[q] = "import" => Names(seen[q]) \cap student' = {}
    BY <1>2, <1>6, <1>7
  <2>2. \A q \in Requests \cap {} : AdmissionCarries(pc'[q], seen'[q], rows', student', plan')
    OBVIOUS
  <2> QED
    BY <1>3, <1>7, <2>1, <2>2, AdmissionsAgain
<1>8. ASSUME NEW g \in Programs, MovePlan(f, g)
      PROVE  AdmissionInv'
  <2>1. plan[f] \in PlanRow /\ UNCHANGED <<rows, dropped>> /\ plan' = [plan EXCEPT ![f].program = g]
    BY <1>4, <1>8 DEF MovePlan
  <2>2. [plan[f] EXCEPT !.program = g] \in PlanRow /\ [plan[f] EXCEPT !.program = g].rows = plan[f].rows
    BY <2>1 DEF PlanRow
  <2>3. plan' = [plan EXCEPT ![f] = [plan[f] EXCEPT !.program = g]]
    BY <2>1
  <2>4. PlanTables'
    <3>1. plan' \in [Plans -> PlanRow \cup {None}]
      BY <1>1, <2>2, <2>3 DEF PlanTables
    <3>2. \A h \in Plans : plan'[h] # None => plan'[h].rows \subseteq 1..rows
      BY <1>1, <2>1, <2>2, <2>3, PlansAssumption DEF PlanTables, Existing
    <3> QED
      BY <1>1, <1>2, <2>1, <3>1, <3>2 DEF PlanTables, Existing
  <2>5. \A h \in Plans : plan[h] # None => plan'[h] # None
    BY <1>1, <2>2, <2>3, PlansAssumption DEF PlanTables
  <2>6. \A q \in Requests : pc[q] = "replace" => seen[q].plan \in Plans
    BY DEF AdmissionInv, AdmissionCarries, PlanSteps
  <2> QED
    BY <1>4, <1>5, <1>7, <2>1, <2>4, <2>5, <2>6
<1>9. ASSUME DeletePlan(f)
      PROVE  AdmissionInv'
  <2>1. PlanTables' /\ rows <= rows'
    <3>1. plan' = [plan EXCEPT ![f] = None] /\ UNCHANGED rows /\ dropped' = dropped \cup plan[f].rows /\ f \in Existing
      BY <1>9 DEF DeletePlan, Existing
    <3>2. plan' \in [Plans -> PlanRow \cup {None}] /\ \A h \in Plans : plan'[h] # None => plan[h] # None /\ plan'[h] = plan[h]
      BY <1>1, <3>1 DEF PlanTables
    <3>3. dropped' \subseteq 1..rows
      BY <1>1, <3>1 DEF PlanTables
    <3> QED
      BY <1>1, <1>2, <1>4, <3>1, <3>2, <3>3 DEF PlanTables, Existing
  <2>2. \A q \in Requests : pc[q] = "replace" => seen[q].plan # f
    BY <1>9 DEF DeletePlan, PlanFree, At
  <2>3. \A q \in Requests : pc[q] = "replace" => plan'[seen[q].plan] # None
    BY <1>1, <1>5, <1>9, <2>2 DEF DeletePlan, PlanTables
  <2> QED
    BY <1>7, <2>1, <2>3
<1>10. ASSUME NEW g \in Programs, NEW y \in Years, NEW n \in 1..2, CreatePlan(f, y, g, n)
       PROVE  AdmissionInv'
  <2> DEFINE new == [year |-> y, program |-> g, rows |-> Fresh(n)]
  <2>1. rows' = rows + n /\ rows' \in 0..MaxRows /\ plan' = [plan EXCEPT ![f] = new] /\ UNCHANGED dropped
    BY <1>4, <1>10 DEF CreatePlan
  <2>2. Fresh(n) \subseteq 1..rows' /\ Fresh(n) \subseteq Nat /\ rows <= rows'
    BY <1>4, <2>1 DEF Fresh
  <2>3. new \in PlanRow /\ new # None /\ new.rows = Fresh(n)
    BY <2>2, PlansAssumption DEF PlanRow
  <2> HIDE DEF new
  <2>4. 1..rows \subseteq 1..rows' /\ Bill(rows) \subseteq Bill(rows')
    BY <1>4, <2>1, <2>2, MoreBills
  <2>5. PlanTables'
    BY <1>1, <1>2, <2>1, <2>2, <2>3, <2>4 DEF PlanTables, Existing
  <2>6. \A q \in Requests : pc[q] = "replace" => plan'[seen[q].plan] # None
    BY <1>1, <1>5, <2>1, <2>3 DEF PlanTables
  <2> QED
    BY <1>7, <2>2, <2>5, <2>6
<1> QED
  BY <1>8, <1>9, <1>10

\* Editing a plan: the fetch, the check and the write.
LEMMA PlanEdits ==
  ASSUME AdmissionInv, NEW p \in Requests,
         (\E f \in Plans : EditFetch(p, f)) \/ EditCheck(p) \/ EditReplace(p)
  PROVE  AdmissionInv'
<1>1. PlanTables /\ DeskShape /\ FilesWhole /\ ImportsApart
  BY DEF AdmissionInv
<1>2. AdmissionCarries(pc[p], seen[p], rows, student, plan)
  BY DEF AdmissionInv
<1>3. UNCHANGED <<student, file, charges, dropped>>
  BY DEF EditFetch, EditCheck, EditReplace, admissionVars, registry, fees
<1>4. rows \in Nat /\ MaxRows \in Nat /\ rows <= MaxRows
  BY <1>1, RowsAssumption DEF PlanTables
<1>5. \A q \in Requests : /\ pc[q] = "replace" => seen[q].plan \in Plans /\ plan[seen[q].plan] # None
                          /\ pc[q] = "import" => Names(seen[q]) \cap student = {}
  BY DEF AdmissionInv, AdmissionCarries, PlanSteps
<1>6. ASSUME NEW step \in {"idle"} \cup PlanSteps, NEW what, OnlyMoves(p, step, what),
             PlanTables', rows <= rows', \A f \in Plans : plan[f] # None => plan'[f] # None,
             AdmissionCarries(step, what, rows', student', plan')
      PROVE  AdmissionInv'
  <2>1. FilesWhole' /\ DeskShape'
    BY <1>1, <1>3, <1>6 DEF FilesWhole, DeskShape, OnlyMoves
  <2>2. \A q \in Requests : pc'[q] = "import" => pc[q] = "import" /\ seen'[q] = seen[q]
    BY <1>6 DEF OnlyMoves, PlanSteps
  <2>3. ImportsApart'
    BY <1>1, <2>2, SameImports
  <2>4. \A q \in Requests \ {p} : /\ pc'[q] = pc[q] /\ seen'[q] = seen[q]
                                  /\ pc[q] = "replace" => plan'[seen[q].plan] # None
                                  /\ pc[q] = "import" => Names(seen[q]) \cap student' = {}
    BY <1>3, <1>5, <1>6 DEF OnlyMoves
  <2>5. \A q \in Requests \cap {p} : AdmissionCarries(pc'[q], seen'[q], rows', student', plan')
    BY <1>6 DEF OnlyMoves
  <2> QED
    BY <1>6, <2>1, <2>3, <2>4, <2>5, AdmissionsAgain
<1>7. ASSUME UNCHANGED <<plan, rows>> PROVE PlanTables' /\ rows <= rows'
  BY <1>1, <1>3, <1>4, <1>7 DEF PlanTables, Existing
<1>8. ASSUME NEW f \in Plans, EditFetch(p, f) PROVE AdmissionInv'
  <2> DEFINE what == [plan |-> f, rows |-> plan[f].rows]
  <2>1. OnlyMoves(p, "edit", what) /\ UNCHANGED <<plan, rows>> /\ plan[f] # None
    BY <1>1, <1>8, GoesOn DEF EditFetch, Begin, admissionVars, fees
  <2>2. AdmissionCarries("edit", what, rows', student', plan')
    BY <1>1, <2>1 DEF AdmissionCarries, PlanTables, Existing
  <2> HIDE DEF what
  <2> QED
    BY <1>6, <1>7, <2>1, <2>2 DEF PlanSteps
<1>9. ASSUME EditCheck(p) PROVE AdmissionInv'
  <2>1. UNCHANGED <<plan, rows>> /\ pc[p] = "edit"
    BY <1>9 DEF EditCheck, admissionVars, fees
  <2>2. CASE plan[seen[p].plan] = None \/ Billed(seen[p].rows)
    <3>1. OnlyMoves(p, "idle", None)
      BY <1>1, <1>9, <2>2, GoesOn DEF EditCheck, Done, Continue
    <3>2. AdmissionCarries("idle", None, rows', student', plan')
      BY DEF AdmissionCarries, PlanSteps
    <3> QED
      BY <1>6, <1>7, <2>1, <3>1, <3>2
  <2>3. CASE ~(plan[seen[p].plan] = None \/ Billed(seen[p].rows))
    <3>1. OnlyMoves(p, "replace", seen[p])
      BY <1>1, <1>9, <2>3, GoesOn DEF EditCheck, Continue
    <3>2. AdmissionCarries("replace", seen[p], rows', student', plan')
      BY <1>2, <2>1, <2>3 DEF AdmissionCarries, PlanSteps
    <3> QED
      BY <1>6, <1>7, <2>1, <3>1, <3>2 DEF PlanSteps
  <2> QED
    BY <2>2, <2>3
<1>10. ASSUME EditReplace(p) PROVE AdmissionInv'
  <2> DEFINE f == seen[p].plan
             new == [plan[f] EXCEPT !.rows = Fresh(1)]
  <2>1. /\ OnlyMoves(p, "idle", None) /\ pc[p] = "replace" /\ rows < MaxRows
        /\ plan' = [plan EXCEPT ![f] = new] /\ rows' = rows + 1
    BY <1>1, <1>10, GoesOn DEF EditReplace, Done, Continue
  <2>2. f \in Plans /\ plan[f] \in PlanRow
    BY <1>1, <1>5, <2>1 DEF PlanTables
  <2>3. Fresh(1) \subseteq 1..rows' /\ Fresh(1) \subseteq Nat /\ rows' \in 0..MaxRows /\ rows <= rows'
    BY <1>4, <2>1 DEF Fresh
  <2>4. new \in PlanRow /\ new # None /\ new.rows = Fresh(1)
    BY <2>2, <2>3, PlansAssumption DEF PlanRow
  <2> HIDE DEF new, f
  <2>5. 1..rows \subseteq 1..rows' /\ Bill(rows) \subseteq Bill(rows')
    BY <1>4, <2>3, MoreBills
  <2>6. PlanTables'
    <3>1. plan' \in [Plans -> PlanRow \cup {None}]
      BY <1>1, <2>1, <2>2, <2>4 DEF PlanTables
    <3>2. \A h \in Plans : plan'[h] # None => plan'[h].rows \subseteq 1..rows'
      BY <1>1, <2>1, <2>2, <2>3, <2>4, <2>5 DEF PlanTables, Existing
    <3> QED
      BY <1>1, <1>3, <2>3, <2>5, <3>1, <3>2 DEF PlanTables, Existing
  <2>7. \A h \in Plans : plan[h] # None => plan'[h] # None
    BY <1>1, <2>1, <2>4 DEF PlanTables
  <2>8. AdmissionCarries("idle", None, rows', student', plan')
    BY DEF AdmissionCarries, PlanSteps
  <2> QED
    BY <1>6, <2>1, <2>3, <2>6, <2>7, <2>8
<1> QED
  BY <1>8, <1>9, <1>10

\* Nothing that is done to a plan disturbs what admissions rely on.
LEMMA PlanningKeepsAdmissions ==
  ASSUME AdmissionInv, PlanStep
  PROVE  AdmissionInv'
BY PlanEdits, PlanEntries DEF PlanStep

-----------------------------------------------------------------------------
(***************************************************************************)
(* Billing keeps AdmissionInv.                                             *)
(***************************************************************************)
\* A request that bills goes on; nobody is admitted and no plan is touched.
LEMMA BillerGoesOn ==
  ASSUME AdmissionInv, NEW p \in Requests, NEW step, NEW what, OnlyMoves(p, step, what),
         UNCHANGED <<student, file, plan, rows, dropped>>, charges' \subseteq Bill(rows),
         AdmissionCarries(step, what, rows, student, plan),
         step = "import" => \A q \in At("import") : q # p => Names(what) \cap Names(seen[q]) = {}
  PROVE  AdmissionInv'
<1>1. PlanTables /\ DeskShape /\ FilesWhole /\ ImportsApart
  BY DEF AdmissionInv
<1>2. PlanTables' /\ FilesWhole' /\ DeskShape'
  BY <1>1 DEF PlanTables, Existing, FilesWhole, DeskShape, OnlyMoves
<1>3. rows <= rows'
  BY <1>1, RowsAssumption DEF PlanTables
<1>4. ImportsApart'
  <2>1. \A q \in Requests \ {p} : pc'[q] = pc[q] /\ seen'[q] = seen[q]
    BY DEF OnlyMoves
  <2>2. pc'[p] = step /\ seen'[p] = what
    BY DEF OnlyMoves
  <2> QED
    BY <1>1, <2>1, <2>2 DEF ImportsApart, At
<1>5. \A q \in Requests \ {p} : /\ pc'[q] = pc[q] /\ seen'[q] = seen[q]
                                /\ pc[q] = "replace" => plan'[seen[q].plan] # None
                                /\ pc[q] = "import" => Names(seen[q]) \cap student' = {}
  BY DEF AdmissionInv, AdmissionCarries, OnlyMoves
<1>6. \A q \in Requests \cap {p} : AdmissionCarries(pc'[q], seen'[q], rows', student', plan')
  BY DEF OnlyMoves
<1> QED
  BY <1>2, <1>3, <1>4, <1>5, <1>6, AdmissionsAgain

\* Applying a plan.
LEMMA ApplySteps ==
  ASSUME AdmissionInv, NEW p \in Requests,
         (\E f \in Plans : ApplyFetch(p, f)) \/ ApplyRead(p) \/ ApplyPost(p)
  PROVE  AdmissionInv'
<1>1. PlanTables /\ DeskShape /\ FilesWhole
  BY DEF AdmissionInv
<1>2. AdmissionCarries(pc[p], seen[p], rows, student, plan)
  BY DEF AdmissionInv
<1>3. UNCHANGED <<student, file, plan, rows, dropped>>
  BY DEF ApplyFetch, ApplyRead, ApplyPost, admissionVars, registry, fees
<1>4. ASSUME NEW f \in Plans, ApplyFetch(p, f) PROVE AdmissionInv'
  <2>1. OnlyMoves(p, "apply", plan[f]) /\ UNCHANGED charges /\ plan[f] # None
    BY <1>1, <1>4, GoesOn DEF ApplyFetch, Begin, admissionVars, fees
  <2>2. AdmissionCarries("apply", plan[f], rows, student, plan)
    BY <1>1, <2>1 DEF AdmissionCarries, PlanTables, Existing, PlanSteps
  <2> QED
    BY <1>1, <1>3, <2>1, <2>2, BillerGoesOn DEF PlanTables
<1>5. ASSUME ApplyRead(p) PROVE AdmissionInv'
  <2> DEFINE covered == {s \in student : enrolment[s][seen[p].year] = [program |-> seen[p].program, status |-> "active"]}
             what == covered \X seen[p].rows
  <2>1. OnlyMoves(p, "post", what) /\ UNCHANGED charges /\ pc[p] = "apply"
    BY <1>1, <1>5, GoesOn DEF ApplyRead, Continue, admissionVars, fees
  <2>2. what \subseteq Bill(rows)
    <3>1. covered \subseteq Students /\ seen[p].rows \subseteq 1..rows
      BY <1>1, <1>2, <2>1 DEF FilesWhole, AdmissionCarries
    <3> HIDE DEF covered
    <3> QED
      BY <3>1 DEF Bill
  <2> HIDE DEF what
  <2>3. AdmissionCarries("post", what, rows, student, plan)
    BY <2>2 DEF AdmissionCarries, PlanSteps
  <2> QED
    BY <1>1, <1>3, <2>1, <2>3, BillerGoesOn DEF PlanTables
<1>6. ASSUME ApplyPost(p) PROVE AdmissionInv'
  <2>1. OnlyMoves(p, "idle", None) /\ charges' = charges \cup seen[p] /\ pc[p] = "post"
    BY <1>1, <1>6, GoesOn DEF ApplyPost, Done, Continue
  <2>2. charges' \subseteq Bill(rows)
    BY <1>1, <1>2, <2>1 DEF AdmissionCarries, PlanTables
  <2>3. AdmissionCarries("idle", None, rows, student, plan)
    BY DEF AdmissionCarries, PlanSteps
  <2> QED
    BY <1>3, <2>1, <2>2, <2>3, BillerGoesOn
<1> QED
  BY <1>4, <1>5, <1>6

\* An enrolment, and its signal.
LEMMA EnrolSteps ==
  ASSUME AdmissionInv, NEW p \in Requests,
         (\E a \in Admitted, status \in {"active", "left"} : Enrol(p, a.student, a.year, a.program, status))
           \/ SignalRead(p) \/ SignalBill(p)
  PROVE  AdmissionInv'
<1>1. PlanTables /\ DeskShape /\ FilesWhole
  BY DEF AdmissionInv
<1>2. AdmissionCarries(pc[p], seen[p], rows, student, plan)
  BY DEF AdmissionInv
<1>3. UNCHANGED <<student, file, plan, rows, dropped>>
  BY DEF Enrol, SignalRead, SignalBill, admissionVars, registry, fees
<1>4. ASSUME NEW a \in Admitted, NEW status \in {"active", "left"}, Enrol(p, a.student, a.year, a.program, status)
      PROVE  AdmissionInv'
  <2>1. CASE status = "active"
    <3> DEFINE what == [student |-> a.student, year |-> a.year, program |-> a.program]
    <3>1. OnlyMoves(p, "signal", what) /\ UNCHANGED charges
      BY <1>1, <1>4, <2>1, GoesOn DEF Enrol, Begin
    <3>2. AdmissionCarries("signal", what, rows, student, plan)
      BY RosterAssumption DEF AdmissionCarries, PlanSteps
    <3> HIDE DEF what
    <3> QED
      BY <1>1, <1>3, <3>1, <3>2, BillerGoesOn DEF PlanTables
  <2>2. CASE status # "active"
    <3>1. UNCHANGED <<pc, seen, charges>>
      BY <1>4, <2>2 DEF Enrol, AtOnce
    <3>2. Moves({}, {})
      BY <1>1, <3>1, NobodyMoves
    <3> QED
      BY <1>3, <3>1, <3>2, AdmissionsLeftAlone
  <2> QED
    BY <2>1, <2>2
<1>5. ASSUME SignalRead(p) PROVE AdmissionInv'
  <2> DEFINE what == {Bills(seen[p].student, plan[f].rows) : f \in PlansFor(seen[p].year, seen[p].program)}
  <2>1. OnlyMoves(p, "bill", what) /\ UNCHANGED charges /\ pc[p] = "signal"
    BY <1>1, <1>5, GoesOn DEF SignalRead, Continue, EveryPlan, admissionVars, fees
  <2>2. AdmissionCarries("bill", what, rows, student, plan)
    <3>1. seen[p].student \in Students
      BY <1>2, <2>1 DEF AdmissionCarries
    <3>2. \A f \in PlansFor(seen[p].year, seen[p].program) : Bills(seen[p].student, plan[f].rows) \subseteq Bill(rows)
      BY <1>1, <3>1 DEF PlansFor, PlanTables, Bills, Bill
    <3> QED
      BY <3>2 DEF AdmissionCarries, PlanSteps
  <2> HIDE DEF what
  <2> QED
    BY <1>1, <1>3, <2>1, <2>2, BillerGoesOn DEF PlanTables
<1>6. ASSUME SignalBill(p) PROVE AdmissionInv'
  <2>1. pc[p] = "bill" /\ \A one \in seen[p] : one \subseteq Bill(rows)
    BY <1>2, <1>6 DEF SignalBill, AdmissionCarries
  <2>2. CASE seen[p] = {}
    <3>1. OnlyMoves(p, "idle", None) /\ UNCHANGED charges
      BY <1>1, <1>6, <2>2, GoesOn DEF SignalBill, Done, Continue
    <3>2. AdmissionCarries("idle", None, rows, student, plan)
      BY DEF AdmissionCarries, PlanSteps
    <3> QED
      BY <1>1, <1>3, <3>1, <3>2, BillerGoesOn DEF PlanTables
  <2>3. CASE seen[p] # {}
    <3>1. PICK one \in seen[p] : charges' = charges \cup one /\ Continue(p, "bill", seen[p] \ {one})
      BY <1>6, <2>3 DEF SignalBill
    <3>2. OnlyMoves(p, "bill", seen[p] \ {one}) /\ charges' \subseteq Bill(rows)
      BY <1>1, <2>1, <3>1, GoesOn DEF Continue, PlanTables
    <3>3. AdmissionCarries("bill", seen[p] \ {one}, rows, student, plan)
      BY <2>1 DEF AdmissionCarries, PlanSteps
    <3> QED
      BY <1>3, <3>2, <3>3, BillerGoesOn
  <2> QED
    BY <2>2, <2>3
<1> QED
  BY <1>4, <1>5, <1>6

\* What an import has read once it has inserted one row more.
RowInserted(s, phones, bills) == [s EXCEPT !.todo = Tail(@), !.phones = @ \cup phones, !.bills = @ \cup bills]

\* It has the next row of its file besides.
OneRowFurther(s, what, bills) ==
  /\ what.file = s.file /\ what.year = s.year /\ what.bills = s.bills \cup bills
  /\ \E k \in DOMAIN s.file : s.file[k] = Head(s.todo) /\ Inserted(what) = Inserted(s) \cup {k}
  /\ Names(what) = Names(s) \cup {Head(s.todo).student}

\* The row it has inserted is the next one of its file.
LEMMA OneMoreRow ==
  ASSUME NEW n, NEW s, ImportSeen(s, n), s.todo # <<>>, NEW phones \in SUBSET Phones, NEW bills \in SUBSET Bill(n)
  PROVE  /\ ImportSeen(RowInserted(s, phones, bills), n)
         /\ OneRowFurther(s, RowInserted(s, phones, bills), bills)
<1> DEFINE what == RowInserted(s, phones, bills)
           record == [file : Files, todo : Seq(FileRow), year : {s.year}, phones : SUBSET Phones, bills : SUBSET Bill(n)]
<1>1. /\ s \in record /\ Len(s.todo) <= Len(s.file)
      /\ \A j \in 1..Len(s.todo) : s.todo[j] = s.file[Len(s.file) - Len(s.todo) + j]
  BY DEF ImportSeen
<1>2. s.todo \in Seq(FileRow) /\ s.file \in Files /\ s.phones \in SUBSET Phones /\ s.bills \in SUBSET Bill(n)
  BY <1>1
<1>3. /\ Tail(s.todo) \in Seq(FileRow) /\ Head(s.todo) \in FileRow /\ Len(Tail(s.todo)) = Len(s.todo) - 1
      /\ \A j \in 1..Len(Tail(s.todo)) : Tail(s.todo)[j] = s.todo[j + 1]
  BY <1>2, HeadTailProperties
<1>4. Len(s.todo) \in Nat /\ Len(s.todo) >= 1 /\ Head(s.todo) = s.todo[1]
  BY <1>2
<1>5. Len(s.file) \in Nat /\ DOMAIN s.file = 1..Len(s.file)
  BY <1>2, FilesAreSequences
<1>6. /\ what \in record /\ what.todo = Tail(s.todo) /\ what.file = s.file /\ what.year = s.year
      /\ what.bills = s.bills \cup bills
  BY <1>1, <1>2, <1>3 DEF RowInserted
<1> HIDE DEF what
<1> DEFINE k == Len(s.file) - Len(s.todo) + 1
<1>7. k \in 1..Len(s.file) /\ s.file[k] = Head(s.todo)
  BY <1>1, <1>4, <1>5
<1>8. Inserted(what) = 1..k /\ Inserted(s) = 1..(k - 1) /\ 1..k = 1..(k - 1) \cup {k}
  BY <1>1, <1>3, <1>4, <1>5, <1>6 DEF Inserted
<1>9. ImportSeen(what, n)
  <2>1. Len(what.todo) <= Len(what.file)
    BY <1>1, <1>3, <1>4, <1>5, <1>6
  <2>2. ASSUME NEW j \in 1..Len(what.todo)
        PROVE  what.todo[j] = what.file[Len(what.file) - Len(what.todo) + j]
    <3>1. what.todo[j] = s.todo[j + 1] /\ j + 1 \in 1..Len(s.todo)
      BY <1>3, <1>4, <1>6
    <3>2. s.todo[j + 1] = s.file[Len(s.file) - Len(s.todo) + (j + 1)]
      BY <1>1, <3>1
    <3>3. Len(what.file) - Len(what.todo) + j = Len(s.file) - Len(s.todo) + (j + 1)
      <4>1. Len(what.todo) = Len(s.todo) - 1 /\ Len(what.file) = Len(s.file) /\ j \in Nat
        BY <1>3, <1>4, <1>6
      <4>2. \A a, b, i \in Nat : a - (b - 1) + i = a - b + (i + 1)
        OBVIOUS
      <4>3. Len(s.file) - (Len(s.todo) - 1) + j = Len(s.file) - Len(s.todo) + (j + 1)
        BY <1>4, <1>5, <4>1, <4>2
      <4> QED
        BY <4>1, <4>3
    <3> QED
      BY <1>6, <3>1, <3>2, <3>3
  <2> QED
    BY <1>6, <2>1, <2>2 DEF ImportSeen
<1> HIDE DEF k, record
<1>10. Names(what) = Names(s) \cup {Head(s.todo).student}
  BY <1>6, <1>7, <1>8 DEF Names
<1> QED
  BY <1>5, <1>6, <1>7, <1>8, <1>9, <1>10 DEF what, OneRowFurther

\* Uploading a file, and each row of it.
LEMMA ImportSteps ==
  ASSUME AdmissionInv, NEW p \in Requests, (\E f \in Files : Upload(p, f)) \/ ImportRow(p)
  PROVE  AdmissionInv'
<1>1. PlanTables /\ DeskShape /\ FilesWhole /\ ImportsApart
  BY DEF AdmissionInv
<1>2. UNCHANGED <<student, file, plan, rows, dropped, charges>>
  BY DEF Upload, ImportRow, admissionVars, registry, fees
<1>3. ASSUME NEW f \in Files, Upload(p, f) PROVE AdmissionInv'
  <2> DEFINE year == IF current = {} THEN None ELSE CHOOSE y \in current : TRUE
             what == [file |-> f, todo |-> f, year |-> year, phones |-> {}, bills |-> {}]
  <2> HIDE DEF year
  <2>1. OnlyMoves(p, "import", what)
    BY <1>1, <1>3, GoesOn DEF Upload, Begin, year
  <2>2. f \in Seq(FileRow) /\ Len(f) \in Nat
    BY FilesAreSequences
  <2>3. Inserted(what) = {}
    BY <2>2 DEF Inserted
  <2>4. Names(what) = {}
    BY <2>3 DEF Names
  <2>5. ImportSeen(what, rows)
    BY <2>2 DEF ImportSeen
  <2> HIDE DEF what
  <2>6. AdmissionCarries("import", what, rows, student, plan)
    BY <2>4, <2>5 DEF AdmissionCarries, PlanSteps
  <2> QED
    BY <1>1, <1>2, <2>1, <2>4, <2>6, BillerGoesOn DEF PlanTables
<1>4. ASSUME ImportRow(p) PROVE AdmissionInv'
  <2> DEFINE s == seen[p]
             row == Head(s.todo)
             named == IF row.phone # None /\ Guardians(s, row.phone) = 0 THEN {row.phone} ELSE {}
             bills == IF row.program = None THEN {} ELSE Bills(row.student, RowsOf(PlansFor(s.year, row.program)))
             what == RowInserted(s, named, bills)
  <2>1. pc[p] = "import" /\ s.todo # <<>> /\ IndexFree(At("import") \ {p}, row.student)
    BY <1>4 DEF ImportRow
  <2>2. CASE Refused(s, row)
    <3>1. OnlyMoves(p, "idle", None)
      BY <1>1, <1>4, <2>2, GoesOn DEF ImportRow, Done, Continue
    <3>2. AdmissionCarries("idle", None, rows, student, plan)
      BY DEF AdmissionCarries, PlanSteps
    <3> QED
      BY <1>1, <1>2, <3>1, <3>2, BillerGoesOn DEF PlanTables
  <2>3. CASE ~Refused(s, row)
    <3>1. OnlyMoves(p, "import", what)
      BY <1>1, <1>4, <2>3, GoesOn DEF ImportRow, Continue, RowInserted
    <3>2. ImportSeen(s, rows) /\ Names(s) \cap student = {}
      BY <2>1 DEF AdmissionInv, AdmissionCarries
    <3>3. row \in FileRow
      <4>1. s.todo \in Seq(FileRow)
        BY <3>2 DEF ImportSeen
      <4> QED
        BY <2>1, <4>1, HeadTailProperties
    <3>4. named \in SUBSET Phones
      BY <3>3 DEF FileRow
    <3>5. bills \in SUBSET Bill(rows)
      BY <1>1, <3>3 DEF FileRow, Bills, Bill, RowsOf, PlansFor, PlanTables
    <3> HIDE DEF named, bills
    <3>6. ImportSeen(what, rows) /\ Names(what) = Names(s) \cup {row.student}
      <4>1. ImportSeen(what, rows) /\ OneRowFurther(s, what, bills)
        BY <2>1, <3>2, <3>4, <3>5, OneMoreRow
      <4> QED
        BY <4>1 DEF OneRowFurther
    <3> HIDE DEF what
    <3>7. row.student \notin student
      BY <2>3 DEF Refused
    <3>8. ASSUME NEW q \in At("import"), q # p PROVE Names(what) \cap Names(seen[q]) = {}
      <4>1. ImportSeen(seen[q], rows)
        BY DEF AdmissionInv, AdmissionCarries, At
      <4>2. row.student \notin Names(seen[q])
        BY <2>1, <3>8, <4>1, IndexKnows
      <4>3. Names(s) \cap Names(seen[q]) = {}
        BY <1>1, <2>1, <3>8 DEF ImportsApart, At
      <4> QED
        BY <3>6, <4>2, <4>3
    <3>9. AdmissionCarries("import", what, rows, student, plan)
      BY <3>2, <3>6, <3>7 DEF AdmissionCarries, PlanSteps
    <3> QED
      BY <1>1, <1>2, <3>1, <3>8, <3>9, BillerGoesOn DEF PlanTables
  <2> QED
    BY <2>2, <2>3
<1> QED
  BY <1>3, <1>4

\* An import that commits: its students come with the whole file.
LEMMA CommitStep ==
  ASSUME AdmissionInv, NEW p \in Requests, ImportCommit(p)
  PROVE  AdmissionInv'
<1> DEFINE s == seen[p]
           new == {row.student : row \in ToSet(Saved(s))}
<1>1. PlanTables /\ DeskShape /\ FilesWhole /\ ImportsApart
  BY DEF AdmissionInv
<1>2. ImportSeen(s, rows) /\ Names(s) \cap student = {} /\ pc[p] = "import" /\ s.todo = <<>>
  BY DEF ImportCommit, AdmissionInv, AdmissionCarries
<1>3. s.file \in Files /\ s.bills \subseteq Bill(rows)
  BY <1>2 DEF ImportSeen
<1>4. /\ Len(s.file) \in Nat /\ DOMAIN s.file = 1..Len(s.file) /\ s.file # None
      /\ \A n \in DOMAIN s.file : s.file[n].student \in Students
  BY <1>3, FilesAreSequences
<1>5. new = {s.file[n].student : n \in DOMAIN s.file} /\ new = Names(s)
  <2>1. new = {s.file[n].student : n \in DOMAIN s.file}
    BY <1>4 DEF Saved, ToSet
  <2>2. Inserted(s) = 1..Len(s.file)
    BY <1>2, <1>4 DEF Inserted
  <2> QED
    BY <1>4, <2>1, <2>2 DEF Names
<1>6. /\ OnlyMoves(p, "idle", None) /\ UNCHANGED <<plan, rows, dropped>>
      /\ student' = student \cup new
      /\ file' = [st \in Students |-> IF st \in new THEN s.file ELSE file[st]]
      /\ charges' = charges \cup {c \in s.bills : c[1] \in new}
  BY <1>1, GoesOn DEF ImportCommit, Done, Continue
<1> HIDE DEF s, new
<1>7. PlanTables' /\ DeskShape' /\ rows <= rows'
  BY <1>1, <1>3, <1>6, RowsAssumption DEF PlanTables, Existing, DeskShape, OnlyMoves
<1>8. FilesWhole'
  <2>1. student' \subseteq Students /\ DOMAIN file' = Students
    BY <1>1, <1>4, <1>5, <1>6 DEF FilesWhole
  <2>2. ASSUME NEW t \in Students, file'[t] # None
        PROVE  /\ t \in student' /\ file'[t] \in Files
               /\ \A n \in DOMAIN file'[t] : file'[t][n].student \in student' /\ file'[file'[t][n].student] = file'[t]
    <3>1. CASE t \in new
      BY <1>3, <1>4, <1>5, <1>6, <3>1
    <3>2. CASE t \notin new
      <4>1. file'[t] = file[t] /\ file[t] # None
        BY <1>6, <2>2, <3>2
      <4>2. /\ t \in student /\ file[t] \in Files
            /\ \A n \in DOMAIN file[t] : file[t][n].student \in student /\ file[file[t][n].student] = file[t]
        BY <1>1, <4>1 DEF FilesWhole
      <4>3. \A u \in student : u \in Students /\ u \notin new /\ file'[u] = file[u]
        BY <1>1, <1>2, <1>5, <1>6 DEF FilesWhole
      <4> QED
        BY <1>6, <4>1, <4>2, <4>3
    <3> QED
      BY <3>1, <3>2
  <2> QED
    BY <2>1, <2>2 DEF FilesWhole
<1>9. ImportsApart'
  <2>1. \A q \in Requests : pc'[q] = "import" => pc[q] = "import" /\ seen'[q] = seen[q]
    BY <1>6 DEF OnlyMoves
  <2> QED
    BY <1>1, <2>1, SameImports
<1>10. \A q \in Requests \ {p} : /\ pc'[q] = pc[q] /\ seen'[q] = seen[q]
                                 /\ pc[q] = "replace" => plan'[seen[q].plan] # None
                                 /\ pc[q] = "import" => Names(seen[q]) \cap student' = {}
  <2>1. ASSUME NEW q \in Requests \ {p}, pc[q] = "import" PROVE Names(seen[q]) \cap student' = {}
    <3>1. Names(seen[q]) \cap student = {}
      BY <2>1 DEF AdmissionInv, AdmissionCarries
    <3>2. Names(seen[q]) \cap Names(seen[p]) = {}
      BY <1>1, <1>2, <2>1 DEF ImportsApart, At
    <3> QED
      BY <1>5, <1>6, <3>1, <3>2 DEF s
  <2>2. \A q \in Requests : pc[q] = "replace" => plan[seen[q].plan] # None
    BY DEF AdmissionInv, AdmissionCarries
  <2> QED
    BY <1>6, <2>1, <2>2 DEF OnlyMoves
<1>11. \A q \in Requests \cap {p} : AdmissionCarries(pc'[q], seen'[q], rows', student', plan')
  BY <1>6 DEF OnlyMoves, AdmissionCarries, PlanSteps
<1> QED
  BY <1>7, <1>8, <1>9, <1>10, <1>11, AdmissionsAgain

\* Nothing that bills disturbs what admissions rely on.
LEMMA BillingKeepsAdmissions ==
  ASSUME AdmissionInv, NEW p \in Requests, BillingStep(p)
  PROVE  AdmissionInv'
BY ApplySteps, EnrolSteps, ImportSteps, CommitStep DEF BillingStep

\* A student who is entered waits for every import that has the number.
LEMMA StudentEntered ==
  ASSUME AdmissionInv, NEW s \in Students, CreateStudent(s)
  PROVE  AdmissionInv'
<1>1. PlanTables /\ DeskShape /\ FilesWhole /\ ImportsApart
  BY DEF AdmissionInv
<1>2. /\ UNCHANGED <<pc, seen, file, plan, rows, dropped, charges>>
      /\ student' = student \cup {s} /\ IndexFree(At("import"), s)
  BY DEF CreateStudent, AtOnce, fees
<1>3. PlanTables' /\ DeskShape' /\ rows <= rows' /\ ImportsApart'
  BY <1>1, <1>2, RowsAssumption DEF PlanTables, Existing, DeskShape, ImportsApart, At
<1>4. FilesWhole'
  BY <1>1, <1>2 DEF FilesWhole
<1>5. ASSUME NEW q \in Requests \ {}
      PROVE  /\ pc'[q] = pc[q] /\ seen'[q] = seen[q]
             /\ pc[q] = "replace" => plan'[seen[q].plan] # None
             /\ pc[q] = "import" => Names(seen[q]) \cap student' = {}
  <2>1. AdmissionCarries(pc[q], seen[q], rows, student, plan)
    BY DEF AdmissionInv
  <2>2. ASSUME pc[q] = "import" PROVE s \notin Names(seen[q])
    BY <1>2, <2>1, <2>2, IndexKnows DEF AdmissionCarries, At
  <2> QED
    BY <1>2, <2>1, <2>2 DEF AdmissionCarries
<1>6. \A q \in Requests \cap {} : AdmissionCarries(pc'[q], seen'[q], rows', student', plan')
  OBVIOUS
<1> QED
  BY <1>3, <1>4, <1>5, <1>6, AdmissionsAgain

-----------------------------------------------------------------------------
(***************************************************************************)
(* Imports.                                                                *)
(***************************************************************************)
LEMMA NextAdmissions ==
  ASSUME AdmissionInv, [Next]_vars
  PROVE  AdmissionInv'
<1>0. DeskShape
  BY DEF AdmissionInv
<1>1. CASE Admission(PlanStep)
  BY <1>1, PlanningKeepsAdmissions DEF Admission
<1>2. CASE \E p \in Requests : Admission(BillingStep(p))
  BY <1>2, BillingKeepsAdmissions DEF Admission
<1>3. CASE \E p \in Requests : Admission(RegistryStep(p))
  <2>1. Moves({"idle"} \cup RegistrySteps, {"idle"} \cup RegistrySteps) /\ UNCHANGED <<student, file, fees>>
    BY <1>0, <1>3, RegistryMoves DEF Admission
  <2>2. ({"idle"} \cup RegistrySteps) \cap (PlanSteps \cup BillSteps) = {}
    BY DEF RegistrySteps, PlanSteps, BillSteps
  <2> QED
    BY <2>1, <2>2, AdmissionsLeftAlone DEF fees
<1>4. CASE \E p \in Requests : Admission(Crash(p))
  <2>1. PICK p \in Requests : OnlyMoves(p, "idle", None) /\ UNCHANGED <<registry, fees>>
    BY <1>0, <1>4, CrashMoves DEF Admission
  <2>2. Moves({pc[p]}, {"idle"})
    BY <2>1, OneMoves
  <2>3. {"idle"} \cap (PlanSteps \cup BillSteps) = {}
    BY DEF PlanSteps, BillSteps
  <2> QED
    BY <2>1, <2>2, <2>3, AdmissionsLeftAlone DEF registry, fees
<1>5. CASE Admission(Entry)
  <2>1. Moves({}, {}) /\ UNCHANGED <<file, fees>> /\ (UNCHANGED student \/ \E s \in Students : CreateStudent(s))
    BY <1>0, <1>5, EntryMoves DEF Admission
  <2>2. CASE UNCHANGED student
    BY <2>1, <2>2, AdmissionsLeftAlone DEF fees
  <2> QED
    BY <2>1, <2>2, StudentEntered
<1>6. CASE FineStep /\ UNCHANGED registerVars
  <2>1. Moves({"idle", "fine"}, {"idle", "fine"}) /\ UNCHANGED admissionVars
    BY <1>0, <1>6, FineMoves
  <2>2. {"idle", "fine"} \cap (PlanSteps \cup BillSteps) = {}
    BY DEF PlanSteps, BillSteps
  <2> QED
    BY <2>1, <2>2, AdmissionsLeftAlone DEF admissionVars, registry, fees
<1>7. CASE RegisterStep /\ UNCHANGED <<admissionVars, fineVars>>
  <2>1. Moves({"idle"} \cup RegisterSteps, {"idle"} \cup RegisterSteps)
    BY <1>0, <1>7, RegisterMoves
  <2>2. ({"idle"} \cup RegisterSteps) \cap (PlanSteps \cup BillSteps) = {}
    BY DEF PlanSteps, BillSteps, RegisterSteps
  <2> QED
    BY <1>7, <2>1, <2>2, AdmissionsLeftAlone DEF admissionVars, registry, fees
<1>8. CASE UNCHANGED vars
  <2>1. UNCHANGED admissionVars /\ Moves({}, {})
    BY <1>0, <1>8, NobodyMoves DEF vars, requestVars
  <2> QED
    BY <2>1, AdmissionsLeftAlone DEF admissionVars, registry, fees
<1> QED
  BY <1>1, <1>2, <1>3, <1>4, <1>5, <1>6, <1>7, <1>8 DEF Next

\* It opens with the plans and students of the constants.
LEMMA InitAdmissions ==
  ASSUME Init
  PROVE  AdmissionInv
<1>1. /\ student \in FirstStudents /\ file = [s \in Students |-> None] /\ plan \in FirstPlans
      /\ rows = Cardinality(RowsOf(Existing)) /\ charges = {} /\ dropped = {}
  BY DEF Init, AdmissionInit
<1>2. FilesWhole
  BY <1>1, RosterAssumption DEF FilesWhole
<1>3. RowsOf(Existing) = 1..rows /\ rows \in 0..MaxRows
  <2>1. RowsOf(Existing) = UNION {plan[f].rows : f \in {f \in Plans : plan[f] # None}}
    BY DEF RowsOf, Existing
  <2> QED
    BY <1>1, <2>1, PlansAssumption
<1>4. PlanTables
  BY <1>1, <1>3, PlansAssumption DEF PlanTables, RowsOf, Existing
<1> QED
  BY <1>2, <1>4 DEF Init, NobodyYet, AdmissionInv, DeskShape, ImportsApart, At, AdmissionCarries, PlanSteps

(***************************************************************************)
(* THEOREM: an import saves the whole file or nothing                      *)
(* (import_students): each student came with the others of the file,      *)
(* whatever import, entry or enrolment overlapped and wherever it failed.  *)
(***************************************************************************)
THEOREM ImportsAreWhole == Spec => []ImportedWhole
<1>1. Init => AdmissionInv
  BY InitAdmissions
<1>2. AdmissionInv /\ [Next]_vars => AdmissionInv'
  BY NextAdmissions
<1>3. AdmissionInv => ImportedWhole
  BY DEF AdmissionInv, FilesWhole, ImportedWhole
<1> QED
  BY <1>1, <1>2, <1>3, PTL DEF Spec

-----------------------------------------------------------------------------
(***************************************************************************)
(* Late fines: what a run worked out on its day is within the rule on any  *)
(* later one.                                                              *)
(***************************************************************************)
LastGraceDay(c) == DueOf(c[2]) + grace_days
WithinRule(c, amount, day) ==
  /\ c \in Bill(MaxRows) /\ amount \in Int
  /\ day > LastGraceDay(c)
  /\ amount <= late_fine_amount * (IF PerDay(c[2]) THEN day - LastGraceDay(c) ELSE 1)
\* The day up to which a charge is late: it was paid then, or is not paid yet.
LateUntil(c, paid, day) == IF c \in DOMAIN paid THEN paid[c] ELSE day
FineInv ==
  /\ DeskShape
  /\ today \in Nat /\ \A c \in DOMAIN paidOn : paidOn[c] \in Nat
  /\ \A c \in DOMAIN fine : WithinRule(c, fine[c], LateUntil(c, paidOn, today))
  /\ \A p \in At("fine") : \A c \in DOMAIN seen[p] : WithinRule(c, seen[p][c].amount, LateUntil(c, paidOn, today))

\* The rule of an instalment is about whole days.
LEMMA RuleOf ==
  ASSUME NEW c \in Bill(MaxRows)
  PROVE  LastGraceDay(c) \in Int /\ DueOf(c[2]) \in Int /\ PerDay(c[2]) \in BOOLEAN
           /\ late_fine_amount \in Nat /\ grace_days \in Nat
<1>1. c[2] \in 1..MaxRows
  BY DEF Bill
<1>2. DueOf(c[2]) \in Int /\ PerDay(c[2]) \in BOOLEAN
  BY <1>1, FineAssumption
<1>3. late_fine_amount \in Nat /\ grace_days \in Nat
  BY FineAssumption
<1> QED
  BY <1>2, <1>3 DEF LastGraceDay

\* What is within the rule today is tomorrow.
LEMMA StillWithinRule ==
  ASSUME NEW c, NEW amount, NEW day \in Nat, WithinRule(c, amount, day)
  PROVE  WithinRule(c, amount, day + 1)
<1>1. c \in Bill(MaxRows) /\ amount \in Int /\ day > LastGraceDay(c)
      /\ amount <= late_fine_amount * (IF PerDay(c[2]) THEN day - LastGraceDay(c) ELSE 1)
  BY DEF WithinRule
<1>2. LastGraceDay(c) \in Int /\ PerDay(c[2]) \in BOOLEAN /\ late_fine_amount \in Nat
  BY <1>1, RuleOf
<1>3. CASE PerDay(c[2])
  <2> DEFINE late == day - LastGraceDay(c)
  <2>1. late \in Int /\ (day + 1) - LastGraceDay(c) = late + 1
    BY <1>2
  <2>2. amount <= late_fine_amount * late
    BY <1>1, <1>3
  <2> HIDE DEF late
  <2>3. late_fine_amount * (late + 1) = late_fine_amount * late + late_fine_amount
    BY <1>2, <2>1
  <2>4. late_fine_amount * late \in Int
    BY <1>2, <2>1
  <2>5. amount <= late_fine_amount * (late + 1)
    BY <1>1, <1>2, <2>2, <2>3, <2>4
  <2>6. day + 1 > LastGraceDay(c)
    BY <1>1, <1>2
  <2> QED
    BY <1>1, <1>3, <2>1, <2>5, <2>6 DEF WithinRule
<1>4. CASE ~PerDay(c[2])
  <2>1. day + 1 > LastGraceDay(c)
    BY <1>1, <1>2
  <2> QED
    BY <1>1, <1>4, <2>1 DEF WithinRule
<1> QED
  BY <1>3, <1>4

\* What a run works out is within the rule on its day.
LEMMA AmountWithinRule ==
  ASSUME NEW c \in Bill(MaxRows), NEW day \in Nat, days_late(c, day) > 0
  PROVE  WithinRule(c, Amount(c, day), day)
<1>1. LastGraceDay(c) \in Int /\ DueOf(c[2]) \in Int /\ PerDay(c[2]) \in BOOLEAN /\ late_fine_amount \in Nat /\ grace_days \in Nat
  BY RuleOf
<1>2. days_late(c, day) = day - LastGraceDay(c) /\ day > LastGraceDay(c) /\ days_late(c, day) \in Int
  BY <1>1 DEF days_late, LastGraceDay
<1>3. CASE PerDay(c[2])
  <2>1. Amount(c, day) = late_fine_amount * (day - LastGraceDay(c))
    BY <1>2, <1>3 DEF Amount
  <2>2. day - LastGraceDay(c) \in Int
    BY <1>1
  <2>3. late_fine_amount * (day - LastGraceDay(c)) \in Int
    BY <1>1, <2>2
  <2> QED
    BY <1>2, <1>3, <2>1, <2>3 DEF WithinRule
<1>4. CASE ~PerDay(c[2])
  BY <1>1, <1>2, <1>4 DEF WithinRule, Amount
<1> QED
  BY <1>3, <1>4

\* A step that adds no fine and takes no payment.
LEMMA FinesLeftAlone ==
  ASSUME FineInv, UNCHANGED fineVars, NEW from, NEW to, Moves(from, to), "fine" \notin to
  PROVE  FineInv'
<1>1. \A q \in Requests : pc'[q] = "fine" => pc[q] = "fine" /\ seen'[q] = seen[q]
  BY DEF Moves
<1>2. DeskShape'
  BY DEF Moves, DeskShape
<1> QED
  BY <1>1, <1>2 DEF FineInv, fineVars, At

\* A run reads the charges that are overdue.
LEMMA FineReadKeeps ==
  ASSUME FineInv, AdmissionInv, NEW p \in Requests, FineRead(p)
  PROVE  FineInv'
<1> DEFINE overdue == {c \in Outstanding : days_late(c, today) > 0}
           what == [c \in overdue |-> [amount |-> Amount(c, today), found |-> IF c \in DOMAIN fine THEN fine[c] ELSE None]]
<1>1. OnlyMoves(p, "fine", what) /\ UNCHANGED fineVars
  BY GoesOn DEF FineRead, Begin, FineInv
<1>2. charges \subseteq Bill(MaxRows)
  <2>1. charges \subseteq Bill(rows) /\ rows \in 0..MaxRows
    BY DEF AdmissionInv, PlanTables
  <2> QED
    BY <2>1, RowsAssumption, MoreBills
<1>3. ASSUME NEW c \in DOMAIN what PROVE WithinRule(c, what[c].amount, LateUntil(c, paidOn, today))
  <2>1. c \in Bill(MaxRows) /\ c \notin DOMAIN paidOn /\ days_late(c, today) > 0 /\ what[c].amount = Amount(c, today)
    BY <1>2 DEF Outstanding
  <2>2. today \in Nat
    BY DEF FineInv
  <2> QED
    BY <2>1, <2>2, AmountWithinRule DEF LateUntil
<1> HIDE DEF what
<1>4. DeskShape'
  BY <1>1 DEF OnlyMoves, DeskShape
<1>5. ASSUME NEW q \in Requests, pc'[q] = "fine", NEW c \in DOMAIN seen'[q]
      PROVE  WithinRule(c, seen'[q][c].amount, LateUntil(c, paidOn, today))
  BY <1>1, <1>3, <1>5 DEF OnlyMoves, FineInv, At
<1> QED
  BY <1>1, <1>4, <1>5 DEF FineInv, fineVars, At

\* It writes what it has worked out, and changes no other fine.
LEMMA FineWriteKeeps ==
  ASSUME FineInv, NEW p \in Requests, FineWrite(p)
  PROVE  FineInv'
<1> DEFINE new   == {c \in DOMAIN seen[p] : seen[p][c].found = None} \ DOMAIN fine
           grown == {c \in DOMAIN seen[p] : seen[p][c].found # None /\ seen[p][c].amount > seen[p][c].found}
<1>1. /\ OnlyMoves(p, "idle", None) /\ UNCHANGED <<today, paidOn>> /\ pc[p] = "fine"
      /\ fine' = [c \in DOMAIN fine \cup new |-> IF c \in new \cup grown THEN seen[p][c].amount ELSE fine[c]]
  BY GoesOn DEF FineWrite, Done, Continue, FineInv
<1>2. \A c \in DOMAIN seen[p] : WithinRule(c, seen[p][c].amount, LateUntil(c, paidOn, today))
  BY <1>1 DEF FineInv, At
<1>3. new \subseteq DOMAIN seen[p] /\ grown \subseteq DOMAIN seen[p]
  OBVIOUS
<1> HIDE DEF new, grown
<1>4. \A c \in DOMAIN fine' : WithinRule(c, fine'[c], LateUntil(c, paidOn, today))
  BY <1>1, <1>2, <1>3 DEF FineInv
<1>5. DeskShape' /\ \A q \in Requests : pc'[q] = "fine" => pc[q] = "fine" /\ seen'[q] = seen[q]
  BY <1>1 DEF OnlyMoves, DeskShape
<1> QED
  BY <1>1, <1>4, <1>5 DEF FineInv, At

\* A payment stops the fine on its day; a new day lets the others grow.
LEMMA DaysKeep ==
  ASSUME FineInv, (\E c \in charges : Pay(c)) \/ NextDay
  PROVE  FineInv'
<1>1. UNCHANGED <<pc, seen, fine>> /\ today \in Nat
  BY DEF Pay, NextDay, AtOnce, requestVars, FineInv
<1>2. CASE \E c \in charges : Pay(c)
  <2>1. PICK c \in charges : Pay(c)
    BY <1>2
  <2>2. /\ c \notin DOMAIN paidOn /\ UNCHANGED today
        /\ paidOn' = [d \in DOMAIN paidOn \cup {c} |-> IF d = c THEN today ELSE paidOn[d]]
    BY <2>1 DEF Pay, Outstanding
  <2>3. \A d : LateUntil(d, paidOn', today') = LateUntil(d, paidOn, today)
    BY <2>2 DEF LateUntil
  <2>4. \A d \in DOMAIN paidOn' : paidOn'[d] \in Nat
    BY <1>1, <2>2 DEF FineInv
  <2> QED
    BY <1>1, <2>2, <2>3, <2>4 DEF FineInv, At, DeskShape
<1>3. CASE NextDay
  <2>1. today' = today + 1 /\ UNCHANGED paidOn
    BY <1>3 DEF NextDay
  <2>2. ASSUME NEW c, NEW amount, WithinRule(c, amount, LateUntil(c, paidOn, today))
        PROVE  WithinRule(c, amount, LateUntil(c, paidOn', today'))
    BY <1>1, <2>1, <2>2, StillWithinRule DEF LateUntil
  <2>3. today' \in Nat
    BY <1>1, <2>1
  <2>4. \A c \in DOMAIN fine : WithinRule(c, fine[c], LateUntil(c, paidOn', today'))
    BY <2>2 DEF FineInv
  <2>5. \A q \in At("fine") : \A c \in DOMAIN seen[q] : WithinRule(c, seen[q][c].amount, LateUntil(c, paidOn', today'))
    BY <2>2 DEF FineInv
  <2> QED
    BY <1>1, <2>1, <2>3, <2>4, <2>5 DEF FineInv, At, DeskShape
<1> QED
  BY <1>2, <1>3

\* Every step keeps FineInv.
LEMMA NextFines ==
  ASSUME FineInv, AdmissionInv, [Next]_vars
  PROVE  FineInv'
<1>0. DeskShape
  BY DEF FineInv
<1>1. CASE FineStep
  BY <1>1, FineReadKeeps, FineWriteKeeps, DaysKeep DEF FineStep
<1>2. CASE Admission(PlanStep)
  <2>1. Moves({"idle"} \cup PlanSteps, {"idle"} \cup PlanSteps) /\ UNCHANGED fineVars
    BY <1>0, <1>2, PlanMoves DEF Admission
  <2> QED
    BY <2>1, FinesLeftAlone DEF PlanSteps
<1>3. CASE \E p \in Requests : Admission(BillingStep(p))
  <2>1. Moves({"idle"} \cup BillSteps, {"idle"} \cup BillSteps) /\ UNCHANGED fineVars
    BY <1>0, <1>3, BillingMoves DEF Admission
  <2> QED
    BY <2>1, FinesLeftAlone DEF BillSteps
<1>4. CASE \E p \in Requests : Admission(RegistryStep(p))
  <2>1. Moves({"idle"} \cup RegistrySteps, {"idle"} \cup RegistrySteps) /\ UNCHANGED fineVars
    BY <1>0, <1>4, RegistryMoves DEF Admission
  <2> QED
    BY <2>1, FinesLeftAlone DEF RegistrySteps
<1>5. CASE \E p \in Requests : Admission(Crash(p))
  <2>1. PICK p \in Requests : OnlyMoves(p, "idle", None) /\ UNCHANGED fineVars
    BY <1>0, <1>5, CrashMoves DEF Admission
  <2>2. Moves({pc[p]}, {"idle"})
    BY <2>1, OneMoves
  <2> QED
    BY <2>1, <2>2, FinesLeftAlone
<1>6. CASE Admission(Entry)
  <2>1. Moves({}, {}) /\ UNCHANGED fineVars
    BY <1>0, <1>6, EntryMoves DEF Admission
  <2> QED
    BY <2>1, FinesLeftAlone
<1>7. CASE RegisterStep /\ UNCHANGED <<admissionVars, fineVars>>
  <2>1. Moves({"idle"} \cup RegisterSteps, {"idle"} \cup RegisterSteps) /\ UNCHANGED fineVars
    BY <1>0, <1>7, RegisterMoves
  <2> QED
    BY <2>1, FinesLeftAlone DEF RegisterSteps
<1>8. CASE UNCHANGED vars
  <2>1. UNCHANGED fineVars /\ Moves({}, {})
    BY <1>0, <1>8, NobodyMoves DEF vars, requestVars
  <2> QED
    BY <2>1, FinesLeftAlone
<1> QED
  BY <1>1, <1>2, <1>3, <1>4, <1>5, <1>6, <1>7, <1>8 DEF Next

\* No charge is fined to begin with.
LEMMA InitFines ==
  ASSUME Init
  PROVE  FineInv
BY DEF Init, FineInit, NobodyYet, FineInv, DeskShape, At

\* FineInv says what the rule says.
LEMMA FinesAreWithinRule ==
  ASSUME FineInv
  PROVE  FineWithinRule
BY DEF FineInv, WithinRule, LastGraceDay, LateUntil, FineWithinRule

(***************************************************************************)
(* THEOREM: a late fine is never more than the head's rule gives for the   *)
(* days the charge was late (apply_late_fines), although runs overlap with *)
(* payments and with each other and one of an earlier day may write last.  *)
(***************************************************************************)
THEOREM FinesKeepToTheRule == Spec => []FineWithinRule
<1>1. Init => AdmissionInv /\ FineInv
  BY InitAdmissions, InitFines
<1>2. AdmissionInv /\ FineInv /\ [Next]_vars => AdmissionInv' /\ FineInv'
  BY NextAdmissions, NextFines
<1>3. FineInv => FineWithinRule
  BY FinesAreWithinRule
<1> QED
  BY <1>1, <1>2, <1>3, PTL DEF Spec

-----------------------------------------------------------------------------
(***************************************************************************)
(* Plans and bills, where no edit of a plan overlaps a request that bills: *)
(* nobody has been billed for the rows an edit takes away, and whatever a  *)
(* new enrolment owes is charged or is being charged.                      *)
(***************************************************************************)
RowsIn(of, set) == UNION {of[f].rows : f \in set}
KnownRows(of, gone) == RowsIn(of, {f \in Plans : of[f] # None}) \cup gone
BilledRows(bills, known) == \A c \in bills : c[2] \in known
BilledIn(bills, some) == \E c \in bills : c[2] \in some
\* What a student of a class is to be billed by the plans.
Owes(of, s, y, g) == {s} \X RowsIn(of, {f \in Plans : of[f] # None /\ of[f].year = y /\ of[f].program = g})
PlanCarries(step, what, of, known, billed) ==
  /\ step = "apply" => what.rows \subseteq known
  /\ step = "post" => BilledRows(what, known)
  /\ step = "bill" => \A one \in what : BilledRows(one, known)
  /\ step = "import" =>
       /\ BilledRows(what.bills, known)
       /\ \A n \in Inserted(what) :
            LET row == what.file[n]
            IN  row.program = None \/ Owes(of, row.student, what.year, row.program) \subseteq what.bills
  /\ step = "edit" =>
       of[what.plan] = None \/ of[what.plan].rows = what.rows \/ ~BilledIn(billed, of[what.plan].rows)
  /\ step = "replace" => ~BilledIn(billed, of[what.plan].rows)
\* What a request that bills an enrolment has still to post.
StillToPost(step, what, of) ==
  CASE step = "signal" -> Owes(of, what.student, what.year, what.program)
    [] step = "bill" -> UNION what
    [] OTHER -> {}
Apart == \A p, q \in Requests : pc[p] \in BillSteps => pc[q] \notin PlanSteps
OwedInv == \A b \in owed : b \in charges \/ \E p \in Requests : b \in StillToPost(pc[p], seen[p], plan)
PlanInv ==
  /\ DeskShape /\ Apart /\ OwedInv
  /\ BilledRows(charges, KnownRows(plan, dropped))
  /\ \A p \in Requests : PlanCarries(pc[p], seen[p], plan, KnownRows(plan, dropped), charges)

\* The same bills, said of the variables.
LEMMA OwesIsBills ==
  ASSUME NEW s, NEW y, NEW g
  PROVE  Bills(s, RowsOf(PlansFor(y, g))) = Owes(plan, s, y, g)
BY DEF Bills, RowsOf, PlansFor, Existing, Owes, RowsIn

\* A plan's rows are known.
LEMMA RowsAreKnown ==
  ASSUME NEW f \in Plans, plan[f] # None
  PROVE  plan[f].rows \subseteq KnownRows(plan, dropped)
BY DEF KnownRows, RowsIn

\* A step that neither plans nor bills.
LEMMA PlansLeftAlone ==
  ASSUME PlanInv, UNCHANGED <<plan, dropped, charges, owed>>, NEW from, NEW to, Moves(from, to),
         to \cap (PlanSteps \cup BillSteps) = {}, from \cap {"signal", "bill"} = {}
  PROVE  PlanInv'
<1>1. \A q \in Requests : pc'[q] \in PlanSteps \cup BillSteps => pc'[q] = pc[q] /\ seen'[q] = seen[q]
  BY DEF Moves
<1>2. \A q \in Requests : pc[q] \in {"signal", "bill"} => pc'[q] = pc[q] /\ seen'[q] = seen[q]
  BY DEF Moves
<1>3. DeskShape' /\ Apart'
  BY <1>1 DEF PlanInv, Apart, Moves, DeskShape
<1>4. OwedInv'
  <2>1. ASSUME NEW q \in Requests, NEW b \in StillToPost(pc[q], seen[q], plan)
        PROVE  b \in StillToPost(pc'[q], seen'[q], plan)
    <3>1. pc[q] \in {"signal", "bill"}
      BY <2>1 DEF StillToPost
    <3> QED
      BY <1>2, <2>1, <3>1
  <2>2. OwedInv
    BY DEF PlanInv
  <2> QED
    BY <2>1, <2>2 DEF OwedInv
<1>5. ASSUME NEW q \in Requests PROVE PlanCarries(pc'[q], seen'[q], plan, KnownRows(plan, dropped), charges)
  <2>1. CASE pc'[q] \in PlanSteps \cup BillSteps
    BY <1>1, <2>1 DEF PlanInv
  <2>2. CASE pc'[q] \notin PlanSteps \cup BillSteps
    BY <2>2 DEF PlanCarries, PlanSteps, BillSteps
  <2> QED
    BY <2>1, <2>2
<1> QED
  BY <1>3, <1>4, <1>5 DEF PlanInv

\* A plan is changed while nobody bills: rows somebody was billed for stay.
LEMMA PlansChange ==
  ASSUME PlanInv, AdmissionInv, AdmissionInv', NobodyBills, UNCHANGED <<charges, owed>>,
         NEW movers,
         \A q \in Requests \ movers : pc'[q] = pc[q] /\ seen'[q] = seen[q],
         \A q \in Requests \cap movers :
           pc'[q] \in {"idle"} \cup PlanSteps /\ PlanCarries(pc'[q], seen'[q], plan', KnownRows(plan', dropped'), charges),
         BilledRows(charges, KnownRows(plan', dropped')),
         \A f \in Plans :
           \/ plan'[f] = None
           \/ plan[f] # None /\ plan'[f].rows = plan[f].rows
           \/ ~BilledIn(charges, plan'[f].rows)
  PROVE  PlanInv'
<1>1. \A q \in Requests : pc[q] \notin BillSteps /\ pc'[q] \notin BillSteps
  BY DEF NobodyBills, BillSteps, PlanSteps
<1>2. DeskShape' /\ Apart'
  BY <1>1 DEF AdmissionInv, Apart
<1>3. OwedInv'
  <2>1. \A q \in Requests : StillToPost(pc[q], seen[q], plan) = {}
    BY <1>1 DEF StillToPost, BillSteps
  <2>2. owed \subseteq charges
    BY <2>1 DEF PlanInv, OwedInv
  <2> QED
    BY <2>2 DEF OwedInv
<1>4. ASSUME NEW q \in Requests PROVE PlanCarries(pc'[q], seen'[q], plan', KnownRows(plan', dropped'), charges)
  <2>1. CASE q \in movers
    BY <2>1
  <2>2. CASE q \notin movers
    <3>1. pc'[q] = pc[q] /\ seen'[q] = seen[q]
      BY <2>2
    <3>2. PlanCarries(pc[q], seen[q], plan, KnownRows(plan, dropped), charges)
      BY DEF PlanInv
    <3>3. AdmissionCarries(pc[q], seen[q], rows, student, plan) /\ AdmissionCarries(pc[q], seen[q], rows', student', plan')
      BY <3>1 DEF AdmissionInv
    <3>4. CASE pc[q] = "edit"
      <4>1. seen[q].plan \in Plans
        BY <3>3, <3>4 DEF AdmissionCarries, PlanSteps
      <4>2. \/ plan[seen[q].plan] = None \/ plan[seen[q].plan].rows = seen[q].rows
            \/ ~BilledIn(charges, plan[seen[q].plan].rows)
        BY <3>2, <3>4 DEF PlanCarries
      <4>3. \/ plan'[seen[q].plan] = None \/ plan'[seen[q].plan].rows = seen[q].rows
            \/ ~BilledIn(charges, plan'[seen[q].plan].rows)
        BY <4>1, <4>2
      <4> QED
        BY <3>1, <3>4, <4>3 DEF PlanCarries
    <3>5. CASE pc[q] = "replace"
      <4>1. seen[q].plan \in Plans /\ plan'[seen[q].plan] # None /\ ~BilledIn(charges, plan[seen[q].plan].rows)
        BY <3>2, <3>3, <3>5 DEF AdmissionCarries, PlanCarries, PlanSteps
      <4>2. ~BilledIn(charges, plan'[seen[q].plan].rows)
        BY <4>1
      <4> QED
        BY <3>1, <3>5, <4>2 DEF PlanCarries
    <3>6. CASE pc[q] \notin PlanSteps
      BY <1>1, <3>1, <3>6 DEF PlanCarries, PlanSteps, BillSteps
    <3> QED
      BY <3>4, <3>5, <3>6 DEF PlanSteps
  <2> QED
    BY <2>1, <2>2
<1> QED
  BY <1>2, <1>3, <1>4 DEF PlanInv

\* Whatever was done to plans while nobody bills.
LEMMA PlanningKeepsPlans ==
  ASSUME PlanInv, AdmissionInv, NobodyBills, PlanStep
  PROVE  PlanInv'
<1>1. AdmissionInv' /\ UNCHANGED <<charges, owed>>
  BY PlanningKeepsAdmissions, PlanMoves DEF AdmissionInv
<1>2. PlanTables /\ DeskShape /\ BilledRows(charges, KnownRows(plan, dropped))
  BY DEF AdmissionInv, PlanInv
<1>3. \A c \in charges : c[2] \in 1..rows
  BY <1>2 DEF PlanTables, Bill
<1>4. rows \in Nat
  BY <1>2 DEF PlanTables
<1>5. \A n \in 1..2 : ~BilledIn(charges, Fresh(n))
  BY <1>3, <1>4 DEF BilledIn, Fresh
<1>6. \A q \in Requests \cap {} : /\ pc'[q] \in {"idle"} \cup PlanSteps
                                 /\ PlanCarries(pc'[q], seen'[q], plan', KnownRows(plan', dropped'), charges)
  OBVIOUS
<1>7. ASSUME NEW p \in Requests, NEW f \in Plans, EditFetch(p, f) PROVE PlanInv'
  <2> DEFINE what == [plan |-> f, rows |-> plan[f].rows]
  <2>1. OnlyMoves(p, "edit", what) /\ UNCHANGED <<plan, dropped>>
    BY <1>2, <1>7, GoesOn DEF EditFetch, Begin, admissionVars, fees
  <2>2. \A q \in Requests \ {p} : pc'[q] = pc[q] /\ seen'[q] = seen[q]
    BY <2>1 DEF OnlyMoves
  <2>3. \A q \in Requests \cap {p} : /\ pc'[q] \in {"idle"} \cup PlanSteps
                                    /\ PlanCarries(pc'[q], seen'[q], plan', KnownRows(plan', dropped'), charges)
    BY <2>1 DEF OnlyMoves, PlanCarries, PlanSteps
  <2>4. BilledRows(charges, KnownRows(plan', dropped'))
    BY <1>2, <2>1
  <2> QED
    BY <1>1, <2>1, <2>2, <2>3, <2>4, PlansChange
<1>8. ASSUME NEW p \in Requests, EditCheck(p) PROVE PlanInv'
  <2>1. UNCHANGED <<plan, dropped>> /\ pc[p] = "edit"
    BY <1>8 DEF EditCheck, admissionVars, fees
  <2>2. \/ OnlyMoves(p, "idle", None)
        \/ plan[seen[p].plan] # None /\ ~Billed(seen[p].rows) /\ OnlyMoves(p, "replace", seen[p])
    BY <1>2, <1>8, GoesOn DEF EditCheck, Done, Continue
  <2>3. \A q \in Requests \ {p} : pc'[q] = pc[q] /\ seen'[q] = seen[q]
    BY <2>2 DEF OnlyMoves
  <2>4. \/ plan[seen[p].plan] = None \/ plan[seen[p].plan].rows = seen[p].rows
        \/ ~BilledIn(charges, plan[seen[p].plan].rows)
    BY <2>1 DEF PlanInv, PlanCarries
  <2>5. Billed(seen[p].rows) = BilledIn(charges, seen[p].rows)
    BY DEF Billed, BilledIn
  <2>6. \A q \in Requests \cap {p} : /\ pc'[q] \in {"idle"} \cup PlanSteps
                                    /\ PlanCarries(pc'[q], seen'[q], plan', KnownRows(plan', dropped'), charges)
    BY <2>1, <2>2, <2>4, <2>5 DEF OnlyMoves, PlanCarries, PlanSteps
  <2>7. BilledRows(charges, KnownRows(plan', dropped'))
    BY <1>2, <2>1
  <2> QED
    BY <1>1, <2>1, <2>3, <2>6, <2>7, PlansChange
<1>9. ASSUME NEW p \in Requests, EditReplace(p) PROVE PlanInv'
  <2> DEFINE f == seen[p].plan
  <2>1. /\ OnlyMoves(p, "idle", None) /\ pc[p] = "replace" /\ UNCHANGED dropped
        /\ plan' = [plan EXCEPT ![f].rows = Fresh(1)]
    BY <1>2, <1>9, GoesOn DEF EditReplace, Done, Continue
  <2>2. f \in Plans /\ plan[f] # None /\ ~BilledIn(charges, plan[f].rows)
    BY <2>1 DEF AdmissionInv, AdmissionCarries, PlanInv, PlanCarries, PlanSteps
  <2>3. plan[f] \in PlanRow
    BY <1>2, <2>2 DEF PlanTables
  <2>4. plan'[f].rows = Fresh(1) /\ \A h \in Plans \ {f} : plan'[h] = plan[h]
    BY <1>2, <2>1, <2>2, <2>3 DEF PlanTables, PlanRow
  <2> HIDE DEF f
  <2>5. \A q \in Requests \ {p} : pc'[q] = pc[q] /\ seen'[q] = seen[q]
    BY <2>1 DEF OnlyMoves
  <2>6. \A q \in Requests \cap {p} : /\ pc'[q] \in {"idle"} \cup PlanSteps
                                    /\ PlanCarries(pc'[q], seen'[q], plan', KnownRows(plan', dropped'), charges)
    BY <2>1 DEF OnlyMoves, PlanCarries, PlanSteps
  <2>7. BilledRows(charges, KnownRows(plan', dropped'))
    <3>1. ASSUME NEW c \in charges PROVE c[2] \in KnownRows(plan', dropped')
      <4>1. c[2] \in dropped \/ \E h \in Plans : plan[h] # None /\ c[2] \in plan[h].rows
        BY <1>2 DEF BilledRows, KnownRows, RowsIn
      <4>2. c[2] \notin plan[f].rows
        BY <2>2 DEF BilledIn
      <4> QED
        BY <2>1, <2>4, <4>1, <4>2 DEF KnownRows, RowsIn
    <3> QED
      BY <3>1 DEF BilledRows
  <2>8. \A h \in Plans : \/ plan'[h] = None
                         \/ plan[h] # None /\ plan'[h].rows = plan[h].rows
                         \/ ~BilledIn(charges, plan'[h].rows)
    BY <1>5, <2>4
  <2> QED
    BY <1>1, <2>5, <2>6, <2>7, <2>8, PlansChange
<1>10. ASSUME NEW f \in Plans, NEW g \in Programs, MovePlan(f, g) PROVE PlanInv'
  <2>1. UNCHANGED <<pc, seen, dropped>> /\ plan' = [plan EXCEPT ![f].program = g] /\ plan[f] \in PlanRow
    BY <1>2, <1>10 DEF MovePlan, AtOnce, PlanTables
  <2>2. plan'[f].rows = plan[f].rows /\ plan'[f] \in PlanRow /\ \A h \in Plans \ {f} : plan'[h] = plan[h]
    BY <1>2, <2>1 DEF PlanTables, PlanRow
  <2>3. \A h \in Plans : (plan'[h] = None <=> plan[h] = None) /\ plan'[h].rows = plan[h].rows
    BY <2>1, <2>2, PlansAssumption
  <2>4. BilledRows(charges, KnownRows(plan', dropped'))
    BY <1>2, <2>1, <2>3 DEF BilledRows, KnownRows, RowsIn
  <2> QED
    BY <1>1, <1>6, <2>1, <2>3, <2>4, PlansChange
<1>11. ASSUME NEW f \in Plans, DeletePlan(f) PROVE PlanInv'
  <2>1. /\ UNCHANGED <<pc, seen>> /\ plan' = [plan EXCEPT ![f] = None] /\ dropped' = dropped \cup plan[f].rows
    BY <1>11 DEF DeletePlan, AtOnce
  <2>2. plan'[f] = None /\ \A h \in Plans \ {f} : plan'[h] = plan[h]
    BY <1>2, <2>1 DEF PlanTables
  <2>3. BilledRows(charges, KnownRows(plan', dropped'))
    <3>1. ASSUME NEW c \in charges PROVE c[2] \in KnownRows(plan', dropped')
      <4>1. c[2] \in dropped \/ \E h \in Plans : plan[h] # None /\ c[2] \in plan[h].rows
        BY <1>2 DEF BilledRows, KnownRows, RowsIn
      <4> QED
        BY <2>1, <2>2, <4>1 DEF KnownRows, RowsIn
    <3> QED
      BY <3>1 DEF BilledRows
  <2> QED
    BY <1>1, <1>6, <2>1, <2>2, <2>3, PlansChange
<1>12. ASSUME NEW f \in Plans, NEW g \in Programs, NEW y \in Years, NEW n \in 1..2, CreatePlan(f, y, g, n) PROVE PlanInv'
  <2> DEFINE new == [year |-> y, program |-> g, rows |-> Fresh(n)]
  <2>1. UNCHANGED <<pc, seen, dropped>> /\ plan[f] = None /\ plan' = [plan EXCEPT ![f] = new]
    BY <1>12 DEF CreatePlan, AtOnce
  <2>2. plan'[f].rows = Fresh(n) /\ \A h \in Plans \ {f} : plan'[h] = plan[h]
    BY <1>2, <2>1 DEF PlanTables
  <2> HIDE DEF new
  <2>3. \A h \in Plans : plan[h] # None => plan'[h] = plan[h]
    BY <2>1, <2>2
  <2>4. BilledRows(charges, KnownRows(plan', dropped'))
    BY <1>2, <2>1, <2>3 DEF BilledRows, KnownRows, RowsIn
  <2>5. \A h \in Plans : \/ plan'[h] = None
                         \/ plan[h] # None /\ plan'[h].rows = plan[h].rows
                         \/ ~BilledIn(charges, plan'[h].rows)
    BY <1>5, <2>2
  <2> QED
    BY <1>1, <1>6, <2>1, <2>4, <2>5, PlansChange
<1> QED
  BY <1>7, <1>8, <1>9, <1>10, <1>11, <1>12 DEF PlanStep

\* A request that bills goes on while no plan is edited: what it had still to
\* post it has posted, or has still to post.
LEMMA BillerKeepsPlans ==
  ASSUME PlanInv, PlansAtRest, NEW p \in Requests, NEW step \in {"idle"} \cup BillSteps, NEW what,
         OnlyMoves(p, step, what), UNCHANGED <<plan, dropped>>,
         charges \subseteq charges', BilledRows(charges', KnownRows(plan, dropped)),
         PlanCarries(step, what, plan, KnownRows(plan, dropped), charges'),
         \A b \in owed' : b \in owed \/ b \in charges' \/ b \in StillToPost(step, what, plan),
         \A b \in StillToPost(pc[p], seen[p], plan) : b \in charges' \/ b \in StillToPost(step, what, plan)
  PROVE  PlanInv'
<1>1. \A q \in Requests \ {p} : pc'[q] = pc[q] /\ seen'[q] = seen[q]
  BY DEF OnlyMoves
<1>2. pc'[p] = step /\ seen'[p] = what
  BY DEF OnlyMoves
<1>3. \A q \in Requests : pc[q] \notin PlanSteps /\ pc'[q] \notin PlanSteps
  BY <1>1, <1>2 DEF PlansAtRest, At, PlanSteps, BillSteps
<1>4. DeskShape' /\ Apart'
  BY <1>3 DEF OnlyMoves, DeskShape, Apart
<1>5. OwedInv'
  <2>1. ASSUME NEW b \in owed'
        PROVE  b \in charges' \/ \E q \in Requests : b \in StillToPost(pc'[q], seen'[q], plan')
    <3>1. CASE b \in StillToPost(step, what, plan)
      BY <1>2, <3>1
    <3>2. CASE b \in owed
      <4>1. b \in charges \/ \E q \in Requests : b \in StillToPost(pc[q], seen[q], plan)
        BY <3>2 DEF PlanInv, OwedInv
      <4>2. CASE b \in StillToPost(pc[p], seen[p], plan)
        BY <1>2, <4>2
      <4>3. CASE \E q \in Requests \ {p} : b \in StillToPost(pc[q], seen[q], plan)
        BY <1>1, <4>3
      <4> QED
        BY <4>1, <4>2, <4>3
    <3> QED
      BY <3>1, <3>2
  <2> QED
    BY <2>1 DEF OwedInv
<1>6. ASSUME NEW q \in Requests PROVE PlanCarries(pc'[q], seen'[q], plan', KnownRows(plan', dropped'), charges')
  <2>1. CASE q = p
    BY <1>2, <2>1
  <2>2. CASE q # p
    <3>1. PlanCarries(pc[q], seen[q], plan, KnownRows(plan, dropped), charges)
      BY DEF PlanInv
    <3>2. PlanCarries(pc[q], seen[q], plan, KnownRows(plan, dropped), charges')
      BY <1>3, <3>1 DEF PlanCarries, PlanSteps
    <3> QED
      BY <1>1, <2>2, <3>2
  <2> QED
    BY <2>1, <2>2
<1> QED
  BY <1>4, <1>5, <1>6 DEF PlanInv

\* Applying a plan.
LEMMA ApplyKeepsPlans ==
  ASSUME PlanInv, PlansAtRest, NEW p \in Requests,
         (\E f \in Plans : ApplyFetch(p, f)) \/ ApplyRead(p) \/ ApplyPost(p)
  PROVE  PlanInv'
<1> DEFINE known == KnownRows(plan, dropped)
<1>1. DeskShape /\ BilledRows(charges, known) /\ PlanCarries(pc[p], seen[p], plan, known, charges)
  BY DEF PlanInv
<1>2. UNCHANGED <<plan, dropped, owed>>
  BY DEF ApplyFetch, ApplyRead, ApplyPost, admissionVars, fees
<1>3. pc[p] \in {"idle", "apply", "post"}
  BY DEF ApplyFetch, ApplyRead, ApplyPost, Begin
<1>4. StillToPost(pc[p], seen[p], plan) = {}
  BY <1>3 DEF StillToPost
<1>5. ASSUME NEW f \in Plans, ApplyFetch(p, f) PROVE PlanInv'
  <2>1. OnlyMoves(p, "apply", plan[f]) /\ UNCHANGED charges /\ plan[f] # None
    BY <1>1, <1>5, GoesOn DEF ApplyFetch, Begin, admissionVars, fees
  <2>2. PlanCarries("apply", plan[f], plan, known, charges')
    BY <2>1, RowsAreKnown DEF PlanCarries
  <2> QED
    BY <1>1, <1>2, <1>4, <2>1, <2>2, BillerKeepsPlans DEF BillSteps
<1>6. ASSUME ApplyRead(p) PROVE PlanInv'
  <2> DEFINE covered == {s \in student : enrolment[s][seen[p].year] = [program |-> seen[p].program, status |-> "active"]}
             what == covered \X seen[p].rows
  <2>1. OnlyMoves(p, "post", what) /\ UNCHANGED charges /\ pc[p] = "apply"
    BY <1>1, <1>6, GoesOn DEF ApplyRead, Continue, admissionVars, fees
  <2>2. seen[p].rows \subseteq known
    BY <1>1, <2>1 DEF PlanCarries
  <2> HIDE DEF covered
  <2>3. PlanCarries("post", what, plan, known, charges')
    BY <2>2 DEF PlanCarries, BilledRows
  <2> HIDE DEF what
  <2> QED
    BY <1>1, <1>2, <1>4, <2>1, <2>3, BillerKeepsPlans DEF BillSteps
<1>7. ASSUME ApplyPost(p) PROVE PlanInv'
  <2>1. OnlyMoves(p, "idle", None) /\ charges' = charges \cup seen[p] /\ pc[p] = "post"
    BY <1>1, <1>7, GoesOn DEF ApplyPost, Done, Continue
  <2>2. BilledRows(charges', known)
    BY <1>1, <2>1 DEF PlanCarries, BilledRows
  <2>3. PlanCarries("idle", None, plan, known, charges')
    BY DEF PlanCarries
  <2> QED
    BY <1>2, <1>4, <2>1, <2>2, <2>3, BillerKeepsPlans
<1> QED
  BY <1>5, <1>6, <1>7

\* An enrolment owes what the plans say, and its signal bills it.
LEMMA EnrolKeepsPlans ==
  ASSUME PlanInv, PlansAtRest, NEW p \in Requests,
         (\E a \in Admitted, status \in {"active", "left"} : Enrol(p, a.student, a.year, a.program, status))
           \/ SignalRead(p) \/ SignalBill(p)
  PROVE  PlanInv'
<1> DEFINE known == KnownRows(plan, dropped)
<1>1. DeskShape /\ BilledRows(charges, known) /\ PlanCarries(pc[p], seen[p], plan, known, charges)
  BY DEF PlanInv
<1>2. UNCHANGED <<plan, dropped>>
  BY DEF Enrol, SignalRead, SignalBill, admissionVars, fees
<1>3. ASSUME NEW a \in Admitted, NEW status \in {"active", "left"}, Enrol(p, a.student, a.year, a.program, status)
      PROVE  PlanInv'
  <2>1. CASE status = "active"
    <3> DEFINE what == [student |-> a.student, year |-> a.year, program |-> a.program]
    <3>1. OnlyMoves(p, "signal", what) /\ UNCHANGED charges /\ pc[p] = "idle"
      BY <1>1, <1>3, <2>1, GoesOn DEF Enrol, Begin
    <3>2. owed' = owed \cup StillToPost("signal", what, plan)
      BY <1>3, <2>1, OwesIsBills DEF Enrol, StillToPost
    <3>3. StillToPost(pc[p], seen[p], plan) = {}
      BY <3>1 DEF StillToPost
    <3>4. PlanCarries("signal", what, plan, known, charges')
      BY DEF PlanCarries
    <3> HIDE DEF what
    <3> QED
      BY <1>1, <1>2, <3>1, <3>2, <3>3, <3>4, BillerKeepsPlans DEF BillSteps
  <2>2. CASE status # "active"
    <3>1. UNCHANGED <<pc, seen, charges, owed>>
      BY <1>3, <2>2 DEF Enrol, AtOnce
    <3>2. Moves({}, {})
      BY <1>1, <3>1, NobodyMoves
    <3> QED
      BY <1>2, <3>1, <3>2, PlansLeftAlone
  <2> QED
    BY <2>1, <2>2
<1>4. ASSUME SignalRead(p) PROVE PlanInv'
  <2> DEFINE s == seen[p]
             what == {Bills(s.student, plan[f].rows) : f \in PlansFor(s.year, s.program)}
  <2>1. OnlyMoves(p, "bill", what) /\ UNCHANGED <<charges, owed>> /\ pc[p] = "signal"
    BY <1>1, <1>4, GoesOn DEF SignalRead, Continue, EveryPlan, admissionVars, fees
  <2>2. UNION what = Owes(plan, s.student, s.year, s.program)
    BY DEF Bills, PlansFor, Existing, Owes, RowsIn
  <2>3. \A f \in PlansFor(s.year, s.program) : plan[f].rows \subseteq known
    BY RowsAreKnown DEF PlansFor, Existing
  <2>4. \A f \in PlansFor(s.year, s.program) : BilledRows(Bills(s.student, plan[f].rows), known)
    BY <2>3 DEF Bills, BilledRows
  <2>5. PlanCarries("bill", what, plan, known, charges')
    BY <2>4 DEF PlanCarries
  <2>6. StillToPost(pc[p], seen[p], plan) = StillToPost("bill", what, plan)
    BY <2>1, <2>2 DEF StillToPost
  <2> HIDE DEF what
  <2> QED
    BY <1>1, <1>2, <2>1, <2>5, <2>6, BillerKeepsPlans DEF BillSteps
<1>5. ASSUME SignalBill(p) PROVE PlanInv'
  <2>1. pc[p] = "bill" /\ UNCHANGED owed /\ StillToPost(pc[p], seen[p], plan) = UNION seen[p]
    BY <1>5 DEF SignalBill, StillToPost
  <2>2. CASE seen[p] = {}
    <3>1. OnlyMoves(p, "idle", None) /\ UNCHANGED charges
      BY <1>1, <1>5, <2>2, GoesOn DEF SignalBill, Done, Continue
    <3>2. PlanCarries("idle", None, plan, known, charges')
      BY DEF PlanCarries
    <3>3. StillToPost(pc[p], seen[p], plan) = {}
      BY <2>1, <2>2
    <3> QED
      BY <1>1, <1>2, <2>1, <3>1, <3>2, <3>3, BillerKeepsPlans
  <2>3. CASE seen[p] # {}
    <3>1. PICK one \in seen[p] : charges' = charges \cup one /\ Continue(p, "bill", seen[p] \ {one})
      BY <1>5, <2>3 DEF SignalBill
    <3> DEFINE what == seen[p] \ {one}
    <3>2. OnlyMoves(p, "bill", what)
      BY <1>1, <3>1, GoesOn DEF Continue
    <3>3. \A other \in seen[p] : BilledRows(other, known)
      BY <1>1, <2>1 DEF PlanCarries
    <3>4. PlanCarries("bill", what, plan, known, charges')
      BY <3>3 DEF PlanCarries
    <3>5. BilledRows(charges', known)
      BY <1>1, <3>1, <3>3 DEF BilledRows
    <3>6. \A b \in StillToPost(pc[p], seen[p], plan) : b \in charges' \/ b \in StillToPost("bill", what, plan)
      BY <2>1, <3>1 DEF StillToPost
    <3> HIDE DEF what
    <3>7. charges \subseteq charges'
      BY <3>1
    <3> QED
      BY <1>2, <2>1, <3>2, <3>4, <3>5, <3>6, <3>7, BillerKeepsPlans DEF BillSteps
  <2> QED
    BY <2>2, <2>3
<1> QED
  BY <1>3, <1>4, <1>5

\* An import bills each row by the plans there are, and no plan is edited
\* before it commits.
LEMMA ImportKeepsPlans ==
  ASSUME PlanInv, AdmissionInv, PlansAtRest, NEW p \in Requests,
         (\E f \in Files : Upload(p, f)) \/ ImportRow(p) \/ ImportCommit(p)
  PROVE  PlanInv'
<1> DEFINE known == KnownRows(plan, dropped)
           s == seen[p]
<1>1. DeskShape /\ BilledRows(charges, known) /\ PlanCarries(pc[p], s, plan, known, charges)
  BY DEF PlanInv
<1>2. UNCHANGED <<plan, dropped>>
  BY DEF Upload, ImportRow, ImportCommit, admissionVars, fees
<1>3. StillToPost(pc[p], s, plan) = {}
  <2>1. pc[p] \in {"idle", "import"}
    BY DEF Upload, Begin, ImportRow, ImportCommit
  <2> QED
    BY <2>1 DEF StillToPost
<1>4. ASSUME NEW f \in Files, Upload(p, f) PROVE PlanInv'
  <2> DEFINE year == IF current = {} THEN None ELSE CHOOSE y \in current : TRUE
             what == [file |-> f, todo |-> f, year |-> year, phones |-> {}, bills |-> {}]
  <2> HIDE DEF year
  <2>1. OnlyMoves(p, "import", what) /\ UNCHANGED <<charges, owed>>
    BY <1>1, <1>4, GoesOn DEF Upload, Begin, admissionVars, fees, year
  <2>2. Inserted(what) = {}
    BY FilesAreSequences DEF Inserted
  <2>3. PlanCarries("import", what, plan, known, charges')
    BY <2>2 DEF PlanCarries, BilledRows
  <2> HIDE DEF what
  <2> QED
    BY <1>1, <1>2, <1>3, <2>1, <2>3, BillerKeepsPlans DEF BillSteps
<1>5. ASSUME ImportRow(p) PROVE PlanInv'
  <2> DEFINE row == Head(s.todo)
             named == IF row.phone # None /\ Guardians(s, row.phone) = 0 THEN {row.phone} ELSE {}
             bills == IF row.program = None THEN {} ELSE Bills(row.student, RowsOf(PlansFor(s.year, row.program)))
             what == RowInserted(s, named, bills)
  <2>1. pc[p] = "import" /\ s.todo # <<>> /\ UNCHANGED <<charges, owed>>
    BY <1>5 DEF ImportRow, admissionVars, fees
  <2>2. CASE Refused(s, row)
    <3>1. OnlyMoves(p, "idle", None)
      BY <1>1, <1>5, <2>2, GoesOn DEF ImportRow, Done, Continue
    <3>2. PlanCarries("idle", None, plan, known, charges')
      BY DEF PlanCarries
    <3> QED
      BY <1>1, <1>2, <1>3, <2>1, <3>1, <3>2, BillerKeepsPlans
  <2>3. CASE ~Refused(s, row)
    <3>1. OnlyMoves(p, "import", what)
      BY <1>1, <1>5, <2>3, GoesOn DEF ImportRow, Continue, RowInserted
    <3>2. ImportSeen(s, rows) /\ PlanTables
      BY <2>1 DEF AdmissionInv, AdmissionCarries
    <3>3. row \in FileRow
      <4>1. s.todo \in Seq(FileRow)
        BY <3>2 DEF ImportSeen
      <4> QED
        BY <2>1, <4>1, HeadTailProperties
    <3>4. named \in SUBSET Phones
      BY <3>3 DEF FileRow
    <3>5. bills \in SUBSET Bill(rows)
      BY <3>2, <3>3 DEF FileRow, Bills, Bill, RowsOf, PlansFor, PlanTables
    <3>6. row.program = None \/ Owes(plan, row.student, s.year, row.program) = bills
      BY OwesIsBills
    <3>7. BilledRows(bills, known)
      <4>1. RowsOf(PlansFor(s.year, row.program)) \subseteq known
        BY DEF RowsOf, PlansFor, Existing, KnownRows, RowsIn
      <4> QED
        BY <4>1 DEF Bills, BilledRows
    <3> HIDE DEF named, bills
    <3>8. /\ what.file = s.file /\ what.year = s.year /\ what.bills = s.bills \cup bills
          /\ \E k \in DOMAIN s.file : s.file[k] = row /\ Inserted(what) = Inserted(s) \cup {k}
      <4>1. OneRowFurther(s, what, bills)
        BY <2>1, <3>2, <3>4, <3>5, OneMoreRow
      <4> QED
        BY <4>1 DEF OneRowFurther
    <3> HIDE DEF what
    <3>9. /\ BilledRows(s.bills, known)
          /\ \A n \in Inserted(s) : s.file[n].program = None
                \/ Owes(plan, s.file[n].student, s.year, s.file[n].program) \subseteq s.bills
      BY <1>1, <2>1 DEF PlanCarries
    <3> HIDE DEF row, s
    <3>10. BilledRows(what.bills, known)
      BY <3>7, <3>8, <3>9 DEF BilledRows
    <3>11. \A n \in Inserted(what) : what.file[n].program = None
             \/ Owes(plan, what.file[n].student, what.year, what.file[n].program) \subseteq what.bills
      BY <3>6, <3>8, <3>9
    <3>12. PlanCarries("import", what, plan, known, charges')
      BY <3>10, <3>11 DEF PlanCarries
    <3> USE DEF s
    <3> QED
      BY <1>1, <1>2, <1>3, <2>1, <3>1, <3>12, BillerKeepsPlans DEF BillSteps
  <2> QED
    BY <2>2, <2>3
<1>6. ASSUME ImportCommit(p) PROVE PlanInv'
  <2> DEFINE all == ToSet(Saved(s))
             new == {row.student : row \in all}
             due == UNION {IF row.program = None THEN {}
                           ELSE Bills(row.student, RowsOf(PlansFor(s.year, row.program))) : row \in all}
  <2>1. /\ OnlyMoves(p, "idle", None) /\ pc[p] = "import" /\ s.todo = <<>>
        /\ charges' = charges \cup {c \in s.bills : c[1] \in new} /\ owed' = owed \cup due
    BY <1>1, <1>6, GoesOn DEF ImportCommit, Done, Continue
  <2>2. s.file \in Files
    BY <2>1 DEF AdmissionInv, AdmissionCarries, ImportSeen
  <2>3. Len(s.file) \in Nat /\ DOMAIN s.file = 1..Len(s.file)
    BY <2>2, FilesAreSequences
  <2>4. Inserted(s) = DOMAIN s.file
    BY <2>1, <2>3 DEF Inserted
  <2>5. /\ BilledRows(s.bills, known)
        /\ \A n \in DOMAIN s.file : s.file[n].program = None
              \/ Owes(plan, s.file[n].student, s.year, s.file[n].program) \subseteq s.bills
    BY <1>1, <2>1, <2>4 DEF PlanCarries
  <2>6. all = {s.file[n] : n \in DOMAIN s.file}
    BY DEF Saved, ToSet
  <2>7. BilledRows(charges', known)
    BY <1>1, <2>1, <2>5 DEF BilledRows
  <2>8. ASSUME NEW b \in due PROVE b \in charges'
    <3>1. PICK row \in all : row.program # None /\ b \in Bills(row.student, RowsOf(PlansFor(s.year, row.program)))
      OBVIOUS
    <3>2. PICK n \in DOMAIN s.file : row = s.file[n]
      BY <2>6, <3>1
    <3>3. b \in Owes(plan, row.student, s.year, row.program)
      BY <3>1, OwesIsBills
    <3>4. b \in s.bills
      BY <2>5, <3>1, <3>2, <3>3
    <3>5. b[1] = row.student
      BY <3>1 DEF Bills
    <3> QED
      BY <2>1, <3>4, <3>5
  <2>9. PlanCarries("idle", None, plan, known, charges')
    BY DEF PlanCarries
  <2>10. \A b \in owed' : b \in owed \/ b \in charges' \/ b \in StillToPost("idle", None, plan)
    BY <2>1, <2>8
  <2>11. charges \subseteq charges'
    BY <2>1
  <2> QED
    BY <1>2, <1>3, <2>1, <2>7, <2>9, <2>10, <2>11, BillerKeepsPlans
<1> QED
  BY <1>4, <1>5, <1>6

-----------------------------------------------------------------------------
(***************************************************************************)
(* Who is enrolled is billed, and what is billed is in a plan.             *)
(***************************************************************************)
\* The steps of OrderlySpec are steps of Spec.
LEMMA OrderlyStepsAreSteps ==
  ASSUME [OrderlyNext]_vars
  PROVE  [Next]_vars
BY DEF OrderlyNext, Next

\* Every step in order keeps PlanInv.
LEMMA NextPlans ==
  ASSUME PlanInv, AdmissionInv, [OrderlyNext]_vars
  PROVE  PlanInv'
<1>0. DeskShape
  BY DEF PlanInv
<1>1. CASE NobodyBills /\ Admission(PlanStep)
  BY <1>1, PlanningKeepsPlans DEF Admission
<1>2. CASE \E p \in Requests : PlansAtRest /\ Admission(BillingStep(p))
  <2>1. PICK p \in Requests : PlansAtRest /\ BillingStep(p)
    BY <1>2 DEF Admission
  <2> QED
    BY <2>1, ApplyKeepsPlans, EnrolKeepsPlans, ImportKeepsPlans DEF BillingStep
<1>3. CASE \E p \in Requests : Admission(RegistryStep(p))
  <2>1. Moves({"idle"} \cup RegistrySteps, {"idle"} \cup RegistrySteps) /\ UNCHANGED fees
    BY <1>0, <1>3, RegistryMoves DEF Admission
  <2>2. /\ ({"idle"} \cup RegistrySteps) \cap (PlanSteps \cup BillSteps) = {}
        /\ ({"idle"} \cup RegistrySteps) \cap {"signal", "bill"} = {}
    BY DEF RegistrySteps, PlanSteps, BillSteps
  <2> QED
    BY <2>1, <2>2, PlansLeftAlone DEF fees
<1>4. CASE \E p \in Requests : p \notin Billing /\ Admission(Crash(p))
  <2>1. PICK p \in Requests : p \notin Billing /\ OnlyMoves(p, "idle", None) /\ UNCHANGED fees
    BY <1>0, <1>4, CrashMoves DEF Admission
  <2>2. Moves({pc[p]}, {"idle"})
    BY <2>1, OneMoves
  <2>3. {"idle"} \cap (PlanSteps \cup BillSteps) = {} /\ {pc[p]} \cap {"signal", "bill"} = {}
    BY <2>1 DEF PlanSteps, BillSteps, Billing, At
  <2> QED
    BY <2>1, <2>2, <2>3, PlansLeftAlone DEF fees
<1>5. CASE Admission(Entry)
  <2>1. Moves({}, {}) /\ UNCHANGED fees
    BY <1>0, <1>5, EntryMoves DEF Admission
  <2> QED
    BY <2>1, PlansLeftAlone DEF fees
<1>6. CASE FineStep /\ UNCHANGED registerVars
  <2>1. Moves({"idle", "fine"}, {"idle", "fine"}) /\ UNCHANGED admissionVars
    BY <1>0, <1>6, FineMoves
  <2>2. {"idle", "fine"} \cap (PlanSteps \cup BillSteps) = {} /\ {"idle", "fine"} \cap {"signal", "bill"} = {}
    BY DEF PlanSteps, BillSteps
  <2> QED
    BY <2>1, <2>2, PlansLeftAlone DEF admissionVars, fees
<1>7. CASE RegisterStep /\ UNCHANGED <<admissionVars, fineVars>>
  <2>1. Moves({"idle"} \cup RegisterSteps, {"idle"} \cup RegisterSteps)
    BY <1>0, <1>7, RegisterMoves
  <2>2. /\ ({"idle"} \cup RegisterSteps) \cap (PlanSteps \cup BillSteps) = {}
        /\ ({"idle"} \cup RegisterSteps) \cap {"signal", "bill"} = {}
    BY DEF RegisterSteps, PlanSteps, BillSteps
  <2> QED
    BY <1>7, <2>1, <2>2, PlansLeftAlone DEF admissionVars, fees
<1>8. CASE UNCHANGED vars
  <2>1. UNCHANGED admissionVars /\ Moves({}, {})
    BY <1>0, <1>8, NobodyMoves DEF vars, requestVars
  <2> QED
    BY <2>1, PlansLeftAlone DEF admissionVars, fees
<1> QED
  BY <1>1, <1>2, <1>3, <1>4, <1>5, <1>6, <1>7, <1>8 DEF OrderlyNext

\* Nobody is billed and nobody owes to begin with.
LEMMA InitPlans ==
  ASSUME Init
  PROVE  PlanInv
BY DEF Init, AdmissionInit, NobodyYet, PlanInv, DeskShape, Apart, BillSteps, OwedInv, BilledRows, PlanCarries

\* With no enrolment on its way to be billed, nothing is still to post.
LEMMA NothingStillToPost ==
  ASSUME PlanInv
  PROVE  EnrolledIsBilled
<1> SUFFICES ASSUME Billing = {} PROVE owed \subseteq charges
  BY DEF EnrolledIsBilled
<1>1. \A p \in Requests : StillToPost(pc[p], seen[p], plan) = {}
  BY DEF StillToPost, Billing, At
<1> QED
  BY <1>1 DEF PlanInv, OwedInv

\* What is billed is a row of a plan there is, or was.
LEMMA BilledFromPlans ==
  ASSUME PlanInv
  PROVE  BilledFromLivePlan
BY DEF PlanInv, BilledRows, KnownRows, RowsIn, BilledFromLivePlan, RowsOf, Existing

(***************************************************************************)
(* THEOREM: where no edit of a plan overlaps a request that bills and no   *)
(* request dies between an enrolment and its bills, whoever is enrolled is *)
(* billed by every plan of the class (bill_new_enrolment, apply_plan), and *)
(* an import is saved and billed as a whole.                               *)
(***************************************************************************)
THEOREM EnrolledAreBilled == OrderlySpec => []AdmittedWhole
<1>1. Init => AdmissionInv /\ PlanInv
  BY InitAdmissions, InitPlans
<1>2. AdmissionInv /\ PlanInv /\ [OrderlyNext]_vars => AdmissionInv' /\ PlanInv'
  BY NextAdmissions, NextPlans, OrderlyStepsAreSteps
<1>3. AdmissionInv /\ PlanInv => AdmittedWhole
  BY NothingStillToPost DEF AdmittedWhole, AdmissionInv, FilesWhole, ImportedWhole
<1> QED
  BY <1>1, <1>2, <1>3, PTL DEF OrderlySpec

(***************************************************************************)
(* THEOREM: under the same order of work, an instalment somebody was       *)
(* billed for is never edited away (FeePlanSerializer.update), and no late *)
(* fine is above the head's rule.                                          *)
(***************************************************************************)
THEOREM ChargesFollowTheRules == OrderlySpec => []ChargedByTheRules
<1>1. Init => AdmissionInv /\ PlanInv /\ FineInv
  BY InitAdmissions, InitPlans, InitFines
<1>2. AdmissionInv /\ PlanInv /\ FineInv /\ [OrderlyNext]_vars => AdmissionInv' /\ PlanInv' /\ FineInv'
  BY NextAdmissions, NextPlans, NextFines, OrderlyStepsAreSteps
<1>3. PlanInv /\ FineInv => ChargedByTheRules
  BY BilledFromPlans, FinesAreWithinRule DEF ChargedByTheRules
<1> QED
  BY <1>1, <1>2, <1>3, PTL DEF OrderlySpec
=============================================================================
