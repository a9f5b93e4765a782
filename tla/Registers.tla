----------------------------- MODULE Registers ------------------------------
(***************************************************************************)
(* Three small registers that count things: seats of a vehicle             *)
(* (apps/transport), units of a stock item (apps/inventory) and payslips   *)
(* (apps/payroll).  Seating and issuing hold the lock of the counted row;  *)
(* giving back works on the row the view fetched, and editing an item      *)
(* saves every column of the row it fetched.                               *)
(*                                                                         *)
(* The variable `restocked' is history: a unit has come back twice, or an  *)
(* edit has put units on the shelf or taken some off the books.            *)
(***************************************************************************)
EXTENDS Desk, FiniteSets

CONSTANTS
  Riders,        \* rows TransportAssignment may get, all for one vehicle
  Issues,        \* rows IssueRecord may get, all of one item
  Months,        \* months of one member of staff
  FirstUnits,    \* seats of the vehicle and units of the item at first
  MaxUnits       \* bound: seats and units an edit may set

ASSUME UnitsAssumption ==
  {FirstUnits, MaxUnits} \subseteq Nat \ {0} /\ IsFiniteSet(Riders) /\ IsFiniteSet(Issues)

VARIABLES
  capacity,      \* seats of the vehicle
  rider,         \* rider[r]: "none", "riding" or "removed"
  item,          \* [total, available]
  issue,         \* issue[i]: "none", "out" or "returned"
  restocked,     \* history: units counted anew
  payslips       \* months with a payslip

stockVars == <<item, issue, restocked>>
registerVars == <<capacity, rider, stockVars, payslips>>

New(row) == {r \in DOMAIN row : row[r] = "none"}
active_riders == Cardinality({r \in Riders : rider[r] = "riding"})
UnitsOut == Cardinality({i \in Issues : issue[i] = "out"})

\* Fault: nobody waits for the row.
NoLock(step) == TRUE
\* SELECT FOR UPDATE, and a save, wait for whoever holds the row.
RowFree(step) == At(step) = {}

-----------------------------------------------------------------------------
\* Fault: the last seat but one is the last.
OneMore(n) == n <= capacity
HasSeat(n) == n < capacity
AssignLock(p) ==
  /\ RowFree("seat") /\ HasSeat(active_riders)
  /\ Begin(p, "seat", None)
  /\ UNCHANGED registerVars
AssignInsert(p) ==
  /\ pc[p] = "seat"
  /\ \E r \in New(rider) : rider' = [rider EXCEPT ![r] = "riding"]
  /\ Done(p)
  /\ UNCHANGED <<capacity, stockVars, payslips>>
UnassignFetch(p, r) ==
  /\ rider[r] = "riding"
  /\ Begin(p, "unseat", r)
  /\ UNCHANGED registerVars
UnassignSave(p) ==
  /\ pc[p] = "unseat"
  /\ rider' = [rider EXCEPT ![seen[p]] = "removed"]
  /\ Done(p)
  /\ UNCHANGED <<capacity, stockVars, payslips>>
\* The capacity may be set below the riders there are.
EditVehicle(n) ==
  /\ RowFree("seat") /\ AtOnce
  /\ capacity' = n
  /\ UNCHANGED <<rider, stockVars, payslips>>

-----------------------------------------------------------------------------
\* Fault: nobody looks whether a unit is there.
AnyUnit(n) == TRUE
HasUnit(n) == n >= 1
IssueLock(p) ==
  /\ RowFree("issue") /\ RowFree("return") /\ HasUnit(item.available)
  /\ Begin(p, "issue", item.available)
  /\ UNCHANGED registerVars
IssueSave(p) ==
  /\ pc[p] = "issue"
  /\ item' = [item EXCEPT !.available = seen[p] - 1]
  /\ \E i \in New(issue) : issue' = [issue EXCEPT ![i] = "out"]
  /\ Done(p)
  /\ UNCHANGED <<capacity, rider, restocked, payslips>>
ReturnFetch(p, i) ==
  /\ issue[i] = "out"
  /\ Begin(p, "back", i)
  /\ UNCHANGED registerVars
ReturnLock(p) ==
  /\ pc[p] = "back" /\ RowFree("issue") /\ RowFree("return")
  /\ Continue(p, "return", [issue |-> seen[p], available |-> item.available])
  /\ UNCHANGED registerVars
ReturnSave(p) ==
  LET one == seen[p].available + 1
  IN  /\ pc[p] = "return"
      /\ issue' = [issue EXCEPT ![seen[p].issue] = "returned"]
      /\ item' = [item EXCEPT !.available = IF one > item.total THEN item.total ELSE one]
      /\ restocked' = (restocked \/ issue[seen[p].issue] # "out")
      /\ Done(p)
      /\ UNCHANGED <<capacity, rider, payslips>>
ItemFetch(p) ==
  /\ Begin(p, "item", item.available)
  /\ UNCHANGED registerVars
\* inventory_item_available_lte_total
ItemSave(p, total) ==
  /\ pc[p] = "item" /\ RowFree("issue") /\ RowFree("return")
  /\ item' = IF seen[p] <= total THEN [total |-> total, available |-> seen[p]] ELSE item
  /\ restocked' = (restocked \/ item'.available > item.available \/ item'.total < item.total)
  /\ Done(p)
  /\ UNCHANGED <<capacity, rider, issue, payslips>>

-----------------------------------------------------------------------------
PayCheck(p, month) ==
  /\ month \notin payslips
  /\ Begin(p, "pay", month)
  /\ UNCHANGED registerVars
\* payroll_one_payslip_per_staff_per_period refuses the second.
PayInsert(p) ==
  /\ pc[p] = "pay"
  /\ payslips' = payslips \cup {seen[p]}
  /\ Done(p)
  /\ UNCHANGED <<capacity, rider, stockVars>>

RegisterInit ==
  /\ capacity = FirstUnits /\ rider = [r \in Riders |-> "none"]
  /\ item = [total |-> FirstUnits, available |-> FirstUnits] /\ issue = [i \in Issues |-> "none"]
  /\ restocked = FALSE /\ payslips = {}
RegisterStep ==
  \/ \E p \in Requests :
       \/ AssignLock(p) \/ AssignInsert(p) \/ UnassignSave(p) \/ (\E r \in Riders : UnassignFetch(p, r))
       \/ IssueLock(p) \/ IssueSave(p) \/ ReturnLock(p) \/ ReturnSave(p) \/ (\E i \in Issues : ReturnFetch(p, i))
       \/ ItemFetch(p) \/ (\E total \in 1..MaxUnits : ItemSave(p, total))
       \/ (\E month \in Months : PayCheck(p, month)) \/ PayInsert(p)
  \/ \E n \in 0..MaxUnits : EditVehicle(n)

-----------------------------------------------------------------------------
\* "Vehicle is at capacity": a rider gets on only while the vehicle, with the
\* capacity it has at that moment, has a seat.
SeatsLast == active_riders' > active_riders => active_riders' <= capacity'
\* "No units available": the shelf never holds less than nothing nor more than
\* there is, and the units on it and the units handed out are never more than
\* there are, unless units were counted anew: by an issue returned twice or an
\* edit of the item.
StockLasts ==
  /\ item.available \in 0..item.total
  /\ ~restocked => UnitsOut + item.available <= item.total
=============================================================================
