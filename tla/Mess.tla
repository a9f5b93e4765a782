-------------------------------- MODULE Mess --------------------------------
(***************************************************************************)
(* The mess of one hostel (apps/hostel/mess.py): memberships of a student, *)
(* leave, and the monthly bill with its rebates.  Staff members are never  *)
(* billed and are left out.                                                *)
(*                                                                         *)
(* Each request is split where it reads rows without a lock and writes     *)
(* after another request may have: enrolling, ending a membership, taking  *)
(* and deleting leave, and billing.  Months have MonthLength days.  Which  *)
(* charge a rebate is noted on is left out.                                *)
(***************************************************************************)
EXTENDS Desk, Integers, Sequences, FiniteSets, FiniteSetsExt, Functions

CONSTANTS
  Members,       \* rows MessMember may get, all of one student
  Leaves,        \* rows MessLeave may get
  Outpasses,     \* rows of Outpass that leave may come from, all of the student
  MonthLength, DUE_DAY,
  monthly_charge, per_day_rate, rebate_min_days, rebate_per_day,
  Dates,         \* days a request may name
  Trips,         \* from and to of a leave or an outpass, as pairs
  LastDay        \* bound: last day told apart

ASSUME RowsAssumption == IsFiniteSet(Members) /\ IsFiniteSet(Leaves)
ASSUME CalendarAssumption == {MonthLength, DUE_DAY, LastDay} \subseteq Nat \ {0} /\ DUE_DAY <= MonthLength
ASSUME RatesAssumption == {monthly_charge, per_day_rate, rebate_min_days, rebate_per_day} \subseteq Nat

Days == 1..LastDay
Month(d) == (d - 1) \div MonthLength
DaysOfMonth(m) == (m * MonthLength + 1)..((m + 1) * MonthLength)
Months == Month(1)..Month(LastDay)

VARIABLES
  today,
  member,        \* member[m]: None or [plan, start, end]
  leave,         \* leave[l]: None or [member, from, to, outpass]
  rebates,       \* the rebate register, as [member, leave, month, days, amount]
  lost,          \* history: rebates that went when their leave was deleted
  charges,       \* the student's mess charges, in the order they were posted
  guests         \* guest meals, as [member, day]

\* Rows of MessMember and MessLeave.
MemberRow == [plan : {"monthly", "per_day"}, start : Days, end : Days \cup {None}]
LeaveRow == [member : Members, from : Days, to : Days, outpass : Outpasses \cup {None}]

ASSUME DatesAssumption == Dates \subseteq Days /\ Trips \subseteq Days \X Days
ASSUME NoneAssumption ==
  /\ None \notin Days /\ None \notin Outpasses /\ None \notin MemberRow /\ None \notin LeaveRow

messVars == <<today, member, leave, rebates, lost, charges, guests>>

Enrolments == {m \in Members : member[m] # None}
Open == {m \in Enrolments : member[m].end = None}
LeavesOf(m) == {l \in Leaves : leave[l] # None /\ leave[l].member = m}
\* overlap: what two periods have in common, here as the days themselves.
EndOf(row) == IF row.end = None THEN LastDay + MonthLength ELSE row.end
DaysOn(row) == row.start..EndOf(row)
DaysAway(l) == leave[l].from..leave[l].to

-----------------------------------------------------------------------------
(***************************************************************************)
(* Billing                                                                 *)
(***************************************************************************)
RoundHalfUp(n, d) == (2 * n + d) \div (2 * d)

MessCharge(m, month) == {c \in DOMAIN charges : /\ charges[c].live
                                                /\ charges[c].member = m /\ charges[c].month = month}
Due(row, month) ==
  IF row.plan = "monthly" THEN Max({month * MonthLength + DUE_DAY, row.start})
  ELSE (month + 1) * MonthLength + DUE_DAY

\* A monthly bill gives the rebate for leave of the month before.
RebateMonth(month) == month - 1

Qualifies(l) == rebate_min_days > 0 /\ leave[l].to - leave[l].from + 1 >= rebate_min_days
NewRebates(m, row, month) ==
  LET done == {r.leave : r \in {r \in rebates : r.month = month}}
      Within(l) == DaysAway(l) \cap DaysOn(row) \cap DaysOfMonth(month)
  IN  {[member |-> m, leave |-> l, month |-> month, days |-> Cardinality(Within(l)),
        amount |-> rebate_per_day * Cardinality(Within(l))] :
          l \in {l \in LeavesOf(m) \ done : Qualifies(l) /\ Within(l) # {}}}
OldRebates(m, month) == {r \in rebates : r.member = m /\ r.month = month}

Total(given) == SumFunctionOnSet([r \in given |-> r.amount], given)
\* What bill_member_month works out from the member as it was read.
Worked(m, row, month) ==
  LET enrolled == DaysOn(row) \cap DaysOfMonth(month)
      old      == OldRebates(m, RebateMonth(month))
      new      == NewRebates(m, row, RebateMonth(month))
      base     == RoundHalfUp(monthly_charge * Cardinality(enrolled), MonthLength)
      given    == Total(old \cup new)
      eaten    == enrolled \ UNION {DaysAway(l) : l \in LeavesOf(m)}
  IN  IF row.plan = "monthly"
        THEN [base |-> base, amount |-> Max({base - given, 0}), old |-> old, new |-> new]
        ELSE [base |-> per_day_rate * Cardinality(eaten),
              amount |-> per_day_rate * Cardinality(eaten), old |-> {}, new |-> {}]

\* Fault: the charge is posted whatever has been posted before.
AlwaysPosted(m, month) == {}
\* post_charge returns the live charge of the member-month when there is one.
Posted(m, month) == MessCharge(m, month)

\* Fault: the rebates are taken off the bill and not saved.
BillOnly(work) == rebates
Registered(work) == rebates \cup work.old \cup work.new

PostBill(m, row, month, work) ==
  LET new == [member |-> m, month |-> month, base |-> work.base, amount |-> work.amount,
              due |-> Due(row, month), paid |-> FALSE, live |-> TRUE]
  IN  /\ charges' = IF work.amount # 0 /\ Posted(m, month) = {} THEN Append(charges, new) ELSE charges
      /\ rebates' = Registered(work)

\* The job read all members first; then each is billed in a transaction.
BillStart(p, m) ==
  /\ m \in Enrolments
  /\ LET row   == member[m]
         month == IF row.plan = "monthly" THEN Month(today) ELSE Month(today) - 1
     IN  /\ month \in Months
         /\ Month(EndOf(row)) >= month
         /\ Begin(p, "bill", [member |-> m, row |-> row, month |-> month])
  /\ UNCHANGED messVars

BillRead(p) ==
  LET s == seen[p]
  IN  /\ pc[p] = "bill"
      /\ IF DaysOn(s.row) \cap DaysOfMonth(s.month) = {} \/ MessCharge(s.member, s.month) # {} THEN Done(p)
         ELSE Goes(p, "post", [member |-> s.member, row |-> s.row, month |-> s.month,
                               work |-> Worked(s.member, s.row, s.month)]) /\ UNCHANGED served
      /\ UNCHANGED messVars

\* A rebate that another run has saved meanwhile, or whose leave is gone,
\* breaks a constraint and undoes the bill.
StillValid(work) ==
  /\ \A r \in work.old \cup work.new : leave[r.leave] # None
  /\ \A r \in work.new, q \in rebates : q.leave # r.leave \/ q.month # r.month
BillPost(p) ==
  LET s == seen[p]
  IN  /\ pc[p] = "post"
      /\ IF StillValid(s.work) THEN PostBill(s.member, s.row, s.month, s.work)
         ELSE UNCHANGED <<charges, rebates>>
      /\ Done(p)
      /\ UNCHANGED <<today, member, leave, lost, guests>>

-----------------------------------------------------------------------------
(***************************************************************************)
(* Members and leave                                                       *)
(***************************************************************************)
EnrolCheck(p, plan, start) ==
  /\ Open = {}
  /\ Begin(p, "enrol", [plan |-> plan, start |-> start, end |-> None])
  /\ UNCHANGED messVars
\* hostel_one_open_mess_membership_per_student refuses a second open one.
EnrolWrite(p) ==
  LET row == seen[p]  m == CHOOSE m \in Members : m \notin Enrolments
  IN  /\ pc[p] = "enrol" /\ Enrolments # Members
      /\ IF Open # {} THEN UNCHANGED <<member, charges, rebates>>
         ELSE /\ member' = [member EXCEPT ![m] = row]
              /\ IF row.plan = "monthly"
                   THEN PostBill(m, row, Month(row.start), Worked(m, row, Month(row.start)))
                   ELSE UNCHANGED <<charges, rebates>>
      /\ Done(p)
      /\ UNCHANGED <<today, leave, lost, guests>>

EndRead(p, m, on) ==
  /\ m \in Open /\ on >= member[m].start
  /\ Begin(p, "end", [member |-> m, on |-> on])
  /\ UNCHANGED messVars
\* cancel_future_charges: what is due after the month and not paid.
EndWrite(p) ==
  LET m == seen[p].member  on == seen[p].on
      Future(c) == c.member = m /\ ~c.paid /\ Month(c.due) > Month(on)
  IN  /\ pc[p] = "end"
      /\ member' = [member EXCEPT ![m].end = on]
      /\ charges' = [c \in DOMAIN charges |->
                       IF Future(charges[c]) THEN [charges[c] EXCEPT !.live = FALSE] ELSE charges[c]]
      /\ Done(p)
      /\ UNCHANGED <<today, leave, rebates, lost, guests>>

\* What record_leave asks before it inserts.
MayBeAway(m, from, to) ==
  /\ m \in Enrolments /\ from <= to /\ DaysOn(member[m]) \cap (from..to) # {}
  /\ \A l \in LeavesOf(m) : DaysAway(l) \cap (from..to) = {}
\* Keys are not used again: a row that is free is one nothing refers to.
Held(p) == CASE pc[p] = "drop" -> {seen[p]}
             [] pc[p] = "post" -> {r.leave : r \in seen[p].work.old \cup seen[p].work.new}
             [] OTHER -> {}
FreeLeave == {l \in Leaves : leave[l] = None} \ (UNION {Held(p) : p \in Requests} \cup {r.leave : r \in lost})
Away(m, from, to, outpass) ==
  /\ FreeLeave # {}
  /\ leave' = [leave EXCEPT ![CHOOSE l \in FreeLeave : TRUE] =
                 [member |-> m, from |-> from, to |-> to, outpass |-> outpass]]

LeaveCheck(p, m, from, to) ==
  /\ MayBeAway(m, from, to)
  /\ Begin(p, "leave", [member |-> m, from |-> from, to |-> to])
  /\ UNCHANGED messVars
LeaveWrite(p) ==
  /\ pc[p] = "leave"
  /\ Away(seen[p].member, seen[p].from, seen[p].to, None)
  /\ Done(p)
  /\ UNCHANGED <<today, member, rebates, lost, charges, guests>>

\* MessRebate.leave is on_delete=CASCADE.
Delete(gone) ==
  LET with == {r \in rebates : r.leave \in gone}
  IN  /\ leave' = [l \in Leaves |-> IF l \in gone THEN None ELSE leave[l]]
      /\ rebates' = rebates \ with
      /\ lost' = lost \cup with
\* Only a leave of its own and without a rebate can be deleted.
DropCheck(p, l) ==
  /\ leave[l] # None /\ leave[l].outpass = None /\ \A r \in rebates : r.leave # l
  /\ Begin(p, "drop", l)
  /\ UNCHANGED messVars
DropWrite(p) ==
  /\ pc[p] = "drop"
  /\ Delete({seen[p]})
  /\ Done(p)
  /\ UNCHANGED <<today, member, charges, guests>>

add_guest_meal(m) ==
  /\ m \in Enrolments /\ today \in DaysOn(member[m]) /\ Serve
  /\ guests' = guests \cup {[member |-> m, day |-> today]}
  /\ UNCHANGED <<today, member, leave, rebates, lost, charges, pc, seen>>

\* External: the counter takes money for a charge (FeeLedger).
Collect(c) ==
  /\ charges[c].live /\ ~charges[c].paid /\ Serve
  /\ charges' = [charges EXCEPT ![c].paid = TRUE]
  /\ UNCHANGED <<today, member, leave, rebates, lost, guests, pc, seen>>

NextDay ==
  /\ today < LastDay /\ today' = today + 1
  /\ UNCHANGED <<member, leave, rebates, lost, charges, guests, pc, seen, served>>

-----------------------------------------------------------------------------
(***************************************************************************)
(* Plates, counted in two ways                                             *)
(***************************************************************************)
GuestsOn(d) == Cardinality({g \in guests : g.day = d})
\* Fault: a member with two leaves on one day is taken off twice.
LeaveRows(at, d) == Cardinality({l \in Leaves : leave[l] # None /\ leave[l].member \in at /\ d \in DaysAway(l)})
OnLeave(at, d) == Cardinality({leave[l].member : l \in {l \in Leaves : leave[l] # None /\ leave[l].member \in at /\ d \in DaysAway(l)}})

headcount(d) ==
  LET at == {m \in Enrolments : d \in DaysOn(member[m])}
  IN  Cardinality(at) - OnLeave(at, d) + GuestsOn(d)

\* The plates of a month: those recorded on a day, else those expected.
contractor_plates(month, recorded) ==
  LET members == {m \in Enrolments : DaysOn(member[m]) \cap DaysOfMonth(month) # {}}
      Expected(d) == Cardinality({m \in members : d \in DaysOn(member[m])
                                    /\ \A l \in LeavesOf(m) : d \notin DaysAway(l)})
      Plates   == [d \in DaysOfMonth(month) |->
                     IF d \in DOMAIN recorded THEN recorded[d] ELSE Expected(d) + GuestsOn(d)]
  IN  SumFunctionOnSet(Plates, DaysOfMonth(month))
=============================================================================
