-------------------------------- MODULE Gate --------------------------------
(***************************************************************************)
(* The gate of the hostel (apps/hostel/gate.py) with the mess behind it:   *)
(* an outpass that is approved becomes leave from the mess, one that is    *)
(* cancelled takes the leave back, and coming in early ends it.            *)
(*                                                                         *)
(* Approving and the two passages lock the outpass; cancelling works on    *)
(* the row it fetched, and so do the decisions about visitors.             *)
(***************************************************************************)
EXTENDS Mess

CONSTANTS
  Visits,        \* rows Visit may get
  FirstRows      \* what may be in the mess and at the gate when the model starts

\* Rows of Outpass.
OutpassStatus == {"requested", "approved", "rejected", "out", "returned", "cancelled"}
OutpassRow == [from : Days, to : Days, late : BOOLEAN, status : OutpassStatus]
ASSUME NullAssumption == None \notin OutpassRow /\ None \notin OutpassStatus
\* Leave that comes from an outpass belongs to one that was approved, and lies
\* within its days.
Backed(row, passes) ==
  row.outpass # None =>
    /\ passes[row.outpass] # None /\ passes[row.outpass].status \in {"approved", "out", "returned"}
    /\ row.from..row.to \subseteq passes[row.outpass].from..passes[row.outpass].to
ASSUME FirstRowsAssumption ==
  \A first \in FirstRows :
    /\ first.today \in Days
    /\ first.member \in [Members -> MemberRow \cup {None}]
    /\ first.leave \in [Leaves -> LeaveRow \cup {None}]
    /\ first.outpass \in [Outpasses -> OutpassRow \cup {None}]
    /\ \A l \in Leaves : first.leave[l] # None =>
         /\ first.leave[l].from <= first.leave[l].to /\ first.member[first.leave[l].member] # None
         /\ Backed(first.leave[l], first.outpass)

VARIABLES
  outpass,       \* outpass[o]: None or [from, to, status, late]
  visit          \* visit[v]: None or [status, came]

gateVars == <<outpass, visit>>
vars == <<messVars, requestVars, gateVars>>

Status(o) == IF outpass[o] = None THEN None ELSE outpass[o].status
SetStatus(o, status) == outpass' = [outpass EXCEPT ![o].status = status]

-----------------------------------------------------------------------------
RequestCheck(p, from, to) ==
  /\ from <= to
  /\ \A q \in Outpasses : Status(q) \in {"requested", "approved", "out"} =>
       (outpass[q].from..outpass[q].to) \cap (from..to) = {}
  /\ Begin(p, "request", [from |-> from, to |-> to, status |-> "requested", late |-> FALSE])
  /\ UNCHANGED <<messVars, gateVars>>
RequestWrite(p) ==
  LET new == {o \in Outpasses : outpass[o] = None}
  IN  /\ pc[p] = "request" /\ new # {}
      /\ outpass' = [outpass EXCEPT ![CHOOSE o \in new : TRUE] = seen[p]]
      /\ Done(p)
      /\ UNCHANGED <<messVars, visit>>

\* The days of the outpass become leave, unless the member is away anyway.
decide_outpass(o, approve) ==
  LET op == outpass[o]
      m  == CHOOSE m \in Open : TRUE
      free == \A l \in LeavesOf(m) : DaysAway(l) \cap (op.from..op.to) = {}
      from == Max({op.from, member[m].start})
  IN  /\ Status(o) = "requested" /\ Serve
      /\ SetStatus(o, IF approve THEN "approved" ELSE "rejected")
      /\ IF approve /\ Open # {} /\ free
           THEN MayBeAway(m, from, op.to) /\ Away(m, from, op.to, o)
           ELSE UNCHANGED leave
      /\ UNCHANGED <<today, member, rebates, lost, charges, guests, pc, seen, visit>>

gate_out(o) ==
  /\ Status(o) = "approved" /\ Serve
  /\ SetStatus(o, "out")
  /\ UNCHANGED <<messVars, pc, seen, visit>>

LeaveFor(o) == {l \in Leaves : leave[l] # None /\ leave[l].outpass = o}
UntilToday(l) == [leave[l] EXCEPT !.to = Max({today, leave[l].from})]
\* An early return ends the leave on that day; the hour is not modelled, so
\* on the last day both a late and a timely return are possible.
gate_in(o, late) ==
  /\ Status(o) = "out" /\ Serve
  /\ late \in (IF today > outpass[o].to THEN {TRUE} ELSE IF today = outpass[o].to THEN BOOLEAN ELSE {FALSE})
  /\ outpass' = [outpass EXCEPT ![o].status = "returned", ![o].late = late]
  /\ leave' = [l \in Leaves |-> IF l \in LeaveFor(o) /\ today < leave[l].to THEN UntilToday(l) ELSE leave[l]]
  /\ UNCHANGED <<today, member, rebates, lost, charges, guests, pc, seen, visit>>

CancelRead(p, o) ==
  /\ Status(o) \in {"requested", "approved"}
  /\ Begin(p, "cancel", o)
  /\ UNCHANGED <<messVars, gateVars>>
\* Fault: the leave stays.
Kept(o) == {}
Recalled(o) == LeaveFor(o)
CancelWrite(p) ==
  /\ pc[p] = "cancel"
  /\ SetStatus(seen[p], "cancelled")
  /\ Delete(Recalled(seen[p]))
  /\ Done(p)
  /\ UNCHANGED <<today, member, charges, guests, visit>>

-----------------------------------------------------------------------------
\* A visitor on the student's list goes in, anyone else waits for the warden.
visitor_arrives(v, listed) ==
  /\ visit[v] = None /\ Serve
  /\ visit' = [visit EXCEPT ![v] = IF listed THEN [status |-> "in", came |-> TRUE]
                                   ELSE [status |-> "held", came |-> FALSE]]
  /\ UNCHANGED <<messVars, pc, seen, outpass>>

VisitStatus(v) == IF visit[v] = None THEN None ELSE visit[v].status
VisitRead(p, v, what) ==
  /\ VisitStatus(v) = (IF what = "leave" THEN "in" ELSE "held")
  /\ Begin(p, "visit", [visit |-> v, what |-> what])
  /\ UNCHANGED <<messVars, gateVars>>
VisitWrite(p) ==
  LET v == seen[p].visit
  IN  /\ pc[p] = "visit"
      /\ visit' = [visit EXCEPT ![v] = CASE seen[p].what = "approve" -> [status |-> "in", came |-> TRUE]
                                         [] seen[p].what = "refuse"  -> [status |-> "refused", came |-> FALSE]
                                         [] seen[p].what = "leave"   -> [@ EXCEPT !.status = "out"]]
      /\ Done(p)
      /\ UNCHANGED <<messVars, outpass>>

-----------------------------------------------------------------------------
Init ==
  /\ \E first \in FirstRows : today = first.today /\ member = first.member /\ leave = first.leave
                              /\ outpass = first.outpass
  /\ rebates = {} /\ lost = {} /\ charges = <<>> /\ guests = {}
  /\ visit = [v \in Visits |-> None]
  /\ NobodyYet

MessStep(p) ==
  \/ \E plan \in {"monthly", "per_day"}, start \in Dates : EnrolCheck(p, plan, start)
  \/ \E m \in Members, on \in Dates : EndRead(p, m, on)
  \/ \E m \in Members, t \in Trips : LeaveCheck(p, m, t[1], t[2])
  \/ \E l \in Leaves : DropCheck(p, l)
  \/ \E m \in Members : BillStart(p, m)
  \/ BillRead(p) \/ BillPost(p) \/ EnrolWrite(p) \/ EndWrite(p) \/ LeaveWrite(p) \/ DropWrite(p)
GateStep(p) ==
  \/ \E t \in Trips : RequestCheck(p, t[1], t[2])
  \/ \E o \in Outpasses : CancelRead(p, o)
  \/ \E v \in Visits, what \in {"approve", "refuse", "leave"} : VisitRead(p, v, what)
  \/ RequestWrite(p) \/ CancelWrite(p) \/ VisitWrite(p)
Passage ==
  \E o \in Outpasses :
    \/ \E approve \in BOOLEAN : decide_outpass(o, approve)
    \/ gate_out(o)
    \/ \E late \in BOOLEAN : gate_in(o, late)
Office ==
  \/ \E m \in Members : add_guest_meal(m)
  \/ \E c \in DOMAIN charges : Collect(c)
  \/ NextDay

Next ==
  \/ \E p \in Requests : (MessStep(p) /\ UNCHANGED gateVars) \/ GateStep(p)
  \/ Passage
  \/ \E v \in Visits, listed \in BOOLEAN : visitor_arrives(v, listed)
  \/ Office /\ UNCHANGED gateVars
Spec == Init /\ [][Next]_vars

-----------------------------------------------------------------------------
\* "Every charge is idempotent per member-month" and a rebate is given once
\* per leave and month, whatever runs of the monthly job overlap.
BilledOnce ==
  /\ \A c, d \in DOMAIN charges :
       charges[c].live /\ charges[d].live /\ charges[c].member = charges[d].member
         /\ charges[c].month = charges[d].month => c = d
  /\ \A q, r \in rebates : q.leave = r.leave /\ q.month = r.month => q = r
\* A live bill is never reduced by more than the rebates that were registered
\* for the member and the month before.
ReducedByRebates ==
  \A c \in {c \in DOMAIN charges : charges[c].live} :
    charges[c].amount >= charges[c].base -
      Total({r \in rebates \cup lost : /\ r.member = charges[c].member
                                       /\ r.month = RebateMonth(charges[c].month)})
\* A rebate is for days the member is on leave in that month, although an
\* early return shortens the leave after it was billed.
RebateWithinLeave ==
  \A r \in rebates : r.days <= Cardinality(DaysAway(r.leave) \cap DaysOfMonth(r.month))
MessBillsAddUp == BilledOnce /\ ReducedByRebates /\ RebateWithinLeave

\* Leave that comes from an outpass follows it: rejecting, cancelling and
\* coming back leave no row behind whose outpass does not stand, none outside
\* its days and none that ends before it starts.
LeaveFollowsOutpass ==
  \A l \in Leaves : leave[l] # None => Backed(leave[l], outpass) /\ leave[l].from <= leave[l].to

\* The kitchen's headcount and the contractor's bill count the same plates,
\* although the rows of leave may overlap.
PlatesAgree ==
  \A month \in Months :
    contractor_plates(month, <<>>) =
      SumFunctionOnSet([d \in DaysOfMonth(month) |-> headcount(d)], DaysOfMonth(month))
=============================================================================
