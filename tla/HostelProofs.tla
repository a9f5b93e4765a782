---------------------------- MODULE HostelProofs ----------------------------
(***************************************************************************)
(* Proofs about the hostel.  Of Gate and the Mess behind it: leave follows *)
(* its outpass (LeaveHasItsOutpass), the kitchen and the contractor count  *)
(* the same plates (KitchenAndContractorAgree), and the bills of the mess  *)
(* add up (MessBillsAreSound), for any numbers of members, rows of leave,  *)
(* outpasses and overlapping requests, and any rates.  Of HostelRooms: no  *)
(* allocation puts more students into a room than it has beds for          *)
(* (AllocatedWithinCapacity), which the room lock of allocate gives, and a *)
(* bed that becomes free is offered to the first student who waits for it  *)
(* (OldestWaiterFirst), which vacate keeps without locking the room.       *)
(***************************************************************************)
EXTENDS Gate, HostelRooms, Sums, FiniteSetTheorems, SequenceTheorems, TLAPS

(***************************************************************************)
(* Types.  What a request carries from one step to the next fits the rows  *)
(* it was read from; members and outpasses are never deleted.              *)
(***************************************************************************)
NewRow == [plan : {"monthly", "per_day"}, start : Days, end : {None}]
EndSeen == [member : Members, on : Days]
LeaveSeen == [member : Members, from : Days, to : Days]
Made == {o \in Outpasses : outpass[o] # None}

Carries(step, what) ==
  /\ step = "enrol" => what \in NewRow
  /\ step = "end" => what \in EndSeen /\ what.member \in Enrolments
  /\ step = "leave" => what \in LeaveSeen /\ what.from <= what.to /\ what.member \in Enrolments
  /\ step = "drop" => what \in Leaves
  /\ step = "request" => what \in OutpassRow
  /\ step = "cancel" => what \in Made

Tables ==
  /\ today \in Days
  /\ member \in [Members -> MemberRow \cup {None}]
  /\ leave \in [Leaves -> LeaveRow \cup {None}]
  /\ outpass \in [Outpasses -> OutpassRow \cup {None}]
Carried ==
  /\ DOMAIN pc = Requests /\ DOMAIN seen = Requests
  /\ \A p \in Requests : Carries(pc[p], seen[p])

\* A row of leave is of a member, ends after it starts and follows the outpass
\* it came from.
Leads(row) == row.from <= row.to /\ row.member \in Enrolments /\ Backed(row, outpass)
LeaveInv == \A l \in Leaves : leave[l] # None => Leads(leave[l])
Shape == Tables /\ Carried /\ LeaveInv

RowsStay == Enrolments \subseteq Enrolments' /\ Made \subseteq Made'

\* The larger of two days.
LEMMA MaxOfTwo ==
  ASSUME NEW a \in Int, NEW b \in Int
  PROVE  Max({a, b}) = IF a >= b THEN a ELSE b
<1> DEFINE m == IF a >= b THEN a ELSE b
<1>1. m \in {a, b} /\ \A y \in {a, b} : m >= y
  OBVIOUS
<1>2. \A x \in {a, b} : (\A y \in {a, b} : x >= y) => x = m
  OBVIOUS
<1>3. QED
  BY <1>1, <1>2 DEF Max

\* The days a row may name are numbers.
LEMMA DaysAreInt == Days \subseteq Int /\ LastDay \in Nat
  BY CalendarAssumption DEF Days

\* A request that goes on carries what its next step needs; what the others
\* carry stays good.
LEMMA GoesCarried ==
  ASSUME Carried, RowsStay, NEW p \in Requests, NEW step, NEW what, Goes(p, step, what), Carries(step, what)
  PROVE  Carried'
<1>1. pc' = [pc EXCEPT ![p] = step] /\ seen' = [seen EXCEPT ![p] = what]
  BY DEF Goes
<1>2. \A q \in Requests : Carries(pc'[q], seen'[q])
  BY <1>1 DEF Carried
<1>3. ASSUME NEW q \in Requests PROVE Carries(pc[q], seen[q])'
  BY <1>2, <1>3 DEF Carries, RowsStay, Enrolments, Made
<1>4. QED
  BY <1>1, <1>3 DEF Carried

\* A request that is answered carries nothing more.
LEMMA IdleCarried ==
  ASSUME Carried, RowsStay, NEW p \in Requests, Done(p)
  PROVE  Carried'
<1>1. Goes(p, "idle", None) /\ Carries("idle", None)
  BY DEF Done, Continue, Carries
<1>2. QED
  BY <1>1, GoesCarried

\* What requests carry stays good while they wait.
LEMMA OthersCarried ==
  ASSUME Carried, RowsStay, UNCHANGED <<pc, seen>>
  PROVE  Carried'
<1>1. ASSUME NEW q \in Requests PROVE Carries(pc[q], seen[q])'
  BY <1>1 DEF Carried, Carries, RowsStay, Enrolments, Made
<1>2. QED
  BY <1>1 DEF Carried

\* Leave that stays what it was stays with its member and its outpass.
LEMMA SameBacked ==
  ASSUME LeaveInv, Enrolments \subseteq Enrolments', UNCHANGED outpass,
         \A l \in Leaves : leave'[l] # None => leave'[l] = leave[l]
  PROVE  LeaveInv'
  BY DEF LeaveInv, Leads

\* A new row of leave goes where none was.
LEMMA AwayShape ==
  ASSUME Tables, NEW m \in Members, NEW from \in Days, NEW to \in Days, NEW o \in Outpasses \cup {None},
         Away(m, from, to, o)
  PROVE  /\ leave' \in [Leaves -> LeaveRow \cup {None}]
         /\ \A l \in Leaves : leave'[l] = leave[l] \/
              (leave[l] = None /\ l \in FreeLeave /\ leave'[l] = [member |-> m, from |-> from, to |-> to, outpass |-> o])
<1> DEFINE l == CHOOSE l \in FreeLeave : TRUE
           row == [member |-> m, from |-> from, to |-> to, outpass |-> o]
<1>1. l \in FreeLeave /\ leave' = [leave EXCEPT ![l] = row]
  BY DEF Away
<1> HIDE DEF l
<1>2. l \in Leaves /\ leave[l] = None
  BY <1>1 DEF FreeLeave
<1>3. row \in LeaveRow
  BY DEF LeaveRow
<1>4. QED
  BY <1>1, <1>2, <1>3 DEF Tables

\* A step that touches neither members nor leave nor outpasses.
LEMMA SameTables ==
  ASSUME Shape, UNCHANGED <<member, leave, outpass>>, today' \in Days, RowsStay => Carried'
  PROVE  Shape'
<1>1. RowsStay
  BY DEF RowsStay, Enrolments, Made
<1>2. Tables'
  BY DEF Shape, Tables
<1>3. LeaveInv'
  BY DEF Shape, LeaveInv, Leads, Enrolments
<1>4. QED
  BY <1>1, <1>2, <1>3 DEF Shape

\* A request begins with what it has read.
LEMMA ChecksShape ==
  ASSUME Shape, NEW p \in Requests,
         \/ \E plan \in {"monthly", "per_day"}, start \in Dates : EnrolCheck(p, plan, start)
         \/ \E m \in Members, on \in Dates : EndRead(p, m, on)
         \/ \E m \in Members, t \in Trips : LeaveCheck(p, m, t[1], t[2])
         \/ \E l \in Leaves : DropCheck(p, l)
         \/ \E m \in Members : BillStart(p, m)
         \/ \E t \in Trips : RequestCheck(p, t[1], t[2])
         \/ \E o \in Outpasses : CancelRead(p, o)
         \/ \E v \in Visits, what \in {"approve", "refuse", "leave"} : VisitRead(p, v, what),
         UNCHANGED outpass
  PROVE  Shape'
<1>1. ASSUME NEW step, NEW what, Goes(p, step, what), Carries(step, what), UNCHANGED <<today, member, leave>>
      PROVE  Shape'
  <2>1. RowsStay => Carried'
    BY <1>1, GoesCarried DEF Shape
  <2>2. QED
    BY <1>1, <2>1, SameTables DEF Shape, Tables
<1>2. ASSUME NEW plan \in {"monthly", "per_day"}, NEW start \in Dates, EnrolCheck(p, plan, start) PROVE Shape'
  <2> DEFINE what == [plan |-> plan, start |-> start, end |-> None]
  <2>1. what \in NewRow
    BY DatesAssumption DEF NewRow
  <2>2. Carries("enrol", what)
    BY <2>1 DEF Carries
  <2>3. Goes(p, "enrol", what) /\ UNCHANGED <<today, member, leave>>
    BY <1>2 DEF EnrolCheck, Begin, messVars
  <2>4. QED
    BY <1>1, <2>2, <2>3
<1>3. ASSUME NEW m \in Members, NEW on \in Dates, EndRead(p, m, on) PROVE Shape'
  <2> DEFINE what == [member |-> m, on |-> on]
  <2>1. what \in EndSeen /\ what.member \in Enrolments
    BY <1>3, DatesAssumption DEF EndSeen, EndRead, Open
  <2>2. Carries("end", what)
    BY <2>1 DEF Carries
  <2>3. Goes(p, "end", what) /\ UNCHANGED <<today, member, leave>>
    BY <1>3 DEF EndRead, Begin, messVars
  <2>4. QED
    BY <1>1, <2>2, <2>3
<1>4. ASSUME NEW m \in Members, NEW t \in Trips, LeaveCheck(p, m, t[1], t[2]) PROVE Shape'
  <2> DEFINE what == [member |-> m, from |-> t[1], to |-> t[2]]
  <2>1. t[1] \in Days /\ t[2] \in Days
    BY DatesAssumption
  <2>2. what \in LeaveSeen /\ what.member \in Enrolments /\ what.from <= what.to
    BY <1>4, <2>1 DEF LeaveSeen, LeaveCheck, MayBeAway
  <2>3. Carries("leave", what)
    BY <2>2 DEF Carries
  <2>4. Goes(p, "leave", what) /\ UNCHANGED <<today, member, leave>>
    BY <1>4 DEF LeaveCheck, Begin, messVars
  <2>5. QED
    BY <1>1, <2>3, <2>4
<1>5. ASSUME NEW l \in Leaves, DropCheck(p, l) PROVE Shape'
  <2>1. Carries("drop", l) /\ Goes(p, "drop", l) /\ UNCHANGED <<today, member, leave>>
    BY <1>5 DEF DropCheck, Begin, messVars, Carries
  <2>2. QED
    BY <1>1, <2>1
<1>6. ASSUME NEW m \in Members, BillStart(p, m) PROVE Shape'
  <2>1. PICK what : Goes(p, "bill", what) /\ UNCHANGED <<today, member, leave>>
    BY <1>6 DEF BillStart, Begin, messVars
  <2>2. Carries("bill", what)
    BY DEF Carries
  <2>3. QED
    BY <1>1, <2>1, <2>2
<1>7. ASSUME NEW t \in Trips, RequestCheck(p, t[1], t[2]) PROVE Shape'
  <2> DEFINE what == [from |-> t[1], to |-> t[2], status |-> "requested", late |-> FALSE]
  <2>1. t[1] \in Days /\ t[2] \in Days
    BY DatesAssumption
  <2>2. what \in OutpassRow
    BY <2>1 DEF OutpassRow, OutpassStatus
  <2>3. Carries("request", what)
    BY <2>2 DEF Carries
  <2>4. Goes(p, "request", what) /\ UNCHANGED <<today, member, leave>>
    BY <1>7 DEF RequestCheck, Begin, messVars
  <2>5. QED
    BY <1>1, <2>3, <2>4
<1>8. ASSUME NEW o \in Outpasses, CancelRead(p, o) PROVE Shape'
  <2>1. Carries("cancel", o)
    BY <1>8, NullAssumption DEF CancelRead, Status, Carries, Made, OutpassStatus
  <2>2. Goes(p, "cancel", o) /\ UNCHANGED <<today, member, leave>>
    BY <1>8 DEF CancelRead, Begin, messVars
  <2>3. QED
    BY <1>1, <2>1, <2>2
<1>9. ASSUME NEW v \in Visits, NEW what \in {"approve", "refuse", "leave"}, VisitRead(p, v, what) PROVE Shape'
  <2>1. Carries("visit", [visit |-> v, what |-> what])
    BY DEF Carries
  <2>2. Goes(p, "visit", [visit |-> v, what |-> what]) /\ UNCHANGED <<today, member, leave>>
    BY <1>9 DEF VisitRead, Begin, messVars
  <2>3. QED
    BY <1>1, <2>1, <2>2
<1>10. QED
  BY <1>2, <1>3, <1>4, <1>5, <1>6, <1>7, <1>8, <1>9

\* A bill touches charges and rebates only.
LEMMA BillsShape ==
  ASSUME Shape, NEW p \in Requests, BillRead(p) \/ BillPost(p), UNCHANGED outpass
  PROVE  Shape'
<1>1. UNCHANGED <<today, member, leave>>
  BY DEF BillRead, BillPost, messVars
<1>2. Done(p) \/ \E what : Goes(p, "post", what)
  BY DEF BillRead, BillPost
<1>3. ASSUME RowsStay PROVE Carried'
  <2>1. \A what : Carries("post", what)
    BY DEF Carries
  <2>2. QED
    BY <1>2, <1>3, <2>1, GoesCarried, IdleCarried DEF Shape
<1>4. QED
  BY <1>1, <1>3, SameTables DEF Shape, Tables

\* Enrolling adds a row, or finds another open one and adds none.
LEMMA EnrolWriteShape ==
  ASSUME Shape, NEW p \in Requests, EnrolWrite(p), UNCHANGED outpass
  PROVE  Shape' /\ RowsStay
<1> DEFINE m == CHOOSE m \in Members : m \notin Enrolments
<1>1. m \in Members /\ m \notin Enrolments
  <2>1. \E x \in Members : x \notin Enrolments
    BY DEF EnrolWrite, Enrolments
  <2>2. QED
    BY <2>1
<1> HIDE DEF m
<1>2. seen[p] \in MemberRow /\ seen[p] # None
  <2>1. seen[p] \in NewRow
    BY DEF EnrolWrite, Shape, Carried, Carries
  <2>2. seen[p] \in MemberRow
    BY <2>1 DEF NewRow, MemberRow
  <2>3. QED
    BY <2>2, NoneAssumption
<1>3. UNCHANGED <<today, leave>> /\ Done(p)
      /\ (member' = member \/ member' = [member EXCEPT ![m] = seen[p]])
  BY DEF EnrolWrite, m
<1>4. member' \in [Members -> MemberRow \cup {None}] /\ Enrolments \subseteq Enrolments'
  <2>1. CASE member' = member
    BY <2>1 DEF Shape, Tables, Enrolments
  <2>2. CASE member' = [member EXCEPT ![m] = seen[p]]
    BY <1>1, <1>2, <2>2 DEF Shape, Tables, Enrolments
  <2>3. QED
    BY <1>3, <2>1, <2>2
<1>5. RowsStay
  BY <1>4 DEF RowsStay, Made
<1>6. Carried'
  BY <1>3, <1>5, IdleCarried DEF Shape
<1>7. LeaveInv'
  BY <1>3, <1>4, SameBacked DEF Shape
<1>8. QED
  BY <1>3, <1>4, <1>5, <1>6, <1>7 DEF Shape, Tables

\* Ending a membership writes its last day.
LEMMA EndWriteShape ==
  ASSUME Shape, NEW p \in Requests, EndWrite(p), UNCHANGED outpass
  PROVE  Shape' /\ RowsStay
<1>1. seen[p] \in EndSeen /\ seen[p].member \in Enrolments
  BY DEF EndWrite, Shape, Carried, Carries
<1> DEFINE m == seen[p].member
           on == seen[p].on
<1>2. m \in Members /\ on \in Days /\ member[m] \in MemberRow
  BY <1>1 DEF EndSeen, Shape, Tables, Enrolments
<1>3. UNCHANGED <<today, leave>> /\ Done(p) /\ member' = [member EXCEPT ![m].end = on]
  BY DEF EndWrite
<1>4. [member[m] EXCEPT !.end = on] \in MemberRow
  BY <1>2 DEF MemberRow
<1>5. member' \in [Members -> MemberRow \cup {None}] /\ Enrolments \subseteq Enrolments'
  <2>1. member' = [member EXCEPT ![m] = [member[m] EXCEPT !.end = on]]
    BY <1>3
  <2>2. QED
    BY <1>2, <1>4, <2>1, NoneAssumption DEF Shape, Tables, Enrolments
<1>6. RowsStay
  BY <1>5 DEF RowsStay, Made
<1>7. Carried'
  BY <1>3, <1>6, IdleCarried DEF Shape
<1>8. LeaveInv'
  BY <1>3, <1>5, SameBacked DEF Shape
<1>9. QED
  BY <1>3, <1>5, <1>6, <1>7, <1>8 DEF Shape, Tables

\* Leave that is recorded by itself names no outpass.
LEMMA LeaveWriteShape ==
  ASSUME Shape, NEW p \in Requests, LeaveWrite(p), UNCHANGED outpass
  PROVE  Shape'
<1>1. seen[p] \in LeaveSeen /\ seen[p].from <= seen[p].to /\ seen[p].member \in Enrolments
  BY DEF LeaveWrite, Shape, Carried, Carries
<1> DEFINE m == seen[p].member
           from == seen[p].from
           to == seen[p].to
           row == [member |-> m, from |-> from, to |-> to, outpass |-> None]
<1>2. m \in Members /\ from \in Days /\ to \in Days
  BY <1>1 DEF LeaveSeen
<1>3. UNCHANGED <<today, member>> /\ Done(p) /\ Away(m, from, to, None)
  BY DEF LeaveWrite
<1> HIDE DEF m, from, to
<1>4. /\ leave' \in [Leaves -> LeaveRow \cup {None}]
      /\ \A l \in Leaves : leave'[l] = leave[l] \/ (leave[l] = None /\ leave'[l] = row)
  BY <1>2, <1>3, AwayShape DEF Shape
<1>5. RowsStay
  BY <1>3 DEF RowsStay, Made, Enrolments
<1>6. Carried'
  BY <1>3, <1>5, IdleCarried DEF Shape
<1>7. row.from <= row.to /\ row.member \in Enrolments' /\ Backed(row, outpass')
  BY <1>1, <1>3 DEF Backed, Enrolments, m, from, to
<1>8. LeaveInv'
  <2>1. \A r : Leads(r) => r.from <= r.to /\ r.member \in Enrolments' /\ Backed(r, outpass')
    BY <1>3 DEF Leads, Enrolments
  <2>2. QED
    BY <1>4, <1>7, <2>1 DEF Shape, LeaveInv, Leads
<1>9. QED
  BY <1>3, <1>4, <1>6, <1>8 DEF Shape, Tables

\* Deleting leave leaves the other rows as they are.
LEMMA DropWriteShape ==
  ASSUME Shape, NEW p \in Requests, DropWrite(p), UNCHANGED outpass
  PROVE  Shape'
<1>1. UNCHANGED <<today, member>> /\ Done(p) /\ Delete({seen[p]})
  BY DEF DropWrite
<1>2. leave' \in [Leaves -> LeaveRow \cup {None}] /\ \A l \in Leaves : leave'[l] # None => leave'[l] = leave[l]
  BY <1>1 DEF Delete, Shape, Tables
<1>3. RowsStay
  BY <1>1 DEF RowsStay, Made, Enrolments
<1>4. Carried'
  BY <1>1, <1>3, IdleCarried DEF Shape
<1>5. LeaveInv'
  BY <1>1, <1>2, <1>3, SameBacked DEF Shape, RowsStay
<1>6. QED
  BY <1>1, <1>2, <1>4, <1>5 DEF Shape, Tables

GoodStatus == {"approved", "out", "returned"}
\* An outpass keeps its days, and stands after the step.
StandsOn(x) == /\ outpass'[x] # None /\ outpass'[x].status \in GoodStatus
               /\ outpass'[x].from = outpass[x].from /\ outpass'[x].to = outpass[x].to

\* Leave whose outpasses still stand after the step is still backed.
LEMMA StandingBacked ==
  ASSUME LeaveInv, UNCHANGED member,
         \A l \in Leaves : leave'[l] # None =>
           leave'[l] = leave[l] /\ (leave[l].outpass # None => StandsOn(leave[l].outpass))
  PROVE  LeaveInv'
<1>1. ASSUME NEW l \in Leaves, leave'[l] # None PROVE Leads(leave[l])'
  <2>1. leave'[l] = leave[l] /\ Leads(leave[l])
    BY <1>1 DEF LeaveInv
  <2>2. Backed(leave[l], outpass')
    BY <1>1, <2>1 DEF Leads, Backed, StandsOn, GoodStatus
  <2>3. QED
    BY <2>1, <2>2 DEF Leads, Enrolments
<1>2. QED
  BY <1>1 DEF LeaveInv

\* Leave that names an outpass names one that was made and stands.
LEMMA NamedStands ==
  ASSUME Shape, NEW l \in Leaves, leave[l] # None, leave[l].outpass # None
  PROVE  /\ leave[l].outpass \in Made /\ outpass[leave[l].outpass] \in OutpassRow
         /\ outpass[leave[l].outpass].status \in GoodStatus
<1>1. leave[l] \in LeaveRow /\ Backed(leave[l], outpass)
  BY DEF Shape, Tables, LeaveInv, Leads
<1>2. leave[l].outpass \in Outpasses
  BY <1>1 DEF LeaveRow
<1>3. QED
  BY <1>1, <1>2 DEF Shape, Tables, Backed, Made, GoodStatus

\* A new outpass goes where none was, so no leave names it yet.
LEMMA RequestWriteShape ==
  ASSUME Shape, NEW p \in Requests, RequestWrite(p)
  PROVE  Shape'
<1> DEFINE o == CHOOSE o \in {o \in Outpasses : outpass[o] = None} : TRUE
<1>1. o \in Outpasses /\ outpass[o] = None
  BY DEF RequestWrite
<1>2. outpass' = [outpass EXCEPT ![o] = seen[p]] /\ UNCHANGED <<today, member, leave>> /\ Done(p)
  BY DEF RequestWrite, messVars
<1> HIDE DEF o
<1>3. seen[p] \in OutpassRow
  BY DEF RequestWrite, Shape, Carried, Carries
<1>4. outpass' \in [Outpasses -> OutpassRow \cup {None}] /\ RowsStay
  BY <1>1, <1>2, <1>3 DEF Shape, Tables, RowsStay, Made, Enrolments
<1>5. Carried'
  BY <1>2, <1>4, IdleCarried DEF Shape
<1>6. ASSUME NEW l \in Leaves, leave[l] # None, leave[l].outpass # None PROVE StandsOn(leave[l].outpass)
  <2>1. outpass'[leave[l].outpass] = outpass[leave[l].outpass]
    BY <1>1, <1>2, <1>6, NamedStands DEF Made, Shape, Tables
  <2>2. QED
    BY <1>6, <2>1, NamedStands, NullAssumption DEF StandsOn
<1>7. LeaveInv'
  BY <1>2, <1>6, StandingBacked DEF Shape
<1>8. QED
  BY <1>2, <1>4, <1>5, <1>7 DEF Shape, Tables

\* A status, or the note that it was late, is written into one outpass.
LEMMA PassWritten ==
  ASSUME Shape, NEW o \in Made, NEW status \in OutpassStatus, NEW late \in BOOLEAN,
         outpass' = [outpass EXCEPT ![o] = [outpass[o] EXCEPT !.status = status, !.late = late]]
  PROVE  /\ outpass' \in [Outpasses -> OutpassRow \cup {None}] /\ Made \subseteq Made'
         /\ outpass'[o] # None /\ outpass'[o].status = status
         /\ outpass'[o].from = outpass[o].from /\ outpass'[o].to = outpass[o].to
         /\ \A x \in Outpasses : x # o => outpass'[x] = outpass[x]
<1>1. outpass[o] \in OutpassRow /\ o \in Outpasses
  BY DEF Made, Shape, Tables
<1> DEFINE row == [outpass[o] EXCEPT !.status = status, !.late = late]
<1>2. row \in OutpassRow /\ row.status = status /\ row.from = outpass[o].from /\ row.to = outpass[o].to
  BY <1>1 DEF OutpassRow
<1> HIDE DEF row
<1>3. outpass' = [outpass EXCEPT ![o] = row]
  BY DEF row
<1>4. row # None
  BY <1>2, NullAssumption
<1>5. QED
  BY <1>1, <1>2, <1>3, <1>4 DEF Made, Shape, Tables

\* Setting the status keeps the rest of the row.
LEMMA StatusIsSet ==
  ASSUME Shape, NEW o \in Made, NEW status, SetStatus(o, status)
  PROVE  outpass' = [outpass EXCEPT ![o] = [outpass[o] EXCEPT !.status = status, !.late = outpass[o].late]]
         /\ outpass[o].late \in BOOLEAN
<1>1. outpass[o] \in OutpassRow
  BY DEF Made, Shape, Tables
<1>2. [outpass[o] EXCEPT !.status = status, !.late = outpass[o].late] = [outpass[o] EXCEPT !.status = status]
  BY <1>1 DEF OutpassRow
<1>3. QED
  BY <1>1, <1>2 DEF SetStatus, OutpassRow

\* An outpass with a status is one that was made.
LEMMA StatusOfMade ==
  ASSUME NEW o \in Outpasses, Status(o) \in OutpassStatus
  PROVE  o \in Made /\ outpass[o].status = Status(o)
  BY NullAssumption DEF Status, Made

\* Cancelling an outpass takes its leave with it.
LEMMA CancelWriteShape ==
  ASSUME Shape, NEW p \in Requests, CancelWrite(p)
  PROVE  Shape'
<1> DEFINE o == seen[p]
<1>1. o \in Made
  BY DEF CancelWrite, Shape, Carried, Carries
<1>2. SetStatus(o, "cancelled") /\ Delete(LeaveFor(o)) /\ Done(p) /\ UNCHANGED <<today, member>>
  BY DEF CancelWrite, Recalled
<1> HIDE DEF o
<1>3. /\ outpass' \in [Outpasses -> OutpassRow \cup {None}] /\ Made \subseteq Made'
      /\ \A x \in Outpasses : x # o => outpass'[x] = outpass[x]
  BY <1>1, <1>2, StatusIsSet, PassWritten DEF OutpassStatus
<1>4. leave' \in [Leaves -> LeaveRow \cup {None}]
      /\ \A l \in Leaves : leave'[l] # None => leave'[l] = leave[l] /\ leave[l].outpass # o
  BY <1>2 DEF Delete, LeaveFor, Shape, Tables
<1>5. RowsStay
  BY <1>2, <1>3 DEF RowsStay, Enrolments
<1>6. Carried'
  BY <1>2, <1>5, IdleCarried DEF Shape
<1>7. ASSUME NEW l \in Leaves, leave'[l] # None, leave[l].outpass # None PROVE StandsOn(leave[l].outpass)
  <2>1. leave[l] # None /\ leave[l].outpass # o
    BY <1>4, <1>7
  <2>2. leave[l].outpass \in Outpasses /\ outpass[leave[l].outpass] # None
        /\ outpass[leave[l].outpass].status \in GoodStatus
    BY <1>7, <2>1, NamedStands DEF Made
  <2>3. QED
    BY <1>3, <2>1, <2>2 DEF StandsOn
<1>8. LeaveInv'
  BY <1>2, <1>4, <1>7, StandingBacked DEF Shape
<1>9. QED
  BY <1>2, <1>3, <1>4, <1>6, <1>8 DEF Shape, Tables

\* Going out: the outpass still stands.
LEMMA GateOutShape ==
  ASSUME Shape, NEW o \in Outpasses, gate_out(o)
  PROVE  Shape'
<1>1. Status(o) = "approved" /\ SetStatus(o, "out") /\ UNCHANGED <<today, member, leave, pc, seen>>
  BY DEF gate_out, messVars
<1>2. o \in Made /\ outpass[o].status = "approved"
  BY <1>1, StatusOfMade DEF OutpassStatus
<1>3. /\ outpass' \in [Outpasses -> OutpassRow \cup {None}] /\ Made \subseteq Made'
      /\ outpass'[o] # None /\ outpass'[o].status = "out"
      /\ outpass'[o].from = outpass[o].from /\ outpass'[o].to = outpass[o].to
      /\ \A x \in Outpasses : x # o => outpass'[x] = outpass[x]
  <2>1. outpass' = [outpass EXCEPT ![o] = [outpass[o] EXCEPT !.status = "out", !.late = outpass[o].late]]
        /\ outpass[o].late \in BOOLEAN
    BY <1>1, <1>2, StatusIsSet
  <2>2. "out" \in OutpassStatus
    BY DEF OutpassStatus
  <2>3. QED
    BY <1>2, <2>1, <2>2, PassWritten
<1>4. Carried'
  BY <1>1, <1>3, OthersCarried DEF Shape, RowsStay, Enrolments
<1>5. ASSUME NEW l \in Leaves, leave[l] # None, leave[l].outpass # None PROVE StandsOn(leave[l].outpass)
  <2>1. leave[l].outpass \in Outpasses /\ outpass[leave[l].outpass] # None
        /\ outpass[leave[l].outpass].status \in GoodStatus
    BY <1>5, NamedStands DEF Made
  <2>2. QED
    BY <1>3, <2>1 DEF StandsOn, GoodStatus
<1>6. LeaveInv'
  BY <1>1, <1>5, StandingBacked DEF Shape
<1>7. QED
  BY <1>1, <1>3, <1>4, <1>6 DEF Shape, Tables

\* Coming back early ends the leave on that day, never before it started.
LEMMA Shortened ==
  ASSUME Shape, NEW l \in Leaves, leave[l] # None, today < leave[l].to
  PROVE  /\ UntilToday(l) \in LeaveRow /\ UntilToday(l) # None
         /\ UntilToday(l).member = leave[l].member /\ UntilToday(l).outpass = leave[l].outpass
         /\ UntilToday(l).from = leave[l].from
         /\ UntilToday(l).from <= UntilToday(l).to /\ UntilToday(l).to <= leave[l].to
         /\ UntilToday(l).to >= today
<1>1. leave[l] \in LeaveRow /\ leave[l].from <= leave[l].to
  BY DEF Shape, Tables, LeaveInv, Leads
<1>2. leave[l].from \in Int /\ leave[l].to \in Int /\ today \in Int /\ today \in Days /\ leave[l].from \in Days
  BY <1>1, DaysAreInt DEF LeaveRow, Shape, Tables
<1> DEFINE to == Max({today, leave[l].from})
<1>3. to = IF today >= leave[l].from THEN today ELSE leave[l].from
  BY <1>2, MaxOfTwo
<1>4. to \in Days /\ leave[l].from <= to /\ to <= leave[l].to /\ to >= today
  BY <1>1, <1>2, <1>3
<1> HIDE DEF to
<1>5. UntilToday(l) = [leave[l] EXCEPT !.to = to]
  BY DEF UntilToday, to
<1>6. UntilToday(l) \in LeaveRow
  BY <1>1, <1>4, <1>5 DEF LeaveRow
<1>7. QED
  BY <1>1, <1>4, <1>5, <1>6, NoneAssumption DEF LeaveRow

\* Coming in: leave may end earlier, within the days of the outpass.
LEMMA GateInShape ==
  ASSUME Shape, NEW o \in Outpasses, NEW late \in BOOLEAN, gate_in(o, late)
  PROVE  Shape'
<1> DEFINE Cut(l) == l \in LeaveFor(o) /\ today < leave[l].to
<1>1. /\ Status(o) = "out" /\ UNCHANGED <<today, member, pc, seen>>
      /\ outpass' = [outpass EXCEPT ![o].status = "returned", ![o].late = late]
      /\ leave' = [l \in Leaves |-> IF Cut(l) THEN UntilToday(l) ELSE leave[l]]
  BY DEF gate_in
<1>2. o \in Made /\ outpass[o].status = "out"
  BY <1>1, StatusOfMade DEF OutpassStatus
<1>3. outpass' = [outpass EXCEPT ![o] = [outpass[o] EXCEPT !.status = "returned", !.late = late]]
  BY <1>1, <1>2 DEF Shape, Tables
<1>4. /\ outpass' \in [Outpasses -> OutpassRow \cup {None}] /\ Made \subseteq Made'
      /\ outpass'[o] # None /\ outpass'[o].status = "returned"
      /\ outpass'[o].from = outpass[o].from /\ outpass'[o].to = outpass[o].to
      /\ \A x \in Outpasses : x # o => outpass'[x] = outpass[x]
  BY <1>2, <1>3, PassWritten DEF OutpassStatus
<1>5. Carried'
  BY <1>1, <1>4, OthersCarried DEF Shape, RowsStay, Enrolments
<1>6. ASSUME NEW l \in Leaves, leave[l] # None, leave[l].outpass # None PROVE StandsOn(leave[l].outpass)
  <2>1. leave[l].outpass \in Outpasses /\ outpass[leave[l].outpass] # None
        /\ outpass[leave[l].outpass].status \in GoodStatus
    BY <1>6, NamedStands DEF Made
  <2>2. QED
    BY <1>4, <2>1 DEF StandsOn, GoodStatus
<1>7. ASSUME NEW l \in Leaves, leave[l] # None
      PROVE  Leads(leave[l])'
  <2>1. leave[l] \in LeaveRow /\ Leads(leave[l])
    BY <1>7 DEF Shape, Tables, LeaveInv
  <2>2. Backed(leave[l], outpass')
    BY <1>6, <1>7, <2>1 DEF Leads, Backed, StandsOn, GoodStatus
  <2>3. CASE ~Cut(l)
    BY <1>1, <2>1, <2>2, <2>3 DEF Leads, Enrolments
  <2>4. CASE Cut(l)
    <3>1. leave'[l] = UntilToday(l)
      BY <1>1, <2>4
    <3>2. /\ UntilToday(l).member = leave[l].member /\ UntilToday(l).outpass = leave[l].outpass
          /\ UntilToday(l).from = leave[l].from
          /\ UntilToday(l).from <= UntilToday(l).to /\ UntilToday(l).to <= leave[l].to
          /\ UntilToday(l) \in LeaveRow
      BY <1>7, <2>4, Shortened
    <3>3. UntilToday(l).from..UntilToday(l).to \subseteq leave[l].from..leave[l].to
      <4>1. UntilToday(l).to \in Int /\ leave[l].to \in Int /\ leave[l].from \in Int
        BY <2>1, <3>2, DaysAreInt DEF LeaveRow
      <4>2. QED
        BY <3>2, <4>1
    <3>4. Backed(UntilToday(l), outpass')
      BY <2>2, <3>2, <3>3 DEF Backed
    <3>5. QED
      BY <1>1, <2>1, <3>1, <3>2, <3>4 DEF Leads, Enrolments
  <2>5. QED
    BY <2>3, <2>4
<1>8. ASSUME NEW l \in Leaves PROVE leave'[l] \in LeaveRow \cup {None} /\ (leave'[l] # None => leave[l] # None)
  BY <1>1, Shortened DEF LeaveFor, Shape, Tables
<1>9. leave' \in [Leaves -> LeaveRow \cup {None}]
  BY <1>1, <1>8
<1>10. LeaveInv'
  BY <1>7, <1>8 DEF LeaveInv
<1>11. QED
  BY <1>1, <1>4, <1>5, <1>9, <1>10 DEF Shape, Tables

\* Steps that leave the rows of members, leave and outpasses alone.
LEMMA OthersShape ==
  ASSUME Shape, (\E p \in Requests : VisitWrite(p)) \/ (\E v \in Visits, listed \in BOOLEAN : visitor_arrives(v, listed))
                \/ (Office /\ UNCHANGED outpass)
  PROVE  Shape'
<1>1. CASE \E p \in Requests : VisitWrite(p)
  <2>1. PICK p \in Requests : VisitWrite(p)
    BY <1>1
  <2>2. UNCHANGED <<today, member, leave, outpass>> /\ Done(p)
    BY <2>1 DEF VisitWrite, messVars
  <2>3. QED
    BY <2>2, SameTables, IdleCarried DEF Shape, Tables
<1>2. CASE \E v \in Visits, listed \in BOOLEAN : visitor_arrives(v, listed)
  <2>1. UNCHANGED <<today, member, leave, outpass, pc, seen>>
    BY <1>2 DEF visitor_arrives, messVars
  <2>2. QED
    BY <2>1, SameTables, OthersCarried DEF Shape, Tables
<1>3. CASE Office /\ UNCHANGED outpass
  <2>1. UNCHANGED <<member, leave, outpass, pc, seen>> /\ (today' = today \/ NextDay)
    BY <1>3 DEF Office, add_guest_meal, Collect, NextDay
  <2>2. today' \in Days
    BY <2>1, CalendarAssumption DEF NextDay, Days, Shape, Tables
  <2>3. QED
    BY <2>1, <2>2, SameTables, OthersCarried DEF Shape
<1>4. QED
  BY <1>1, <1>2, <1>3

\* Approving makes leave within the days of the outpass, of a member who is
\* enrolled; rejecting makes none.
LEMMA DecideShape ==
  ASSUME Shape, NEW o \in Outpasses, NEW approve \in BOOLEAN, decide_outpass(o, approve)
  PROVE  Shape'
<1> DEFINE status == IF approve THEN "approved" ELSE "rejected"
           op == outpass[o]
           m == CHOOSE m \in Open : TRUE
           from == Max({op.from, member[m].start})
           row == [member |-> m, from |-> from, to |-> op.to, outpass |-> o]
<1>1. /\ Status(o) = "requested" /\ SetStatus(o, status) /\ UNCHANGED <<today, member, pc, seen>>
      /\ \/ leave' = leave
         \/ approve /\ Open # {} /\ MayBeAway(m, from, op.to) /\ Away(m, from, op.to, o)
  BY DEF decide_outpass
<1>2. o \in Made /\ outpass[o].status = "requested" /\ op \in OutpassRow
  BY <1>1, StatusOfMade DEF OutpassStatus, Made, Shape, Tables
<1>3. /\ outpass' \in [Outpasses -> OutpassRow \cup {None}] /\ Made \subseteq Made'
      /\ outpass'[o] # None /\ outpass'[o].status = status
      /\ outpass'[o].from = outpass[o].from /\ outpass'[o].to = outpass[o].to
      /\ \A x \in Outpasses : x # o => outpass'[x] = outpass[x]
  <2>1. outpass' = [outpass EXCEPT ![o] = [outpass[o] EXCEPT !.status = status, !.late = outpass[o].late]]
        /\ outpass[o].late \in BOOLEAN
    BY <1>1, <1>2, StatusIsSet
  <2>2. status \in OutpassStatus
    BY DEF OutpassStatus
  <2> HIDE DEF status
  <2>3. QED
    BY <1>2, <2>1, <2>2, PassWritten
<1>4. RowsStay
  BY <1>1, <1>3 DEF RowsStay, Enrolments
<1>5. Carried'
  BY <1>1, <1>4, OthersCarried DEF Shape
\* A row that was there names another outpass: this one was not approved yet.
<1>6. ASSUME NEW l \in Leaves, leave[l] # None, leave[l].outpass # None PROVE StandsOn(leave[l].outpass)
  <2>1. leave[l].outpass \in Outpasses /\ outpass[leave[l].outpass] # None
        /\ outpass[leave[l].outpass].status \in GoodStatus
    BY <1>6, NamedStands DEF Made
  <2>2. leave[l].outpass # o
    BY <1>2, <2>1 DEF GoodStatus
  <2>3. QED
    BY <1>3, <2>1, <2>2 DEF StandsOn
<1> HIDE DEF m, from
<1>7. CASE leave' = leave
  <2>1. LeaveInv'
    BY <1>1, <1>6, <1>7, StandingBacked DEF Shape
  <2>2. QED
    BY <1>1, <1>3, <1>5, <1>7, <2>1 DEF Shape, Tables
<1>8. CASE approve /\ Open # {} /\ MayBeAway(m, from, op.to) /\ Away(m, from, op.to, o)
  <2>1. m \in Open
    BY <1>8 DEF m
  <2>2. m \in Members /\ m \in Enrolments /\ member[m] \in MemberRow
    BY <2>1 DEF Open, Enrolments, Shape, Tables
  <2>3. op.from \in Days /\ op.to \in Days /\ member[m].start \in Days
    BY <1>2, <2>2 DEF OutpassRow, MemberRow
  <2>4. op.from \in Int /\ op.to \in Int /\ member[m].start \in Int
    BY <2>3, DaysAreInt
  <2>5. from = IF op.from >= member[m].start THEN op.from ELSE member[m].start
    BY <2>4, MaxOfTwo DEF from
  <2>6. from \in Days /\ op.from <= from /\ from <= op.to /\ from \in Int
    BY <1>8, <2>3, <2>4, <2>5 DEF MayBeAway
  <2>7. from..op.to \subseteq op.from..op.to
    BY <2>4, <2>6
  <2>8. Backed(row, outpass')
    BY <1>3, <1>8, <2>7 DEF Backed
  <2>9. /\ leave' \in [Leaves -> LeaveRow \cup {None}]
        /\ \A l \in Leaves : leave'[l] = leave[l] \/ (leave[l] = None /\ leave'[l] = row)
    BY <1>8, <2>2, <2>3, <2>6, AwayShape DEF Shape
  <2>10. ASSUME NEW l \in Leaves, leave'[l] # None PROVE Leads(leave[l])'
    <3>1. CASE leave'[l] = row
      BY <1>1, <2>2, <2>6, <2>8, <3>1 DEF Leads, Enrolments
    <3>2. CASE leave'[l] = leave[l]
      <4>1. Leads(leave[l])
        BY <2>10, <3>2 DEF Shape, LeaveInv
      <4>2. Backed(leave[l], outpass')
        BY <1>6, <2>10, <3>2, <4>1 DEF Leads, Backed, StandsOn, GoodStatus
      <4>3. QED
        BY <1>1, <3>2, <4>1, <4>2 DEF Leads, Enrolments
    <3>3. QED
      BY <2>9, <3>1, <3>2
  <2>11. LeaveInv'
    BY <2>10 DEF LeaveInv
  <2>12. QED
    BY <1>1, <1>3, <1>5, <2>9, <2>11 DEF Shape, Tables
<1>9. QED
  BY <1>1, <1>7, <1>8

\* The first rows are well formed.
LEMMA InitShape == Init => Shape
<1> SUFFICES ASSUME Init PROVE Shape
  OBVIOUS
<1>1. PICK first \in FirstRows :
        today = first.today /\ member = first.member /\ leave = first.leave /\ outpass = first.outpass
  BY DEF Init
<1>2. Tables
  BY <1>1, FirstRowsAssumption DEF Tables
<1>3. Carried
  BY DEF Init, NobodyYet, Carried, Carries
<1>4. LeaveInv
  BY <1>1, FirstRowsAssumption DEF LeaveInv, Leads, Enrolments, Tables, LeaveRow
<1>5. QED
  BY <1>2, <1>3, <1>4 DEF Shape

\* Every step keeps the rows well formed and leave with its outpass.
LEMMA NextShape == Shape /\ [Next]_vars => Shape'
<1> SUFFICES ASSUME Shape, [Next]_vars PROVE Shape'
  OBVIOUS
<1>1. CASE UNCHANGED vars
  <2>1. UNCHANGED <<today, member, leave, outpass, pc, seen>>
    BY <1>1 DEF vars, messVars, requestVars, gateVars
  <2>2. QED
    BY <2>1, SameTables, OthersCarried DEF Shape, Tables
<1>2. ASSUME NEW p \in Requests, MessStep(p), UNCHANGED gateVars PROVE Shape'
  <2>1. UNCHANGED outpass
    BY <1>2 DEF gateVars
  <2>2. QED
    BY <1>2, <2>1, ChecksShape, BillsShape, EnrolWriteShape, EndWriteShape, LeaveWriteShape, DropWriteShape DEF MessStep
<1>3. ASSUME NEW p \in Requests, GateStep(p) PROVE Shape'
  <2>1. \/ \E t \in Trips : RequestCheck(p, t[1], t[2])
        \/ \E o \in Outpasses : CancelRead(p, o)
        \/ \E v \in Visits, what \in {"approve", "refuse", "leave"} : VisitRead(p, v, what)
        \/ RequestWrite(p) \/ CancelWrite(p) \/ VisitWrite(p)
    BY <1>3 DEF GateStep
  <2>2. CASE \E t \in Trips : RequestCheck(p, t[1], t[2])
    BY <2>2, ChecksShape DEF RequestCheck, gateVars
  <2>3. CASE \E o \in Outpasses : CancelRead(p, o)
    BY <2>3, ChecksShape DEF CancelRead, gateVars
  <2>4. CASE \E v \in Visits, what \in {"approve", "refuse", "leave"} : VisitRead(p, v, what)
    BY <2>4, ChecksShape DEF VisitRead, gateVars
  <2>5. QED
    BY <2>1, <2>2, <2>3, <2>4, RequestWriteShape, CancelWriteShape, OthersShape
<1>4. CASE Passage
  BY <1>4, DecideShape, GateOutShape, GateInShape DEF Passage
<1>5. QED
  BY <1>1, <1>2, <1>3, <1>4, OthersShape DEF Next, gateVars

\* Whatever the order of approvals, cancellations and passages, leave that came
\* from an outpass belongs to one that stands and lies within its days (gate.py,
\* decide_outpass, cancel_outpass and gate_in).
THEOREM LeaveHasItsOutpass == Spec => []LeaveFollowsOutpass
<1>1. Shape => LeaveFollowsOutpass
  BY DEF Shape, LeaveInv, Leads, LeaveFollowsOutpass
<1>2. QED
  BY <1>1, InitShape, NextShape, PTL DEF Spec

\* Taking the members who are away from those enrolled leaves those who eat,
\* however many rows of leave an absent member has.
LEMMA EatersCounted ==
  ASSUME NEW at \in SUBSET Members, NEW away \in SUBSET at
  PROVE  Cardinality(at \ away) = Cardinality(at) - Cardinality(away)
<1>1. IsFiniteSet(at)
  BY RowsAssumption, FS_Subset
<1>2. at \cap away = away
  OBVIOUS
<1>3. Cardinality(at \ away) = Cardinality(at) - Cardinality(at \cap away)
  BY <1>1, FS_Difference
<1>4. QED
  BY <1>2, <1>3

\* Whom the contractor expects on a day are those the kitchen counts less those
\* on leave.
LEMMA SameExpected ==
  ASSUME NEW month, NEW d \in DaysOfMonth(month)
  PROVE  Cardinality({m \in {m \in Enrolments : DaysOn(member[m]) \cap DaysOfMonth(month) # {}} :
                        d \in DaysOn(member[m]) /\ \A l \in LeavesOf(m) : d \notin DaysAway(l)})
         = Cardinality({m \in Enrolments : d \in DaysOn(member[m])})
           - OnLeave({m \in Enrolments : d \in DaysOn(member[m])}, d)
<1> DEFINE at == {m \in Enrolments : d \in DaysOn(member[m])}
           away == {leave[l].member : l \in {l \in Leaves : leave[l] # None /\ leave[l].member \in at /\ d \in DaysAway(l)}}
           eat == {m \in {m \in Enrolments : DaysOn(member[m]) \cap DaysOfMonth(month) # {}} :
                     d \in DaysOn(member[m]) /\ \A l \in LeavesOf(m) : d \notin DaysAway(l)}
<1>1. at \in SUBSET Members /\ away \in SUBSET at
  BY DEF Enrolments
<1>2. eat = at \ away
  <2>1. ASSUME NEW m \in eat PROVE m \in at \ away
    BY <2>1 DEF LeavesOf
  <2>2. ASSUME NEW m \in at \ away PROVE m \in eat
    BY <2>2 DEF LeavesOf
  <2>3. QED
    BY <2>1, <2>2
<1>3. OnLeave(at, d) = Cardinality(away)
  BY DEF OnLeave
<1> HIDE DEF at, away, eat
<1>4. Cardinality(eat) = Cardinality(at) - OnLeave(at, d)
  BY <1>1, <1>2, <1>3, EatersCounted
<1>5. QED
  BY <1>4 DEF at, eat

\* The two counts are the same in every state, whatever rows there are.
LEMMA SamePlates == PlatesAgree
<1> SUFFICES ASSUME NEW month \in Months
             PROVE  contractor_plates(month, <<>>) =
                      SumFunctionOnSet([d \in DaysOfMonth(month) |-> headcount(d)], DaysOfMonth(month))
  BY DEF PlatesAgree
<1> DEFINE Expected(d) == Cardinality({m \in {m \in Enrolments : DaysOn(member[m]) \cap DaysOfMonth(month) # {}} :
                        d \in DaysOn(member[m]) /\ \A l \in LeavesOf(m) : d \notin DaysAway(l)})
           Plates == [d \in DaysOfMonth(month) |->
                        IF d \in DOMAIN <<>> THEN (<<>>)[d] ELSE Expected(d) + GuestsOn(d)]
<1>1. contractor_plates(month, <<>>) = SumFunctionOnSet(Plates, DaysOfMonth(month))
  BY DEF contractor_plates
<1>2. ASSUME NEW d \in DaysOfMonth(month) PROVE Expected(d) + GuestsOn(d) = headcount(d)
  BY <1>2, SameExpected DEF headcount
<1> HIDE DEF Expected
<1>3. Plates = [d \in DaysOfMonth(month) |-> headcount(d)]
  BY <1>2
<1>4. QED
  BY <1>1, <1>3

\* headcount and contractor_plates count the same plates in every month and in
\* every state (mess.py), although one subtracts and the other filters.
THEOREM KitchenAndContractorAgree == Spec => []PlatesAgree
  BY SamePlates, PTL

(***************************************************************************)
(* Bills.  What the monthly job read may be old when it is written: the    *)
(* invariant says what stays true of it meanwhile.                         *)
(***************************************************************************)
RebateRow == [member : Members, leave : Leaves, month : Int, days : Nat, amount : Nat]
ChargeRow == [member : Members, month : Int, base : Int, amount : Int, due : Int,
              paid : BOOLEAN, live : BOOLEAN]
BillSeen == [member : Members, row : MemberRow, month : Int]
Given(work) == work.old \cup work.new

\* A bill as it was worked out: it is reduced by the rebates that go with it.
Sound(m, month, work) ==
  /\ work.base \in Int /\ work.amount \in Int
  /\ IsFiniteSet(Given(work)) /\ Given(work) \subseteq RebateRow
  /\ \A r \in Given(work) : r.member = m /\ r.month = RebateMonth(month)
  /\ work.amount >= work.base - Total(Given(work))
  /\ \A q, r \in Given(work) : q.leave = r.leave => q = r
\* A rebate is for days its leave has, while it has them.
Fits(r) == leave[r.leave] # None => r.days <= Cardinality(DaysAway(r.leave) \cap DaysOfMonth(r.month))
\* The old rebates of a bill are still registered, unless their leave is gone.
Current(work) ==
  /\ \A r \in Given(work) : Fits(r)
  /\ \A r \in work.old : r \in rebates \/ leave[r.leave] = None

BillCarries(step, what) ==
  /\ step = "bill" => what \in BillSeen /\ what.member \in Enrolments /\ what.month <= Month(today)
  /\ step = "post" => /\ what.member \in Enrolments /\ what.row \in MemberRow
                      /\ what.month \in Int /\ what.month <= Month(today)
                      /\ Sound(what.member, what.month, what.work) /\ Current(what.work)

RebateInv ==
  /\ IsFiniteSet(rebates \cup lost) /\ rebates \cup lost \subseteq RebateRow
  /\ \A r \in rebates : /\ r.member \in Enrolments /\ r.month < Month(today)
                        /\ leave[r.leave] # None /\ Fits(r)
  /\ \A q, r \in rebates : q.leave = r.leave /\ q.month = r.month => q = r
ChargeInv ==
  /\ charges \in Seq(ChargeRow)
  /\ \A c, d \in DOMAIN charges :
       charges[c].live /\ charges[d].live /\ charges[c].member = charges[d].member
         /\ charges[c].month = charges[d].month => c = d
  /\ ReducedByRebates
WorkInv == \A p \in Requests : BillCarries(pc[p], seen[p])
BillInv == RebateInv /\ ChargeInv /\ WorkInv
\* Days and the months they are in.
LEMMA Division ==
  ASSUME NEW a \in Int, NEW n \in Nat \ {0}
  PROVE  a \div n \in Int /\ n * (a \div n) <= a /\ a < n * (a \div n) + n
  OBVIOUS

\* Months are numbers.
LEMMA MonthIsInt ==
  ASSUME NEW d \in Int
  PROVE  Month(d) \in Int
  BY Division, CalendarAssumption DEF Month

\* A later day is in no earlier month.
LEMMA MonthsFollow ==
  ASSUME NEW a \in Int, NEW b \in Int, a <= b
  PROVE  Month(a) <= Month(b)
<1> DEFINE n == MonthLength
           x == Month(a)
           y == Month(b)
<1>1. n \in Nat \ {0} /\ x \in Int /\ y \in Int
  BY MonthIsInt, CalendarAssumption
<1>2. n * x <= a - 1 /\ b - 1 < n * y + n
  <2>1. a - 1 \in Int /\ b - 1 \in Int
    OBVIOUS
  <2>2. n * x <= a - 1
    BY <1>1, <2>1, Division DEF Month
  <2>3. b - 1 < n * y + n
    BY <1>1, <2>1, Division DEF Month
  <2>4. QED
    BY <2>2, <2>3
<1> HIDE DEF n, x, y
<1>3. n * x < n * (y + 1)
  BY <1>1, <1>2
<1>4. ASSUME x >= y + 1 PROVE FALSE
  <2>1. n * x >= n * (y + 1)
    BY <1>1, <1>4
  <2>2. n * x \in Int /\ n * (y + 1) \in Int
    BY <1>1
  <2>3. QED
    BY <1>3, <2>1, <2>2
<1>5. QED
  BY <1>1, <1>4 DEF x, y

\* The days of a month that is over are days that are over.
LEMMA MonthOver ==
  ASSUME NEW t \in Int, NEW k \in Int, k < Month(t), NEW d \in DaysOfMonth(k)
  PROVE  d \in Int /\ d < t
<1> DEFINE n == MonthLength
           x == Month(t)
<1>1. n \in Nat \ {0} /\ x \in Int
  BY MonthIsInt, CalendarAssumption
<1>2. n * x <= t - 1
  BY Division, CalendarAssumption DEF Month
<1>3. d \in Int /\ d <= (k + 1) * n
  BY <1>1 DEF DaysOfMonth
<1> HIDE DEF n, x
<1>4. k + 1 <= x
  BY <1>1 DEF x
<1>5. (k + 1) * n <= n * x
  <2>1. PICK j \in Nat : x = k + 1 + j
    BY <1>1, <1>4
  <2>2. n * x = (k + 1) * n + n * j /\ n * j \in Nat
    BY <1>1, <2>1
  <2>3. QED
    BY <1>1, <2>2
<1>6. QED
  BY <1>1, <1>2, <1>3, <1>5

\* A month has finitely many days.
LEMMA MonthDays ==
  ASSUME NEW k \in Int
  PROVE  IsFiniteSet(DaysOfMonth(k)) /\ DaysOfMonth(k) \subseteq Int
<1>1. k * MonthLength + 1 \in Int /\ (k + 1) * MonthLength \in Int
  BY CalendarAssumption
<1>2. QED
  BY <1>1, FS_Interval DEF DaysOfMonth

\* The days a month has in common with anything can be counted.
LEMMA DaysCounted ==
  ASSUME NEW k \in Int, NEW S, S \subseteq DaysOfMonth(k)
  PROVE  IsFiniteSet(S) /\ Cardinality(S) \in Nat
  BY MonthDays, FS_Subset, FS_CardinalityType

-----------------------------------------------------------------------------
\* What rebates come to is a number, and more rebates come to no less.
LEMMA TotalGrows ==
  ASSUME NEW S, IsFiniteSet(S), \A r \in S : r.amount \in Nat, NEW T \in SUBSET S
  PROVE  Total(T) \in Nat /\ Total(S) \in Nat /\ Total(T) <= Total(S)
<1> DEFINE f == [r \in S |-> r.amount]
           g == [r \in T |-> r.amount]
<1>1. AddsNat(f, S) /\ AddsNat(g, T) /\ AddsInt(g, T) /\ \A r \in T : g[r] = f[r]
  BY DEF AddsNat, AddsInt
<1>2. IsFiniteSet(T)
  BY FS_Subset
<1> HIDE DEF f, g
<1>3. SumFunctionOnSet(f, S) \in Nat
  BY <1>1, SumIsNat
<1>4. SumFunctionOnSet(g, T) \in Nat
  BY <1>1, <1>2, SumIsNat
<1>5. SumFunctionOnSet(f, T) <= SumFunctionOnSet(f, S)
  BY <1>1, SumOfPart
<1>6. SumFunctionOnSet(g, T) = SumFunctionOnSet(f, T)
  BY <1>1, <1>2, SumEqual
<1>7. QED
  BY <1>3, <1>4, <1>5, <1>6 DEF Total, f, g

\* No rebates come to nothing.
LEMMA TotalNone == Total({}) = 0
  BY SumEmpty DEF Total

\* A new rebate is for a leave of the member that has none for the month yet,
\* and for days the leave has.
LEMMA NewRebatesFit ==
  ASSUME NEW m \in Members, NEW row \in MemberRow, NEW k \in Int
  PROVE  /\ IsFiniteSet(NewRebates(m, row, k)) /\ NewRebates(m, row, k) \subseteq RebateRow
         /\ \A r \in NewRebates(m, row, k) :
              /\ r.member = m /\ r.month = k /\ leave[r.leave] # None
              /\ r.days <= Cardinality(DaysAway(r.leave) \cap DaysOfMonth(k))
              /\ \A q \in rebates : q.leave = r.leave => q.month # k
         /\ \A q, r \in NewRebates(m, row, k) : q.leave = r.leave => q = r
<1> DEFINE done == {r.leave : r \in {r \in rebates : r.month = k}}
           Within(l) == DaysAway(l) \cap DaysOn(row) \cap DaysOfMonth(k)
           Row(l) == [member |-> m, leave |-> l, month |-> k, days |-> Cardinality(Within(l)),
                      amount |-> rebate_per_day * Cardinality(Within(l))]
           who == {l \in LeavesOf(m) \ done : Qualifies(l) /\ Within(l) # {}}
           new == {Row(l) : l \in who}
<1>1. NewRebates(m, row, k) = new
  BY DEF NewRebates
<1>2. who \subseteq Leaves /\ \A l \in who : leave[l] # None /\ l \notin done
  BY DEF LeavesOf
<1>3. IsFiniteSet(who)
  BY <1>2, RowsAssumption, FS_Subset
<1>4. IsFiniteSet(new)
  <2> DEFINE f == [l \in who |-> Row(l)]
  <2> HIDE DEF Row, who
  <2>1. f \in Surjection(who, new)
    BY DEF Surjection
  <2>2. QED
    BY <1>3, <2>1, FS_Surjection
<1>5. ASSUME NEW l \in who
      PROVE  /\ Row(l) \in RebateRow
             /\ Cardinality(Within(l)) <= Cardinality(DaysAway(l) \cap DaysOfMonth(k))
  <2> DEFINE w == Within(l)
             a == DaysAway(l) \cap DaysOfMonth(k)
  <2>1. w \subseteq a /\ a \subseteq DaysOfMonth(k)
    OBVIOUS
  <2> HIDE DEF w, a
  <2>2. IsFiniteSet(a) /\ Cardinality(w) \in Nat
    BY <2>1, DaysCounted
  <2>3. Cardinality(w) <= Cardinality(a)
    BY <2>1, <2>2, FS_Subset
  <2>4. rebate_per_day * Cardinality(w) \in Nat
    BY <2>2, RatesAssumption
  <2>5. QED
    BY <1>2, <2>2, <2>3, <2>4 DEF w, a, RebateRow
<1>6. \A l \in who : Row(l).leave = l /\ Row(l).member = m /\ Row(l).month = k /\ Row(l).days = Cardinality(Within(l))
  OBVIOUS
<1>7. \A l \in who : \A q \in rebates : q.leave = l => q.month # k
  BY <1>2
<1> HIDE DEF who, Row, Within, done
<1>8. ASSUME NEW r \in new
      PROVE  /\ r \in RebateRow /\ r.member = m /\ r.month = k /\ leave[r.leave] # None
             /\ r.days <= Cardinality(DaysAway(r.leave) \cap DaysOfMonth(k))
             /\ \A q \in rebates : q.leave = r.leave => q.month # k
  <2>1. PICK l \in who : r = Row(l)
    OBVIOUS
  <2>2. r.leave = l /\ r.days = Cardinality(Within(l))
    BY <1>6, <2>1
  <2>3. QED
    BY <1>2, <1>5, <1>6, <1>7, <2>1, <2>2
<1>9. ASSUME NEW q \in new, NEW r \in new, q.leave = r.leave PROVE q = r
  BY <1>6, <1>9
<1> HIDE DEF new
<1>10. QED
  BY <1>1, <1>4, <1>8, <1>9

\* A bill that is worked out from the rows of this moment.
LEMMA WorkedSound ==
  ASSUME RebateInv, NEW m \in Members, NEW row \in MemberRow, NEW month \in Int
  PROVE  Sound(m, month, Worked(m, row, month)) /\ Current(Worked(m, row, month))
<1> DEFINE k == RebateMonth(month)
           old == OldRebates(m, k)
           new == NewRebates(m, row, k)
           enrolled == DaysOn(row) \cap DaysOfMonth(month)
           base == RoundHalfUp(monthly_charge * Cardinality(enrolled), MonthLength)
           given == Total(old \cup new)
           eaten == enrolled \ UNION {DaysAway(l) : l \in LeavesOf(m)}
<1>1. k \in Int
  BY DEF RebateMonth
<1>2. IsFiniteSet(rebates)
  BY FS_Subset DEF RebateInv
<1>3. /\ old \subseteq rebates /\ IsFiniteSet(old) /\ old \subseteq RebateRow
      /\ \A r \in old : r.member = m /\ r.month = k /\ leave[r.leave] # None /\ Fits(r)
  BY <1>2, FS_Subset DEF OldRebates, RebateInv
<1>4. /\ IsFiniteSet(new) /\ new \subseteq RebateRow
      /\ \A r \in new : /\ r.member = m /\ r.month = k /\ leave[r.leave] # None
                        /\ r.days <= Cardinality(DaysAway(r.leave) \cap DaysOfMonth(k))
                        /\ \A q \in rebates : q.leave = r.leave => q.month # k
      /\ \A q, r \in new : q.leave = r.leave => q = r
  BY <1>1, NewRebatesFit
<1>5. Cardinality(enrolled) \in Nat /\ Cardinality(eaten) \in Nat
  <2>1. enrolled \subseteq DaysOfMonth(month) /\ eaten \subseteq DaysOfMonth(month)
    OBVIOUS
  <2>2. QED
    BY <2>1, DaysCounted
<1>6. base \in Int /\ per_day_rate * Cardinality(eaten) \in Nat
  <2> DEFINE n == Cardinality(enrolled)
  <2>1. monthly_charge * n \in Nat
    BY <1>5, RatesAssumption
  <2>2. 2 * MonthLength \in Nat \ {0}
    BY CalendarAssumption
  <2>3. 2 * (monthly_charge * n) + MonthLength \in Int
    BY <2>1, CalendarAssumption
  <2>4. base \in Int
    BY <2>2, <2>3, Division DEF RoundHalfUp
  <2>5. QED
    BY <1>5, <2>4, RatesAssumption
<1>7. given \in Nat
  <2>1. IsFiniteSet(old \cup new) /\ \A r \in old \cup new : r.amount \in Nat
    BY <1>3, <1>4, FS_Union DEF RebateRow
  <2>2. QED
    BY <2>1, TotalGrows
<1> DEFINE w == Worked(m, row, month)
<1>8. \/ w = [base |-> base, amount |-> Max({base - given, 0}), old |-> old, new |-> new]
      \/ w = [base |-> per_day_rate * Cardinality(eaten),
              amount |-> per_day_rate * Cardinality(eaten), old |-> {}, new |-> {}]
  BY DEF Worked
<1> HIDE DEF w, old, new, base, eaten, enrolled
<1>9. CASE w = [base |-> base, amount |-> Max({base - given, 0}), old |-> old, new |-> new]
  <2>1. w.base = base /\ w.amount = Max({base - given, 0}) /\ w.old = old /\ w.new = new
    BY <1>9
  <2>2. Max({base - given, 0}) = IF base - given >= 0 THEN base - given ELSE 0
    <3> DEFINE x == base - given
    <3>1. x \in Int
      BY <1>6, <1>7
    <3> HIDE DEF x
    <3>2. Max({x, 0}) = IF x >= 0 THEN x ELSE 0
      BY <3>1, MaxOfTwo
    <3>3. QED
      BY <3>2 DEF x
  <2>3. w.amount \in Int /\ w.amount >= base - given
    BY <1>6, <1>7, <2>1, <2>2
  <2>4. Given(w) = old \cup new
    BY <2>1 DEF Given
  <2>5. IsFiniteSet(old \cup new) /\ old \cup new \subseteq RebateRow
    BY <1>3, <1>4, FS_Union
  <2>6. \A q, r \in old \cup new : q.leave = r.leave => q = r
    BY <1>3, <1>4 DEF RebateInv
  <2>7. Sound(m, month, w)
    <3>1. \A r \in Given(w) : r.member = m /\ r.month = RebateMonth(month)
      BY <1>3, <1>4, <2>4
    <3>2. w.amount >= w.base - Total(Given(w))
      BY <2>1, <2>3, <2>4
    <3>3. QED
      BY <1>6, <2>1, <2>3, <2>4, <2>5, <2>6, <3>1, <3>2 DEF Sound
  <2>8. Current(w)
    <3>1. \A r \in new : Fits(r)
      BY <1>4 DEF Fits
    <3>2. QED
      BY <1>3, <2>1, <2>4, <3>1 DEF Current
  <2>9. QED
    BY <2>7, <2>8 DEF w
<1>10. CASE w = [base |-> per_day_rate * Cardinality(eaten),
                 amount |-> per_day_rate * Cardinality(eaten), old |-> {}, new |-> {}]
  <2> DEFINE b == per_day_rate * Cardinality(eaten)
  <2> HIDE DEF b
  <2>1. w.base = b /\ w.amount = b /\ w.old = {} /\ w.new = {} /\ Given(w) = {} /\ b \in Nat
    BY <1>6, <1>10 DEF Given, b
  <2>2. w.amount >= w.base - Total({})
    BY <2>1, TotalNone
  <2>3. QED
    BY <2>1, <2>2, FS_EmptySet DEF Sound, Current, w
<1>11. QED
  BY <1>8, <1>9, <1>10

\* What any step may do under the bill of another request: time goes on, leave
\* keeps the days that are over, and a rebate goes only with its leave.
Moves ==
  /\ today \in Days /\ today' \in Days /\ today <= today' /\ Enrolments \subseteq Enrolments'
  /\ \A l \in Leaves : leave'[l] # None =>
       \/ l \in FreeLeave
       \/ /\ leave[l] # None
          /\ \A d \in Int : d < today => (d \in leave[l].from..leave[l].to <=> d \in leave'[l].from..leave'[l].to)
  /\ \A r \in rebates : r \in rebates' \/ leave'[r.leave] = None

\* A rebate of a month that is over keeps the days it was given for.
LEMMA FitsMoves ==
  ASSUME Moves, NEW r \in RebateRow, r.month < Month(today), r.leave \notin FreeLeave, Fits(r)
  PROVE  Fits(r)'
<1> SUFFICES ASSUME leave'[r.leave] # None
             PROVE  r.days <= Cardinality((leave'[r.leave].from..leave'[r.leave].to) \cap DaysOfMonth(r.month))
  BY DEF Fits, DaysAway
<1> DEFINE l == r.leave
<1>1. l \in Leaves /\ r.month \in Int
  BY DEF RebateRow
<1>2. leave[l] # None
      /\ \A d \in Int : d < today => (d \in leave[l].from..leave[l].to <=> d \in leave'[l].from..leave'[l].to)
  BY <1>1 DEF Moves
<1>3. \A d \in DaysOfMonth(r.month) : d \in Int /\ d < today
  BY <1>1, MonthOver, DaysAreInt DEF Moves
<1>4. (leave'[l].from..leave'[l].to) \cap DaysOfMonth(r.month) = (leave[l].from..leave[l].to) \cap DaysOfMonth(r.month)
  BY <1>2, <1>3
<1>5. QED
  BY <1>2, <1>4 DEF Fits, DaysAway

\* A bill that waits stays good while another request takes a step.
LEMMA BillKept ==
  ASSUME Moves, NEW p \in Requests, BillCarries(pc[p], seen[p]), pc'[p] = pc[p], seen'[p] = seen[p]
  PROVE  BillCarries(pc[p], seen[p])'
<1> DEFINE s == seen[p]
<1>1. Month(today) <= Month(today') /\ Month(today) \in Int /\ Month(today') \in Int
  BY MonthsFollow, MonthIsInt, DaysAreInt DEF Moves
<1>2. CASE pc[p] = "bill"
  <2>1. s \in BillSeen /\ s.member \in Enrolments' /\ s.month <= Month(today')
    BY <1>1, <1>2 DEF BillCarries, BillSeen, Moves
  <2>2. QED
    BY <1>2, <2>1 DEF BillCarries, Month
<1>3. CASE pc[p] = "post"
  <2>1. /\ s.member \in Enrolments /\ s.row \in MemberRow /\ s.month \in Int /\ s.month <= Month(today)
        /\ Sound(s.member, s.month, s.work) /\ Current(s.work)
    BY <1>3 DEF BillCarries
  <2>2. s.member \in Enrolments' /\ s.month <= Month(today')
    BY <1>1, <2>1 DEF Moves
  <2>3. \A r \in Given(s.work) : r \in RebateRow /\ r.month < Month(today)
    BY <1>1, <2>1 DEF Sound, RebateMonth
  <2>4. \A r \in Given(s.work) : r.leave \in Leaves /\ r.leave \notin FreeLeave
    <3>1. Held(p) = {r.leave : r \in Given(s.work)}
      BY <1>3 DEF Held, Given
    <3>2. QED
      BY <2>3, <3>1 DEF FreeLeave, RebateRow
  <2>5. \A r \in Given(s.work) : Fits(r)'
    BY <2>1, <2>3, <2>4, FitsMoves DEF Current
  <2>6. \A r \in s.work.old : r \in rebates' \/ leave'[r.leave] = None
    BY <2>1, <2>4 DEF Current, Moves, Given
  <2>7. Current(seen[p].work)'
    BY <2>5, <2>6 DEF Current
  <2>8. s.member \in Enrolments' /\ s.month <= Month(today)' /\ seen'[p] = s
    BY <2>2 DEF Month
  <2>9. QED
    BY <1>3, <2>1, <2>7, <2>8 DEF BillCarries
<1>4. QED
  BY <1>2, <1>3 DEF BillCarries

\* The register after a step that adds no rebate.
LEMMA RebatesKept ==
  ASSUME RebateInv, Moves, rebates' \subseteq rebates, rebates' \cup lost' = rebates \cup lost,
         \A r \in rebates' : leave'[r.leave] # None
  PROVE  RebateInv'
<1>1. Month(today) <= Month(today') /\ Month(today) \in Int /\ Month(today') \in Int
  BY MonthsFollow, MonthIsInt, DaysAreInt DEF Moves
<1>2. ASSUME NEW r \in rebates'
      PROVE  r.member \in Enrolments' /\ r.month < Month(today') /\ leave'[r.leave] # None /\ Fits(r)'
  <2>1. r \in rebates /\ r \in RebateRow /\ r.month \in Int /\ r.member \in Enrolments /\ r.month < Month(today)
        /\ leave[r.leave] # None /\ Fits(r)
    BY <1>2 DEF RebateInv, RebateRow
  <2>2. r.leave \notin FreeLeave
    BY <2>1 DEF FreeLeave
  <2>3. Fits(r)'
    BY <2>1, <2>2, FitsMoves
  <2>4. QED
    BY <1>1, <1>2, <2>1, <2>3 DEF Moves
<1>3. \A q, r \in rebates' : q.leave = r.leave /\ q.month = r.month => q = r
  BY DEF RebateInv
<1>4. IsFiniteSet(rebates' \cup lost') /\ rebates' \cup lost' \subseteq RebateRow
  BY DEF RebateInv
<1>5. QED
  BY <1>2, <1>3, <1>4 DEF RebateInv, Month

-----------------------------------------------------------------------------
\* What a register says of a member and a month.
Noted(register, m, k) == {r \in register : r.member = m /\ r.month = k}

\* As the register grows, a bill stays within what it says.
LEMMA StillReduced ==
  ASSUME NEW A, NEW B, A \subseteq B, IsFiniteSet(B), B \subseteq RebateRow,
         NEW m, NEW k, NEW a \in Int, NEW b \in Int, a >= b - Total(Noted(A, m, k))
  PROVE  a >= b - Total(Noted(B, m, k))
<1> DEFINE T == Noted(A, m, k)
           S == Noted(B, m, k)
<1>1. T \in SUBSET S
  BY DEF Noted
<1>2. IsFiniteSet(S) /\ \A r \in S : r.amount \in Nat
  BY FS_Subset DEF Noted, RebateRow
<1> HIDE DEF S, T
<1>3. Total(T) \in Nat /\ Total(S) \in Nat /\ Total(T) <= Total(S)
  BY <1>1, <1>2, TotalGrows
<1>4. a >= b - Total(T)
  BY DEF T
<1>5. a >= b - Total(S)
  BY <1>3, <1>4
<1>6. QED
  BY <1>5 DEF S

\* The charges after a step that posts none: some may be paid or given up.
LEMMA ChargesKept ==
  ASSUME ChargeInv, RebateInv', rebates \cup lost \subseteq rebates' \cup lost',
         charges' \in Seq(ChargeRow), DOMAIN charges' = DOMAIN charges,
         \A c \in DOMAIN charges :
           /\ charges'[c].member = charges[c].member /\ charges'[c].month = charges[c].month
           /\ charges'[c].base = charges[c].base /\ charges'[c].amount = charges[c].amount
           /\ charges'[c].live => charges[c].live
  PROVE  ChargeInv'
<1>1. \A c, d \in DOMAIN charges' :
        charges'[c].live /\ charges'[d].live /\ charges'[c].member = charges'[d].member
          /\ charges'[c].month = charges'[d].month => c = d
  BY DEF ChargeInv
<1>2. ASSUME NEW c \in DOMAIN charges', charges'[c].live
      PROVE  charges'[c].amount >= charges'[c].base -
               Total(Noted(rebates' \cup lost', charges'[c].member, RebateMonth(charges'[c].month)))
  <2> DEFINE a == charges[c].amount
             b == charges[c].base
             m == charges[c].member
             k == RebateMonth(charges[c].month)
  <2>1. c \in DOMAIN charges /\ charges[c].live /\ charges[c] \in ChargeRow
    BY <1>2 DEF ChargeInv
  <2>2. a \in Int /\ b \in Int
    BY <2>1 DEF ChargeRow
  <2>3. a >= b - Total(Noted(rebates \cup lost, m, k))
    BY <2>1 DEF ChargeInv, ReducedByRebates, Noted
  <2>4. charges'[c].amount = a /\ charges'[c].base = b /\ charges'[c].member = m /\ RebateMonth(charges'[c].month) = k
    BY <2>1
  <2> HIDE DEF a, b, m, k
  <2>5. IsFiniteSet(rebates' \cup lost') /\ rebates' \cup lost' \subseteq RebateRow
    BY DEF RebateInv
  <2> DEFINE A == rebates \cup lost
             B == rebates' \cup lost'
  <2> HIDE DEF A, B
  <2>6. a >= b - Total(Noted(B, m, k))
    <3>1. A \subseteq B /\ IsFiniteSet(B) /\ B \subseteq RebateRow /\ a >= b - Total(Noted(A, m, k))
      BY <2>3, <2>5 DEF A, B
    <3>2. QED
      BY <2>2, <3>1, StillReduced
  <2>7. QED
    BY <2>4, <2>6 DEF B
<1>3. ReducedByRebates'
  BY <1>2 DEF ReducedByRebates, Noted
<1>4. QED
  BY <1>1, <1>3 DEF ChargeInv

\* The register after a bill: its rebates are in it, each leave once a month.
LEMMA RegisteredInv ==
  ASSUME RebateInv, NEW m \in Enrolments, NEW month \in Int, NEW work,
         Sound(m, month, work), Current(work),
         \A r \in Given(work) : leave[r.leave] # None,
         \A r \in work.new, q \in rebates : q.leave # r.leave \/ q.month # r.month,
         month <= Month(today) \/ Given(work) = {},
         today \in Days, rebates' = rebates \cup work.old \cup work.new,
         Enrolments \subseteq Enrolments', UNCHANGED <<today, leave, lost>>
  PROVE  RebateInv'
<1>1. rebates' = rebates \cup Given(work) /\ rebates' \cup lost' = (rebates \cup lost) \cup Given(work)
  BY DEF Given
<1>2. IsFiniteSet(rebates' \cup lost') /\ rebates' \cup lost' \subseteq RebateRow
  BY <1>1, FS_Union DEF RebateInv, Sound
<1>3. Month(today) \in Int
  BY MonthIsInt, DaysAreInt
<1>4. ASSUME NEW r \in rebates'
      PROVE  r.member \in Enrolments' /\ r.month < Month(today) /\ leave[r.leave] # None /\ Fits(r)
  <2>1. CASE r \in rebates
    BY <2>1 DEF RebateInv
  <2>2. CASE r \in Given(work)
    <3>1. r.member = m /\ r.month = month - 1 /\ Fits(r)
      BY <2>2 DEF Sound, Current, RebateMonth
    <3>2. month <= Month(today)
      BY <2>2
    <3>3. QED
      BY <1>3, <2>2, <3>1, <3>2
  <2>3. QED
    BY <1>1, <1>4, <2>1, <2>2
<1>5. ASSUME NEW q \in rebates', NEW r \in rebates', q.leave = r.leave, q.month = r.month PROVE q = r
  <2>1. \A x \in work.old : x \in rebates
    BY DEF Current, Given
  <2>2. \A x \in rebates' : x \in rebates \/ x \in work.new
    BY <2>1
  <2>3. CASE q \in rebates /\ r \in rebates
    BY <1>5, <2>3 DEF RebateInv
  <2>4. CASE q \in work.new /\ r \in work.new
    BY <1>5, <2>4 DEF Sound, Given
  <2>5. QED
    BY <1>5, <2>2, <2>3, <2>4
<1>6. \A r \in rebates' : r.member \in Enrolments' /\ r.month < Month(today)' /\ leave'[r.leave] # None /\ Fits(r)'
  BY <1>4 DEF Fits, DaysAway, Month
<1>7. QED
  BY <1>2, <1>5, <1>6 DEF RebateInv

\* The day a charge is due is a day.
LEMMA DueIsInt ==
  ASSUME NEW row \in MemberRow, NEW month \in Int
  PROVE  Due(row, month) \in Int
<1> DEFINE a == month * MonthLength + DUE_DAY
           b == row.start
<1>1. a \in Int /\ b \in Int /\ (month + 1) * MonthLength + DUE_DAY \in Int
  <2>1. MonthLength \in Int /\ DUE_DAY \in Int
    BY CalendarAssumption
  <2>2. b \in Days
    BY DEF MemberRow
  <2>3. month * MonthLength \in Int /\ (month + 1) * MonthLength \in Int
    BY <2>1
  <2>4. a \in Int /\ (month + 1) * MonthLength + DUE_DAY \in Int
    BY <2>1, <2>3
  <2>5. b \in Int
    BY <2>2, DaysAreInt
  <2>6. QED
    BY <2>4, <2>5
<1> HIDE DEF a, b
<1>2. Max({a, b}) \in Int
  BY <1>1, MaxOfTwo
<1>3. QED
  BY <1>1, <1>2 DEF Due, a, b

\* The charges after a bill: one live charge of the member and the month, and
\* reduced by no more than the rebates that were saved with it.
LEMMA PostedInv ==
  ASSUME ChargeInv, RebateInv', rebates \cup lost \subseteq rebates' \cup lost',
         NEW m \in Members, NEW row \in MemberRow, NEW month \in Int, NEW work,
         Sound(m, month, work), Given(work) \subseteq rebates', PostBill(m, row, month, work)
  PROVE  ChargeInv'
<1> DEFINE new == [member |-> m, month |-> month, base |-> work.base, amount |-> work.amount,
                   due |-> Due(row, month), paid |-> FALSE, live |-> TRUE]
           B == rebates' \cup lost'
<1>1. \/ charges' = charges
      \/ charges' = Append(charges, new) /\ MessCharge(m, month) = {}
  BY DEF PostBill, Posted
<1>2. CASE charges' = charges
  BY <1>2, ChargesKept DEF ChargeInv
<1>3. CASE charges' = Append(charges, new) /\ MessCharge(m, month) = {}
  <2>1. new \in ChargeRow /\ charges \in Seq(ChargeRow)
    BY DueIsInt DEF ChargeRow, Sound, ChargeInv
  <2>2. new.live /\ new.member = m /\ new.month = month /\ new.base = work.base /\ new.amount = work.amount
    OBVIOUS
  <2> HIDE DEF new
  <2>3. /\ charges' \in Seq(ChargeRow) /\ Len(charges') = Len(charges) + 1
        /\ DOMAIN charges = 1..Len(charges) /\ DOMAIN charges' = 1..Len(charges')
        /\ \A c \in DOMAIN charges : charges'[c] = charges[c]
        /\ charges'[Len(charges) + 1] = new /\ Len(charges) \in Nat
    BY <1>3, <2>1
  <2>4. \A c \in DOMAIN charges' : c \in DOMAIN charges \/ c = Len(charges) + 1
    BY <2>3
  <2>5. \A c \in DOMAIN charges : charges[c].live => charges[c].member # m \/ charges[c].month # month
    BY <1>3 DEF MessCharge
  <2>6. ASSUME NEW c \in DOMAIN charges', NEW d \in DOMAIN charges', charges'[c].live, charges'[d].live,
               charges'[c].member = charges'[d].member, charges'[c].month = charges'[d].month
        PROVE  c = d
    <3>1. CASE c \in DOMAIN charges /\ d \in DOMAIN charges
      BY <2>3, <2>6, <3>1 DEF ChargeInv
    <3>2. CASE c \in DOMAIN charges /\ d = Len(charges) + 1
      BY <2>2, <2>3, <2>5, <2>6, <3>2
    <3>3. CASE d \in DOMAIN charges /\ c = Len(charges) + 1
      BY <2>2, <2>3, <2>5, <2>6, <3>3
    <3>4. QED
      BY <2>4, <3>1, <3>2, <3>3
  <2>7. IsFiniteSet(B) /\ B \subseteq RebateRow /\ rebates \cup lost \subseteq B
    BY DEF RebateInv
  <2>8. ASSUME NEW c \in DOMAIN charges', charges'[c].live
        PROVE  charges'[c].amount >= charges'[c].base -
                 Total(Noted(B, charges'[c].member, RebateMonth(charges'[c].month)))
    <3>1. CASE c \in DOMAIN charges
      <4> DEFINE A == rebates \cup lost
                 a == charges[c].amount
                 b == charges[c].base
                 x == charges[c].member
                 k == RebateMonth(charges[c].month)
      <4>1. a \in Int /\ b \in Int
        <5>1. charges[c] \in ChargeRow
          BY <2>1, <2>3, <3>1
        <5>2. QED
          BY <5>1 DEF ChargeRow
      <4>2. charges[c].live
        BY <2>3, <2>8, <3>1
      <4>3. a >= b - Total(Noted(A, x, k))
        BY <3>1, <4>2 DEF ChargeInv, ReducedByRebates, Noted
      <4>4. charges'[c].amount = a /\ charges'[c].base = b /\ charges'[c].member = x
            /\ RebateMonth(charges'[c].month) = k /\ A \subseteq B
        BY <2>3, <2>7, <3>1
      <4> HIDE DEF A, a, b, x, k, B
      <4>5. a >= b - Total(Noted(B, x, k))
        BY <2>7, <4>1, <4>3, <4>4, StillReduced
      <4>6. QED
        BY <4>4, <4>5
    <3>2. CASE c = Len(charges) + 1
      <4> DEFINE T == Noted(B, m, RebateMonth(month))
                 G == Given(work)
      <4>1. G \subseteq T
        BY <2>7 DEF Sound, Noted
      <4>2. IsFiniteSet(T) /\ \A r \in T : r.amount \in Nat
        BY <2>7, FS_Subset DEF Noted, RebateRow
      <4>3. work.amount >= work.base - Total(G) /\ work.amount \in Int /\ work.base \in Int
        BY DEF Sound
      <4> HIDE DEF T, G, B
      <4>4. Total(G) \in Nat /\ Total(T) \in Nat /\ Total(G) <= Total(T)
        BY <4>1, <4>2, TotalGrows
      <4>5. work.amount >= work.base - Total(T)
        BY <4>3, <4>4
      <4>6. QED
        BY <2>2, <2>3, <3>2, <4>5 DEF T
    <3>3. QED
      BY <2>4, <3>1, <3>2
  <2>9. ReducedByRebates'
    BY <2>8 DEF ReducedByRebates, Noted
  <2>10. QED
    BY <2>3, <2>6, <2>9 DEF ChargeInv
<1>4. QED
  BY <1>1, <1>2, <1>3

\* A step that leaves the tables alone is one a waiting bill survives.
LEMMA StillMoves ==
  ASSUME Shape, UNCHANGED <<today, member, leave, rebates>>
  PROVE  Moves
  BY DaysAreInt DEF Shape, Tables, Moves, Enrolments

\* A request that goes on; it takes up a bill only from rows of this moment.
LEMMA WorkGoes ==
  ASSUME Shape, WorkInv, Moves, NEW p \in Requests, NEW step, NEW what, Goes(p, step, what),
         step \in {"bill", "post"} => BillCarries(step, what) /\ UNCHANGED <<today, member, leave, rebates>>
  PROVE  WorkInv'
<1>1. /\ \A q \in Requests : q # p => pc'[q] = pc[q] /\ seen'[q] = seen[q]
      /\ pc'[p] = step /\ seen'[p] = what
  BY DEF Goes, Shape, Carried
<1>2. ASSUME NEW q \in Requests, q # p PROVE BillCarries(pc[q], seen[q])'
  BY <1>1, <1>2, BillKept DEF WorkInv
<1>3. BillCarries(step, what)'
  <2>1. CASE step \in {"bill", "post"}
    BY <2>1 DEF BillCarries, Current, Fits, DaysAway, Enrolments, Month
  <2>2. CASE step \notin {"bill", "post"}
    BY <2>2 DEF BillCarries
  <2>3. QED
    BY <2>1, <2>2
<1>4. BillCarries(pc[p], seen[p])'
  BY <1>1, <1>3 DEF BillCarries
<1>5. QED
  BY <1>2, <1>4 DEF WorkInv

\* A request that is answered.
LEMMA WorkDone ==
  ASSUME Shape, WorkInv, Moves, NEW p \in Requests, Done(p)
  PROVE  WorkInv'
  BY WorkGoes DEF Done, Continue

\* A step of no request.
LEMMA WorkOthers ==
  ASSUME WorkInv, Moves, UNCHANGED <<pc, seen>>
  PROVE  WorkInv'
<1>1. ASSUME NEW q \in Requests PROVE BillCarries(pc[q], seen[q])'
  BY BillKept DEF WorkInv
<1>2. QED
  BY <1>1 DEF WorkInv

\* Steps that leave the register and the charges alone.
LEMMA BillQuiet ==
  ASSUME BillInv, Moves, UNCHANGED <<rebates, lost, charges>>, \A r \in rebates : leave'[r.leave] # None, WorkInv'
  PROVE  BillInv'
<1>1. RebateInv'
  BY RebatesKept DEF BillInv
<1>2. ChargeInv'
  BY <1>1, ChargesKept DEF BillInv, ChargeInv
<1>3. QED
  BY <1>1, <1>2 DEF BillInv

\* Steps that leave all tables of the mess alone.
LEMMA MessUntouched ==
  ASSUME Shape, BillInv, UNCHANGED <<today, member, leave, rebates, lost, charges>>, Moves => WorkInv'
  PROVE  BillInv'
<1>1. Moves /\ WorkInv'
  BY StillMoves
<1>2. \A r \in rebates : leave'[r.leave] # None
  BY DEF BillInv, RebateInv
<1>3. QED
  BY <1>1, <1>2, BillQuiet

\* A leave that is cut short or new, with the days that are over as they were.
LEMMA LeaveMoved ==
  ASSUME Shape, BillInv, UNCHANGED <<today, member, rebates, lost, charges>>, Moves => WorkInv',
         \A l \in Leaves : \/ leave'[l] = leave[l]
                           \/ leave[l] = None /\ l \in FreeLeave
                           \/ /\ leave[l] # None /\ leave'[l] # None
                              /\ \A d \in Int : d < today => (d \in leave[l].from..leave[l].to <=> d \in leave'[l].from..leave'[l].to)
  PROVE  BillInv'
<1>1. Moves
  BY DaysAreInt DEF Shape, Tables, Moves, Enrolments
<1>2. \A r \in rebates : leave'[r.leave] # None
  BY DEF BillInv, RebateInv, RebateRow
<1>3. QED
  BY <1>1, <1>2, BillQuiet

\* Leave that is deleted takes its rebates along.
LEMMA DeleteBill ==
  ASSUME Shape, BillInv, NEW gone, Delete(gone), UNCHANGED <<today, member, charges>>, NEW p \in Requests, Done(p)
  PROVE  BillInv'
<1>1. /\ rebates' \subseteq rebates /\ rebates' \cup lost' = rebates \cup lost
      /\ \A r \in rebates : r \in rebates' <=> r.leave \notin gone
      /\ \A l \in Leaves : leave'[l] = IF l \in gone THEN None ELSE leave[l]
  BY DEF Delete
<1>2. \A r \in rebates : r.leave \in Leaves /\ leave[r.leave] # None
  BY DEF BillInv, RebateInv, RebateRow
<1>3. Moves
  BY <1>1, <1>2, DaysAreInt DEF Shape, Tables, Moves, Enrolments
<1>4. RebateInv'
  BY <1>1, <1>2, <1>3, RebatesKept DEF BillInv
<1>5. ChargeInv'
  BY <1>1, <1>4, ChargesKept DEF BillInv, ChargeInv
<1>6. WorkInv'
  BY <1>3, WorkDone DEF BillInv
<1>7. QED
  BY <1>4, <1>5, <1>6 DEF BillInv

\* The job reads a member and picks the month.
LEMMA BillStartBill ==
  ASSUME Shape, BillInv, NEW p \in Requests, NEW m \in Members, BillStart(p, m)
  PROVE  BillInv'
<1> DEFINE row == member[m]
           month == IF row.plan = "monthly" THEN Month(today) ELSE Month(today) - 1
           what == [member |-> m, row |-> row, month |-> month]
<1>1. m \in Enrolments /\ Goes(p, "bill", what) /\ UNCHANGED messVars
  BY DEF BillStart, Begin
<1>2. Month(today) \in Int
  BY MonthIsInt, DaysAreInt DEF Shape, Tables
<1>3. row \in MemberRow /\ month \in Int /\ month <= Month(today)
  BY <1>1, <1>2 DEF Shape, Tables, Enrolments
<1> HIDE DEF row, month
<1>4. BillCarries("bill", what)
  BY <1>1, <1>3 DEF BillCarries, BillSeen
<1> HIDE DEF what
<1>5. Moves => WorkInv'
  BY <1>1, <1>4, WorkGoes DEF messVars, BillInv
<1>6. QED
  BY <1>1, <1>5, MessUntouched DEF messVars

\* The bill is worked out from the rows of this moment.
LEMMA BillReadBill ==
  ASSUME Shape, BillInv, NEW p \in Requests, BillRead(p)
  PROVE  BillInv'
<1> DEFINE s == seen[p]
           what == [member |-> s.member, row |-> s.row, month |-> s.month, work |-> Worked(s.member, s.row, s.month)]
<1>1. pc[p] = "bill" /\ UNCHANGED messVars /\ (Done(p) \/ Goes(p, "post", what))
  BY DEF BillRead
<1>2. s \in BillSeen /\ s.member \in Enrolments /\ s.month <= Month(today)
  BY <1>1 DEF BillInv, WorkInv, BillCarries
<1>3. s.member \in Members /\ s.row \in MemberRow /\ s.month \in Int
  BY <1>2 DEF BillSeen
<1>4. Sound(s.member, s.month, Worked(s.member, s.row, s.month)) /\ Current(Worked(s.member, s.row, s.month))
  BY <1>3, WorkedSound DEF BillInv
<1>5. BillCarries("post", what)
  BY <1>2, <1>3, <1>4 DEF BillCarries
<1> HIDE DEF what
<1>6. Moves => WorkInv'
  BY <1>1, <1>5, WorkGoes, WorkDone DEF messVars, BillInv
<1>7. QED
  BY <1>1, <1>6, MessUntouched DEF messVars

\* The bill is written, or undone by a constraint.
LEMMA BillPostBill ==
  ASSUME Shape, BillInv, NEW p \in Requests, BillPost(p)
  PROVE  BillInv'
<1> DEFINE s == seen[p]
           m == s.member
           month == s.month
           work == s.work
<1>1. /\ pc[p] = "post" /\ Done(p) /\ UNCHANGED <<today, member, leave, lost, guests>>
      /\ \/ StillValid(work) /\ PostBill(m, s.row, month, work)
         \/ UNCHANGED <<charges, rebates>>
  BY DEF BillPost
<1>2. /\ m \in Enrolments /\ s.row \in MemberRow /\ month \in Int /\ month <= Month(today)
      /\ Sound(m, month, work) /\ Current(work)
  BY <1>1 DEF BillInv, WorkInv, BillCarries
<1>3. CASE UNCHANGED <<charges, rebates>>
  BY <1>1, <1>3, MessUntouched, WorkDone DEF BillInv
<1>4. CASE StillValid(work) /\ PostBill(m, s.row, month, work)
  <2>1. rebates' = rebates \cup work.old \cup work.new
    BY <1>4 DEF PostBill, Registered
  <2>2. /\ \A r \in Given(work) : leave[r.leave] # None
        /\ \A r \in work.new, q \in rebates : q.leave # r.leave \/ q.month # r.month
    BY <1>4 DEF StillValid, Given
  <2>3. Enrolments \subseteq Enrolments' /\ today \in Days /\ m \in Members
    BY <1>1, <1>2 DEF Enrolments, Shape, Tables
  <2>4. /\ rebates \cup lost \subseteq rebates' \cup lost' /\ Given(work) \subseteq rebates'
        /\ \A r \in rebates : r \in rebates'
    BY <1>1, <2>1 DEF Given
  <2>5. UNCHANGED <<today, leave, lost>> /\ RebateInv /\ ChargeInv /\ WorkInv
    BY <1>1 DEF BillInv
  <2>6. Moves
    BY <1>1, <2>4, DaysAreInt DEF Shape, Tables, Moves, Enrolments
  <2>7. WorkInv'
    BY <1>1, <2>5, <2>6, WorkDone
  <2> HIDE DEF m, month, work
  <2>8. RebateInv'
    BY <1>2, <2>1, <2>2, <2>3, <2>5, RegisteredInv
  <2>9. ChargeInv'
    BY <1>2, <1>4, <2>3, <2>4, <2>5, <2>8, PostedInv
  <2>10. QED
    BY <2>7, <2>8, <2>9 DEF BillInv
<1>5. QED
  BY <1>1, <1>3, <1>4

\* A student who is enrolled has no rebate yet.
LEMMA EnrolWriteBill ==
  ASSUME Shape, RowsStay, BillInv, NEW p \in Requests, EnrolWrite(p)
  PROVE  BillInv'
<1> DEFINE m == CHOOSE m \in Members : m \notin Enrolments
           row == seen[p]
           month == Month(row.start)
           work == Worked(m, row, month)
<1>1. m \in Members /\ m \notin Enrolments
  <2>1. \E x \in Members : x \notin Enrolments
    BY DEF EnrolWrite, Enrolments
  <2>2. QED
    BY <2>1
<1>2. row \in MemberRow /\ row.start \in Int
  <2>1. row \in NewRow
    BY DEF EnrolWrite, Shape, Carried, Carries
  <2>2. QED
    BY <2>1, DaysAreInt DEF NewRow, MemberRow
<1>3. month \in Int
  BY <1>2, MonthIsInt
<1>4. /\ Done(p) /\ UNCHANGED <<today, leave, lost, guests>>
      /\ \/ UNCHANGED <<charges, rebates>>
         \/ PostBill(m, row, month, work)
  BY DEF EnrolWrite
<1>5. Sound(m, month, work)
  <2> HIDE DEF m, row, month
  <2>1. QED
    BY <1>1, <1>2, <1>3, WorkedSound DEF BillInv
<1>6. Given(work) = {}
  <2>1. \A k : OldRebates(m, k) = {}
    BY <1>1 DEF OldRebates, BillInv, RebateInv
  <2>2. LeavesOf(m) = {}
    BY <1>1 DEF LeavesOf, Shape, LeaveInv, Leads
  <2>3. \A k : NewRebates(m, row, k) = {}
    BY <2>2 DEF NewRebates
  <2> HIDE DEF m, row, month
  <2>4. QED
    BY <2>1, <2>3 DEF Given, Worked
<1> HIDE DEF m, row, month, work
<1>7. rebates' = rebates
  BY <1>4, <1>6 DEF PostBill, Registered, Given
<1>8. Moves
  BY <1>4, <1>7, DaysAreInt DEF Shape, Tables, Moves, RowsStay
<1>9. RebateInv'
  BY <1>4, <1>7, <1>8, RebatesKept DEF BillInv, RebateInv
<1>10. WorkInv'
  BY <1>4, <1>8, WorkDone DEF BillInv
<1>11. ChargeInv'
  <2>1. CASE UNCHANGED <<charges, rebates>>
    BY <1>4, <1>9, <2>1, ChargesKept DEF BillInv, ChargeInv
  <2>2. CASE PostBill(m, row, month, work)
    <3>1. rebates \cup lost \subseteq rebates' \cup lost' /\ Given(work) \subseteq rebates' /\ ChargeInv
      BY <1>4, <1>6, <1>7 DEF BillInv
    <3>2. QED
      BY <1>1, <1>2, <1>3, <1>5, <1>9, <2>2, <3>1, PostedInv
  <2>3. QED
    BY <1>4, <2>1, <2>2
<1>12. QED
  BY <1>9, <1>10, <1>11 DEF BillInv

\* Charges that are paid or given up stay what they were.
LEMMA ChargesEdited ==
  ASSUME Shape, Enrolments \subseteq Enrolments', BillInv, UNCHANGED <<today, leave, rebates, lost>>, Moves => WorkInv',
         charges' \in Seq(ChargeRow), DOMAIN charges' = DOMAIN charges,
         \A c \in DOMAIN charges :
           /\ charges'[c].member = charges[c].member /\ charges'[c].month = charges[c].month
           /\ charges'[c].base = charges[c].base /\ charges'[c].amount = charges[c].amount
           /\ charges'[c].live => charges[c].live
  PROVE  BillInv'
<1>1. Moves
  BY DaysAreInt DEF Shape, Tables, Moves
<1>2. RebateInv'
  BY <1>1, RebatesKept DEF BillInv, RebateInv
<1>3. ChargeInv'
  BY <1>2, ChargesKept DEF BillInv
<1>4. QED
  BY <1>1, <1>2, <1>3 DEF BillInv

\* Ending a membership gives up charges that are due later.
LEMMA EndWriteBill ==
  ASSUME Shape, RowsStay, BillInv, NEW p \in Requests, EndWrite(p)
  PROVE  BillInv'
<1> DEFINE m == seen[p].member
           on == seen[p].on
<1>1. charges' = [c \in DOMAIN charges |->
                      IF charges[c].member = m /\ ~charges[c].paid /\ Month(charges[c].due) > Month(on)
                      THEN [charges[c] EXCEPT !.live = FALSE] ELSE charges[c]]
  BY DEF EndWrite
<1>2. Done(p) /\ UNCHANGED <<today, leave, rebates, lost, guests>>
  BY DEF EndWrite
<1>3. ASSUME NEW c \in DOMAIN charges
      PROVE  /\ charges'[c] \in ChargeRow
             /\ charges'[c].member = charges[c].member /\ charges'[c].month = charges[c].month
             /\ charges'[c].base = charges[c].base /\ charges'[c].amount = charges[c].amount
             /\ charges'[c].live => charges[c].live
  <2>1. charges[c] \in ChargeRow
    BY DEF BillInv, ChargeInv
  <2>2. charges'[c] = charges[c] \/ charges'[c] = [charges[c] EXCEPT !.live = FALSE]
    BY <1>1
  <2>3. QED
    BY <2>1, <2>2 DEF ChargeRow
<1>4. charges' \in Seq(ChargeRow) /\ DOMAIN charges' = DOMAIN charges
  <2>1. DOMAIN charges = 1..Len(charges) /\ Len(charges) \in Nat
    BY DEF BillInv, ChargeInv
  <2>2. DOMAIN charges' = DOMAIN charges /\ charges' \in [1..Len(charges) -> ChargeRow]
    BY <1>1, <1>3, <2>1
  <2>3. QED
    BY <2>1, <2>2
<1>5. QED
  BY <1>2, <1>3, <1>4, ChargesEdited, WorkDone DEF BillInv, RowsStay

\* The counter takes money for a charge.
LEMMA CollectBill ==
  ASSUME Shape, BillInv, NEW c \in DOMAIN charges, Collect(c)
  PROVE  BillInv'
<1>1. charges' = [charges EXCEPT ![c].paid = TRUE]
      /\ UNCHANGED <<today, member, leave, rebates, lost, guests, pc, seen>>
  BY DEF Collect
<1>2. charges \in Seq(ChargeRow) /\ charges[c] \in ChargeRow
  BY DEF BillInv, ChargeInv
<1> DEFINE row == [charges[c] EXCEPT !.paid = TRUE]
<1>3. row \in ChargeRow /\ row.member = charges[c].member /\ row.month = charges[c].month
      /\ row.base = charges[c].base /\ row.amount = charges[c].amount /\ row.live = charges[c].live
  BY <1>2 DEF ChargeRow
<1>4. charges' = [charges EXCEPT ![c] = row]
  BY <1>1
<1> HIDE DEF row
<1>5. /\ charges' \in Seq(ChargeRow) /\ DOMAIN charges' = DOMAIN charges /\ charges'[c] = row
      /\ \A d \in DOMAIN charges : d # c => charges'[d] = charges[d]
  BY <1>2, <1>3, <1>4
<1>6. \A d \in DOMAIN charges :
        /\ charges'[d].member = charges[d].member /\ charges'[d].month = charges[d].month
        /\ charges'[d].base = charges[d].base /\ charges'[d].amount = charges[d].amount
        /\ charges'[d].live => charges[d].live
  BY <1>3, <1>5
<1>7. QED
  BY <1>1, <1>5, <1>6, ChargesEdited, WorkOthers DEF BillInv, Enrolments

\* A request that only reads.
LEMMA ReadersBill ==
  ASSUME Shape, BillInv, NEW p \in Requests,
         \/ \E plan \in {"monthly", "per_day"}, start \in Dates : EnrolCheck(p, plan, start)
         \/ \E m \in Members, on \in Dates : EndRead(p, m, on)
         \/ \E m \in Members, t \in Trips : LeaveCheck(p, m, t[1], t[2])
         \/ \E l \in Leaves : DropCheck(p, l)
         \/ \E t \in Trips : RequestCheck(p, t[1], t[2])
         \/ \E o \in Outpasses : CancelRead(p, o)
         \/ \E v \in Visits, what \in {"approve", "refuse", "leave"} : VisitRead(p, v, what)
  PROVE  BillInv'
<1>1. UNCHANGED messVars
  BY DEF EnrolCheck, EndRead, LeaveCheck, DropCheck, RequestCheck, CancelRead, VisitRead
<1>2. \E step \in {"enrol", "end", "leave", "drop", "request", "cancel", "visit"} : \E what : Goes(p, step, what)
  BY DEF EnrolCheck, EndRead, LeaveCheck, DropCheck, RequestCheck, CancelRead, VisitRead, Begin
<1>3. PICK step \in {"enrol", "end", "leave", "drop", "request", "cancel", "visit"} : \E what : Goes(p, step, what)
  BY <1>2
<1>4. step \notin {"bill", "post"}
  OBVIOUS
<1>5. Moves => WorkInv'
  BY <1>3, <1>4, WorkGoes DEF BillInv
<1>6. QED
  BY <1>1, <1>5, MessUntouched DEF messVars

\* A request or a passage that leaves the mess alone.
LEMMA ApartBill ==
  ASSUME Shape, BillInv, UNCHANGED <<today, member, leave, rebates, lost, charges>>,
         (\E p \in Requests : Done(p)) \/ UNCHANGED <<pc, seen>>
  PROVE  BillInv'
  BY MessUntouched, WorkDone, WorkOthers DEF BillInv

\* A new row of leave goes where nothing refers to.
LEMMA AwayBill ==
  ASSUME Shape, BillInv, UNCHANGED <<today, member, rebates, lost, charges>>,
         NEW m, NEW from, NEW to, NEW o, Away(m, from, to, o),
         (\E p \in Requests : Done(p)) \/ UNCHANGED <<pc, seen>>
  PROVE  BillInv'
<1>1. \A l \in Leaves : leave'[l] = leave[l] \/ (leave[l] = None /\ l \in FreeLeave)
  <2> DEFINE l == CHOOSE l \in FreeLeave : TRUE
  <2>1. l \in FreeLeave /\ leave' = [leave EXCEPT ![l] = [member |-> m, from |-> from, to |-> to, outpass |-> o]]
    BY DEF Away
  <2> HIDE DEF l
  <2>2. QED
    BY <2>1 DEF FreeLeave, Shape, Tables
<1>2. Moves => WorkInv'
  BY WorkDone, WorkOthers DEF BillInv
<1>3. QED
  BY <1>1, <1>2, LeaveMoved

\* Coming in early cuts leave on this day at the earliest, so the days that
\* rebates were given for stay.
LEMMA GateInBill ==
  ASSUME Shape, BillInv, NEW o \in Outpasses, NEW late \in BOOLEAN, gate_in(o, late)
  PROVE  BillInv'
<1>1. /\ UNCHANGED <<today, member, rebates, lost, charges, guests, pc, seen>>
      /\ leave' = [l \in Leaves |-> IF l \in LeaveFor(o) /\ today < leave[l].to THEN UntilToday(l) ELSE leave[l]]
  BY DEF gate_in
<1>2. ASSUME NEW l \in Leaves, l \in LeaveFor(o), today < leave[l].to
      PROVE  /\ leave[l] # None /\ leave'[l] # None
             /\ \A d \in Int : d < today => (d \in leave[l].from..leave[l].to <=> d \in leave'[l].from..leave'[l].to)
  <2>1. leave[l] # None /\ leave'[l] = UntilToday(l)
    BY <1>1, <1>2 DEF LeaveFor
  <2>2. /\ UntilToday(l) \in LeaveRow /\ UntilToday(l) # None /\ UntilToday(l).from = leave[l].from
        /\ UntilToday(l).to >= today
    BY <1>2, <2>1, Shortened
  <2>3. leave[l].from \in Int /\ leave[l].to \in Int /\ UntilToday(l).to \in Int /\ today \in Int
    BY <2>1, <2>2, DaysAreInt DEF LeaveRow, Shape, Tables
  <2>4. QED
    BY <1>2, <2>1, <2>2, <2>3
<1>3. \A l \in Leaves : ~(l \in LeaveFor(o) /\ today < leave[l].to) => leave'[l] = leave[l]
  BY <1>1
<1>4. \A l \in Leaves : \/ leave'[l] = leave[l]
                        \/ /\ leave[l] # None /\ leave'[l] # None
                           /\ \A d \in Int : d < today => (d \in leave[l].from..leave[l].to <=> d \in leave'[l].from..leave'[l].to)
  BY <1>2, <1>3
<1>5. Moves => WorkInv'
  BY <1>1, WorkOthers DEF BillInv
<1>6. QED
  BY <1>1, <1>4, <1>5, LeaveMoved

\* Decisions on outpasses and passages of the gate.
LEMMA PassageBill ==
  ASSUME Shape, BillInv, Passage
  PROVE  BillInv'
<1>1. PICK o \in Outpasses :
        (\E approve \in BOOLEAN : decide_outpass(o, approve)) \/ gate_out(o) \/ \E late \in BOOLEAN : gate_in(o, late)
  BY DEF Passage
<1>2. ASSUME NEW approve \in BOOLEAN, decide_outpass(o, approve) PROVE BillInv'
  <2>1. UNCHANGED <<today, member, rebates, lost, charges, pc, seen>>
        /\ (leave' = leave \/ \E m, from, to : Away(m, from, to, o))
    BY <1>2 DEF decide_outpass
  <2>2. QED
    BY <2>1, ApartBill, AwayBill
<1>3. CASE gate_out(o)
  BY <1>3, ApartBill DEF gate_out, messVars
<1>4. QED
  BY <1>1, <1>2, <1>3, GateInBill

\* Guest meals, money and the next day.
LEMMA OfficeBill ==
  ASSUME Shape, BillInv, Office
  PROVE  BillInv'
<1>1. CASE \E m \in Members : add_guest_meal(m)
  BY <1>1, ApartBill DEF add_guest_meal
<1>2. CASE \E c \in DOMAIN charges : Collect(c)
  BY <1>2, CollectBill
<1>3. CASE NextDay
  <2>1. today' \in Days /\ today <= today' /\ UNCHANGED <<member, leave, rebates, lost, charges, pc, seen>>
    BY <1>3, DaysAreInt, CalendarAssumption DEF NextDay, Days, Shape, Tables
  <2>2. Moves
    BY <2>1 DEF Shape, Tables, Moves, Enrolments
  <2>3. \A r \in rebates : leave'[r.leave] # None
    BY <2>1 DEF BillInv, RebateInv
  <2>4. WorkInv'
    BY <2>1, <2>2, WorkOthers DEF BillInv
  <2>5. QED
    BY <2>1, <2>2, <2>3, <2>4, BillQuiet
<1>4. QED
  BY <1>1, <1>2, <1>3 DEF Office

\* There are no bills yet.
LEMMA InitBill == Init => BillInv
<1> SUFFICES ASSUME Init PROVE BillInv
  OBVIOUS
<1>1. rebates = {} /\ lost = {} /\ charges = <<>> /\ \A p \in Requests : pc[p] = "idle"
  BY DEF Init, NobodyYet
<1>2. RebateInv
  BY <1>1, FS_EmptySet DEF RebateInv
<1>3. ChargeInv
  BY <1>1 DEF ChargeInv, ReducedByRebates
<1>4. WorkInv
  BY <1>1 DEF WorkInv, BillCarries
<1>5. QED
  BY <1>2, <1>3, <1>4 DEF BillInv

\* Every step keeps the bills in order.
LEMMA NextBill == Shape /\ BillInv /\ [Next]_vars => BillInv'
<1> SUFFICES ASSUME Shape, BillInv, [Next]_vars PROVE BillInv'
  OBVIOUS
<1>1. CASE UNCHANGED vars
  BY <1>1, ApartBill DEF vars, messVars, requestVars
<1>2. ASSUME NEW p \in Requests, MessStep(p), UNCHANGED gateVars PROVE BillInv'
  <2>1. UNCHANGED outpass
    BY <1>2 DEF gateVars
  <2>2. CASE EnrolWrite(p)
    BY <2>1, <2>2, EnrolWriteShape, EnrolWriteBill
  <2>3. CASE EndWrite(p)
    BY <2>1, <2>3, EndWriteShape, EndWriteBill
  <2>4. CASE LeaveWrite(p)
    <3>1. UNCHANGED <<today, member, rebates, lost, charges>> /\ Done(p) /\ \E m, from, to : Away(m, from, to, None)
      BY <2>4 DEF LeaveWrite
    <3>2. QED
      BY <3>1, AwayBill
  <2>5. CASE DropWrite(p)
    <3>1. UNCHANGED <<today, member, charges>> /\ Done(p) /\ \E gone : Delete(gone)
      BY <2>5 DEF DropWrite
    <3>2. QED
      BY <3>1, DeleteBill
  <2>6. QED
    BY <1>2, <2>2, <2>3, <2>4, <2>5, ReadersBill, BillStartBill, BillReadBill, BillPostBill DEF MessStep
<1>3. ASSUME NEW p \in Requests, GateStep(p) PROVE BillInv'
  <2>1. CASE RequestWrite(p)
    BY <2>1, ApartBill DEF RequestWrite, messVars
  <2>2. CASE VisitWrite(p)
    BY <2>2, ApartBill DEF VisitWrite, messVars
  <2>3. CASE CancelWrite(p)
    <3>1. UNCHANGED <<today, member, charges>> /\ Done(p) /\ \E gone : Delete(gone)
      BY <2>3 DEF CancelWrite
    <3>2. QED
      BY <3>1, DeleteBill
  <2>4. QED
    BY <1>3, <2>1, <2>2, <2>3, ReadersBill DEF GateStep
<1>4. ASSUME NEW v \in Visits, NEW listed \in BOOLEAN, visitor_arrives(v, listed) PROVE BillInv'
  BY <1>4, ApartBill DEF visitor_arrives, messVars
<1>5. QED
  BY <1>1, <1>2, <1>3, <1>4, PassageBill, OfficeBill DEF Next

\* A member is billed once a month, a leave is rebated once a month and for no
\* more days than it has, and no bill is reduced by more than what the register
\* says, whatever jobs overlap (mess.py, bill_member_month and post_charge).
THEOREM MessBillsAreSound == Spec => []MessBillsAddUp
<1>1. BillInv => MessBillsAddUp
  <2>1. ASSUME RebateInv, NEW r \in rebates PROVE r.days <= Cardinality(DaysAway(r.leave) \cap DaysOfMonth(r.month))
    BY <2>1 DEF RebateInv, Fits
  <2>2. QED
    BY <2>1 DEF BillInv, RebateInv, ChargeInv, MessBillsAddUp, BilledOnce, RebateWithinLeave
<1>2. QED
  BY <1>1, InitShape, NextShape, InitBill, NextBill, PTL DEF Spec

-----------------------------------------------------------------------------
(***************************************************************************)
(* Rooms                                                                   *)
(***************************************************************************)
\* The types both arguments need.
RoomShape ==
  /\ room \in [Rooms -> Room]
  /\ bed \in [Students -> Rooms \cup {None}]
  /\ pc \in [Requests -> Steps]
  /\ DOMAIN seen = Requests
  /\ \A p \in Requests :
       /\ pc[p] # "idle" => seen[p].room \in Rooms
       /\ pc[p] \notin {"idle", "edit"} => seen[p].student \in Students
       /\ pc[p] = "edit" => seen[p].row \in Room

Allocating(p, r) == pc[p] = "allocating" /\ seen[p].room = r

\* FOR UPDATE: one allocation at a time works on a room, and until it commits
\* the bed it found is still free.
LockHeld == \A p, q \in Requests, r \in Rooms : Allocating(p, r) /\ Allocating(q, r) => p = q
BedKept  == \A p \in Requests, r \in Rooms :
              Allocating(p, r) => Cardinality(Occupants(r)) < room[r].capacity

RoomInv == RoomShape /\ LockHeld /\ BedKept

-----------------------------------------------------------------------------
\* The students of a room can be counted.
LEMMA OccupantsFinite ==
  ASSUME NEW r
  PROVE  IsFiniteSet(Occupants(r)) /\ Cardinality(Occupants(r)) \in Nat
  BY PeopleAssumption, FS_Subset, FS_CardinalityType DEF Occupants

\* Moving somebody else in leaves a room alone; moving out can only empty it.
LEMMA FewerOccupants ==
  ASSUME NEW r, NEW S \in SUBSET Occupants(r)
  PROVE  Cardinality(S) \in Nat /\ Cardinality(S) <= Cardinality(Occupants(r))
  BY OccupantsFinite, FS_Subset, FS_CardinalityType

\* A step that starts no allocation, gives nobody a bed and changes no room
\* under lock keeps the invariant, whatever else it does.
LEMMA QuietStep ==
  ASSUME RoomInv, RoomShape',
         \A q \in Requests, r \in Rooms : Allocating(q, r)' => Allocating(q, r),
         \A r \in Rooms : (\E q \in Requests : Allocating(q, r)') =>
           room'[r].capacity = room[r].capacity /\ Occupants(r)' \subseteq Occupants(r)
  PROVE  RoomInv'
<1>1. LockHeld'
  BY DEF RoomInv, LockHeld
<1>2. BedKept'
  <2> SUFFICES ASSUME NEW q \in Requests, NEW r \in Rooms, Allocating(q, r)'
               PROVE  Cardinality(Occupants(r)') < room'[r].capacity
    BY DEF BedKept
  <2>1. Allocating(q, r) /\ room'[r].capacity = room[r].capacity /\ Occupants(r)' \subseteq Occupants(r)
    OBVIOUS
  <2>2. Cardinality(Occupants(r)) < room[r].capacity
    BY <2>1 DEF RoomInv, BedKept
  <2>3. room[r].capacity \in Nat
    BY SizesAssumption DEF RoomInv, RoomShape, Room
  <2>4. Cardinality(Occupants(r)') \in Nat /\ Cardinality(Occupants(r)') <= Cardinality(Occupants(r))
    BY <2>1, FewerOccupants
  <2>5. QED
    BY <2>1, <2>2, <2>3, <2>4, OccupantsFinite
<1>3. QED
  BY <1>1, <1>2 DEF RoomInv

-----------------------------------------------------------------------------
\* Nobody has a bed yet, and nothing is locked.
LEMMA InitRoomInv == RoomsInit => RoomInv
<1> SUFFICES ASSUME RoomsInit PROVE RoomInv
  OBVIOUS
<1>1. RoomShape
  BY DEF RoomsInit, RoomShape, Steps, Room
<1>2. QED
  BY <1>1 DEF RoomsInit, RoomInv, LockHeld, BedKept, Allocating

\* Every step keeps the types.
LEMMA RoomShapeKept ==
  ASSUME RoomShape, [RoomsNext]_roomVars
  PROVE  RoomShape'
<1>1. CASE UNCHANGED roomVars
  BY <1>1 DEF RoomShape, roomVars
<1>2. ASSUME NEW p \in Requests, BedStep(p) PROVE RoomShape'
  <2>1. ASSUME NEW s \in Students, NEW r \in Rooms, AllocateLock(p, s, r) PROVE RoomShape'
    BY <2>1 DEF RoomShape, AllocateLock, Goes, NoTxn, tables, Steps
  <2>2. CASE AllocateCommit(p)
    BY <2>2 DEF RoomShape, AllocateCommit, Finish, Goes, Steps
  <2>3. ASSUME NEW s \in Students, VacateLock(p, s) PROVE RoomShape'
    BY <2>3 DEF RoomShape, VacateLock, Goes, NoTxn, tables, Steps
  <2>4. CASE VacateCommit(p)
    BY <2>4 DEF RoomShape, VacateCommit, Finish, Goes, Steps
  <2>5. QED
    BY <1>2, <2>1, <2>2, <2>3, <2>4 DEF BedStep
<1>3. ASSUME NEW p \in Requests, WaitStep(p) PROVE RoomShape'
  <2>1. ASSUME NEW s \in Students, NEW r \in Rooms, WaitCheck(p, s, r) PROVE RoomShape'
    BY <2>1 DEF RoomShape, WaitCheck, Goes, NoTxn, tables, Steps
  <2>2. CASE WaitCommit(p)
    BY <2>2 DEF RoomShape, WaitCommit, Finish, Goes, Steps
  <2>3. ASSUME NEW i, CancelEntry(p, i) PROVE RoomShape'
    BY <2>3 DEF RoomShape, CancelEntry
  <2>4. QED
    BY <1>3, <2>1, <2>2, <2>3 DEF WaitStep
<1>4. ASSUME NEW p \in Requests, RoomStep(p) PROVE RoomShape'
  <2>1. ASSUME NEW r \in Rooms, FetchRoom(p, r) PROVE RoomShape'
    BY <2>1 DEF RoomShape, FetchRoom, Goes, NoTxn, tables, Steps
  <2>2. ASSUME NEW r \in Rooms, DeleteRoom(p, r) PROVE RoomShape'
    <3>1. room' \in [Rooms -> Room]
      BY <2>2 DEF RoomShape, DeleteRoom, Room
    <3>2. QED
      BY <2>2, <3>1 DEF RoomShape, DeleteRoom
  <2>3. ASSUME NEW c \in Capacities, NEW a \in BOOLEAN, EditRoom(p, c, a) PROVE RoomShape'
    <3>1. room' \in [Rooms -> Room]
      BY <2>3 DEF RoomShape, EditRoom, Room
    <3>2. QED
      BY <2>3, <3>1 DEF RoomShape, EditRoom, Finish, Goes, Steps
  <2>4. QED
    BY <1>4, <2>1, <2>2, <2>3 DEF RoomStep
<1>5. ASSUME NEW p \in Requests, Abort(p) PROVE RoomShape'
  BY <1>5 DEF RoomShape, Abort, Finish, Goes, tables, Steps
<1>6. ASSUME NEW r \in Rooms, OpenTicket(r) \/ CloseTicket(r) PROVE RoomShape'
  BY <1>6 DEF RoomShape, OpenTicket, CloseTicket
<1>7. QED
  BY <1>1, <1>2, <1>3, <1>4, <1>5, <1>6 DEF RoomsNext

-----------------------------------------------------------------------------
\* Every step keeps the lock, and the bed that was found under it.
LEMMA InvariantKept ==
  ASSUME RoomInv, [RoomsNext]_roomVars
  PROVE  RoomInv'
<1>1. RoomShape /\ RoomShape'
  BY RoomShapeKept DEF RoomInv
<1>2. CASE UNCHANGED roomVars
  <2>1. UNCHANGED <<room, bed, pc, seen>>
    BY <1>2 DEF roomVars
  <2>2. QED
    BY <1>1, <2>1, QuietStep DEF Allocating, Occupants
<1>3. ASSUME NEW p \in Requests, BedStep(p) PROVE RoomInv'
  <2>1. ASSUME NEW s \in Students, NEW t \in Rooms, AllocateLock(p, s, t) PROVE RoomInv'
    \* The request takes the lock of t, which nobody holds, and finds a bed.
    <3>1. /\ \A q \in Requests, r \in Rooms :
               Allocating(q, r)' <=> (Allocating(q, r) \/ (q = p /\ r = t))
          /\ \A r \in Rooms : Occupants(r)' = Occupants(r)
          /\ room' = room
      BY <1>1, <2>1 DEF AllocateLock, Goes, NoTxn, tables, Allocating, Occupants, RoomShape
    <3>2. \A q \in Requests \ {p} : ~Allocating(q, t)
      BY <2>1 DEF AllocateLock, RoomFree, Allocating
    <3>3. ~Allocating(p, t) /\ \A r \in Rooms : ~Allocating(p, r)
      BY <2>1 DEF AllocateLock, Allocating
    <3>4. LockHeld'
      BY <3>1, <3>2, <3>3 DEF RoomInv, LockHeld
    <3>5. Cardinality(Occupants(t)) < room[t].capacity
      <4>1. ~(Cardinality(Occupants(t)) >= room[t].capacity)
        BY <2>1 DEF AllocateLock, Full
      <4>2. room[t].capacity \in Nat
        BY <1>1, SizesAssumption DEF RoomShape, Room
      <4>3. QED
        BY <4>1, <4>2, OccupantsFinite
    <3>6. BedKept'
      BY <3>1, <3>5 DEF RoomInv, BedKept
    <3>7. QED
      BY <1>1, <3>4, <3>6 DEF RoomInv
  <2>2. CASE AllocateCommit(p)
    \* Another room under lock gains nobody: the student moves into this one.
    <3>1. \A q \in Requests, r \in Rooms : Allocating(q, r)' => q # p /\ Allocating(q, r)
      BY <1>1, <2>2 DEF AllocateCommit, Finish, Goes, Allocating, RoomShape
    <3>2. \A q \in Requests, r \in Rooms : Allocating(q, r)' => r # seen[p].room
      BY <2>2, <3>1 DEF AllocateCommit, RoomInv, LockHeld, Allocating
    <3>3. \A r \in Rooms : r # seen[p].room => Occupants(r)' \subseteq Occupants(r)
      BY <1>1, <2>2 DEF AllocateCommit, Occupants, RoomShape
    <3>4. QED
      BY <1>1, <2>2, <3>1, <3>2, <3>3, QuietStep DEF AllocateCommit
  <2>3. ASSUME NEW s \in Students, VacateLock(p, s) PROVE RoomInv'
    <3>1. \A q \in Requests, r \in Rooms : Allocating(q, r)' => Allocating(q, r)
      BY <1>1, <2>3 DEF VacateLock, Goes, Allocating, RoomShape
    <3>2. QED
      BY <1>1, <2>3, <3>1, QuietStep DEF VacateLock, tables, Occupants
  <2>4. CASE VacateCommit(p)
    <3>1. \A q \in Requests, r \in Rooms : Allocating(q, r)' => Allocating(q, r)
      BY <1>1, <2>4 DEF VacateCommit, Finish, Goes, Allocating, RoomShape
    <3>2. \A r \in Rooms : Occupants(r)' \subseteq Occupants(r)
      BY <1>1, <2>4, PeopleAssumption DEF VacateCommit, Occupants, RoomShape
    <3>3. QED
      BY <1>1, <2>4, <3>1, <3>2, QuietStep DEF VacateCommit
  <2>5. QED
    BY <1>3, <2>1, <2>2, <2>3, <2>4 DEF BedStep
<1>4. ASSUME NEW p \in Requests, WaitStep(p) PROVE RoomInv'
  <2>1. UNCHANGED <<room, bed>>
    BY <1>4 DEF WaitStep, WaitCheck, WaitCommit, CancelEntry, tables
  <2>2. \A q \in Requests, r \in Rooms : Allocating(q, r)' => Allocating(q, r)
    BY <1>1, <1>4 DEF WaitStep, WaitCheck, WaitCommit, CancelEntry, Finish, Goes, Allocating, RoomShape
  <2>3. QED
    BY <1>1, <2>1, <2>2, QuietStep DEF Occupants
<1>5. ASSUME NEW p \in Requests, RoomStep(p) PROVE RoomInv'
  <2>1. ASSUME NEW t \in Rooms, FetchRoom(p, t) PROVE RoomInv'
    <3>1. \A q \in Requests, r \in Rooms : Allocating(q, r)' => Allocating(q, r)
      BY <1>1, <2>1 DEF FetchRoom, Goes, Allocating, RoomShape
    <3>2. QED
      BY <1>1, <2>1, <3>1, QuietStep DEF FetchRoom, tables, Occupants
  <2>2. ASSUME NEW t \in Rooms, DeleteRoom(p, t) PROVE RoomInv'
    <3>1. \A r \in Rooms : room'[r].capacity = room[r].capacity
      BY <1>1, <2>2 DEF DeleteRoom, RoomShape, Room
    <3>2. QED
      BY <1>1, <2>2, <3>1, QuietStep DEF DeleteRoom, Allocating, Occupants
  <2>3. ASSUME NEW c \in Capacities, NEW a \in BOOLEAN, EditRoom(p, c, a) PROVE RoomInv'
    \* The UPDATE waits until nobody holds the lock of the room it writes.
    <3>1. \A q \in Requests, r \in Rooms : Allocating(q, r)' => q # p /\ Allocating(q, r)
      BY <1>1, <2>3 DEF EditRoom, Finish, Goes, Allocating, RoomShape
    <3>2. \A q \in Requests, r \in Rooms : Allocating(q, r)' => r # seen[p].room
      BY <2>3, <3>1 DEF EditRoom, RoomFree, Allocating
    <3>3. \A r \in Rooms : r # seen[p].room => room'[r] = room[r]
      BY <1>1, <2>3 DEF EditRoom, RoomShape
    <3>4. \A r \in Rooms : Occupants(r)' = Occupants(r)
      BY <2>3 DEF EditRoom, Occupants
    <3>5. QED
      BY <1>1, <3>1, <3>2, <3>3, <3>4, QuietStep
  <2>4. QED
    BY <1>5, <2>1, <2>2, <2>3 DEF RoomStep
<1>6. ASSUME NEW p \in Requests, Abort(p) PROVE RoomInv'
  <2>1. \A q \in Requests, r \in Rooms : Allocating(q, r)' => Allocating(q, r)
    BY <1>1, <1>6 DEF Abort, Finish, Goes, Allocating, RoomShape
  <2>2. QED
    BY <1>1, <1>6, <2>1, QuietStep DEF Abort, tables, Occupants
<1>7. ASSUME NEW r \in Rooms, OpenTicket(r) \/ CloseTicket(r) PROVE RoomInv'
  BY <1>1, <1>7, QuietStep DEF OpenTicket, CloseTicket, Allocating, Occupants
<1>8. QED
  BY <1>2, <1>3, <1>4, <1>5, <1>6, <1>7 DEF RoomsNext

-----------------------------------------------------------------------------
\* Only AllocateCommit gives somebody a bed, and it adds one student to a room
\* that had a bed to spare.
LEMMA MoveInFits ==
  ASSUME RoomInv, [RoomsNext]_roomVars, NEW s \in Students, NEW r \in Rooms, MovesIn(s, r)
  PROVE  Cardinality(Occupants(r)') <= room[r].capacity
<1>1. bed' # bed
  BY DEF MovesIn
<1>2. PICK p \in Requests : AllocateCommit(p)
  <2>1. ASSUME NEW p \in Requests, VacateCommit(p) PROVE FALSE
    BY <2>1, PeopleAssumption DEF VacateCommit, MovesIn, RoomInv, RoomShape
  <2>2. QED
    BY <1>1, <2>1 DEF RoomsNext, roomVars, tables, BedStep, WaitStep, RoomStep, AllocateLock, VacateLock,
      WaitCheck, WaitCommit, CancelEntry, FetchRoom, EditRoom, DeleteRoom, Abort, OpenTicket, CloseTicket
<1>3. Allocating(p, r) /\ Occupants(r)' = Occupants(r) \cup {s} /\ s \notin Occupants(r)
  BY <1>2 DEF AllocateCommit, MovesIn, Allocating, Occupants, RoomInv, RoomShape
<1>4. Cardinality(Occupants(r)) < room[r].capacity
  BY <1>3 DEF RoomInv, BedKept
<1>5. Cardinality(Occupants(r)') = Cardinality(Occupants(r)) + 1
  BY <1>3, OccupantsFinite, FS_AddElement
<1>6. room[r].capacity \in Nat
  BY SizesAssumption DEF RoomInv, RoomShape, Room
<1>7. QED
  BY <1>4, <1>5, <1>6, OccupantsFinite

\* Concurrent allocations cannot exceed the capacity of a room, for any number
\* of students, rooms and requests (allocate, apps/hostel/services.py).
THEOREM CapacityRespected == RoomsSpec => AllocatedWithinCapacity
<1>1. RoomInv /\ [RoomsNext]_roomVars =>
        [\A s \in Students, r \in Rooms : MovesIn(s, r) =>
           Cardinality(Occupants(r)') <= room[r].capacity]_roomVars
  BY MoveInFits
<1>2. QED
  BY InitRoomInv, InvariantKept, <1>1, PTL DEF RoomsSpec, AllocatedWithinCapacity

-----------------------------------------------------------------------------
(***************************************************************************)
(* The waiting list.  Entries are only added at its end and never wait     *)
(* again, so the entry that vacate has picked stays the oldest.            *)
(***************************************************************************)
Vacating(p) == pc[p] = "vacating" /\ seen[p].next # None
Oldest(i, r) == i \in DOMAIN waitlist /\ waitlist[i].room = r /\ \A j \in WaitingFor(r) : i <= j
OldestPicked == \A p \in Requests : Vacating(p) => Oldest(seen[p].next, seen[p].room)
WaitInv == waitlist \in Seq(Entry) /\ OldestPicked

\* Entries keep their room and do not wait again; new ones come last.
ListGrows ==
  /\ waitlist' \in Seq(Entry)
  /\ DOMAIN waitlist \subseteq DOMAIN waitlist'
  /\ \A i \in DOMAIN waitlist : waitlist'[i].room = waitlist[i].room
  /\ \A i \in DOMAIN waitlist : waitlist'[i].status = "waiting" => waitlist[i].status = "waiting"

\* vacate picks an entry that no older one waits before.
LEMMA NextWaitingIsOldest ==
  ASSUME waitlist \in Seq(Entry), NEW r, NextWaiting(r) # None
  PROVE  Oldest(NextWaiting(r), r)
<1>1. WaitingFor(r) # {} /\ NextWaiting(r) = Min(WaitingFor(r))
  BY DEF NextWaiting
<1>2. WaitingFor(r) \subseteq 1..Len(waitlist) /\ Len(waitlist) \in Nat
  BY DEF WaitingFor
<1>3. IsFiniteSet(WaitingFor(r))
  <2>1. IsFiniteSet(1..Len(waitlist))
    BY <1>2, FS_Interval
  <2>2. QED
    BY <1>2, <2>1, FS_Subset
<1>4. \A i \in WaitingFor(r) : i \in Int
  BY <1>2
<1> DEFINE W == WaitingFor(r)
<1> HIDE DEF W
<1>5. Min(W) \in W /\ \A j \in W : Min(W) <= j
  BY <1>1, <1>3, <1>4, LeastOf DEF W
<1>6. QED
  BY <1>1, <1>5 DEF W, Oldest, WaitingFor

\* A status is written into one entry.
LEMMA StatusWritten ==
  ASSUME waitlist \in Seq(Entry), NEW i \in DOMAIN waitlist, NEW status \in {"offered", "fulfilled", "cancelled"},
         waitlist' = [waitlist EXCEPT ![i].status = status]
  PROVE  ListGrows
<1>1. waitlist[i] \in Entry /\ [waitlist[i] EXCEPT !.status = status] \in Entry
  <2>1. waitlist[i] \in Entry
    OBVIOUS
  <2>2. QED
    BY <2>1 DEF Entry
<1>2. waitlist' = [waitlist EXCEPT ![i] = [waitlist[i] EXCEPT !.status = status]]
  OBVIOUS
<1>3. waitlist' \in Seq(Entry)
  BY <1>1, <1>2
<1>4. DOMAIN waitlist' = DOMAIN waitlist
  BY <1>2
<1>5. ASSUME NEW j \in DOMAIN waitlist
      PROVE  waitlist'[j].room = waitlist[j].room /\ (waitlist'[j].status = "waiting" => waitlist[j].status = "waiting")
  BY <1>1, <1>2 DEF Entry
<1>6. QED
  BY <1>3, <1>4, <1>5 DEF ListGrows

\* Every step does that to the list.
LEMMA NextGrows ==
  ASSUME RoomShape, WaitInv, [RoomsNext]_roomVars
  PROVE  ListGrows
<1>0. waitlist \in Seq(Entry)
  BY DEF WaitInv
<1>1. ASSUME UNCHANGED waitlist PROVE ListGrows
  BY <1>0, <1>1 DEF ListGrows
<1>2. ASSUME NEW p \in Requests, AllocateCommit(p) PROVE ListGrows
  <2> DEFINE mine == ActiveEntries(seen[p].student, seen[p].room)
  <2>1. waitlist' = [i \in DOMAIN waitlist |->
           IF i \in mine THEN [waitlist[i] EXCEPT !.status = "fulfilled"] ELSE waitlist[i]]
    BY <1>2 DEF AllocateCommit
  <2> HIDE DEF mine
  <2>2. ASSUME NEW i \in 1..Len(waitlist)
        PROVE  /\ waitlist'[i] \in Entry /\ waitlist'[i].room = waitlist[i].room
               /\ waitlist'[i].status = "waiting" => waitlist[i].status = "waiting"
    <3>1. waitlist[i] \in Entry
      BY <1>0
    <3>2. waitlist'[i] = IF i \in mine THEN [waitlist[i] EXCEPT !.status = "fulfilled"] ELSE waitlist[i]
      BY <1>0, <2>1
    <3>3. QED
      BY <3>1, <3>2 DEF Entry
  <2>3. DOMAIN waitlist = 1..Len(waitlist) /\ Len(waitlist) \in Nat
    BY <1>0
  <2>4. waitlist' = [i \in 1..Len(waitlist) |-> waitlist'[i]]
    BY <2>1, <2>3
  <2>5. waitlist' \in [1..Len(waitlist) -> Entry]
    BY <2>2, <2>4
  <2>6. waitlist' \in Seq(Entry)
    BY <2>3, <2>5
  <2>7. QED
    BY <2>1, <2>2, <2>3, <2>6 DEF ListGrows
<1>3. ASSUME NEW p \in Requests, VacateCommit(p) PROVE ListGrows
  <2>1. CASE seen[p].next = None
    BY <1>1, <1>3, <2>1 DEF VacateCommit
  <2>2. CASE seen[p].next # None
    <3>1. seen[p].next \in DOMAIN waitlist
      BY <1>3, <2>2 DEF WaitInv, OldestPicked, Vacating, Oldest, VacateCommit
    <3>2. waitlist' = [waitlist EXCEPT ![seen[p].next].status = "offered"]
      BY <1>3, <2>2 DEF VacateCommit
    <3>3. QED
      BY <1>0, <3>1, <3>2, StatusWritten
  <2>3. QED
    BY <2>1, <2>2
<1>4. ASSUME NEW p \in Requests, WaitCommit(p) PROVE ListGrows
  <2> DEFINE new == [student |-> seen[p].student, room |-> seen[p].room, status |-> "waiting"]
  <2>1. new \in Entry
    BY <1>4 DEF RoomShape, WaitCommit, Entry
  <2> HIDE DEF new
  <2>2. CASE waitlist' = Append(waitlist, new)
    BY <1>0, <2>1, <2>2 DEF ListGrows
  <2>3. waitlist' = Append(waitlist, new) \/ UNCHANGED waitlist
    BY <1>4 DEF WaitCommit, new
  <2>4. QED
    BY <1>1, <2>2, <2>3
<1>5. ASSUME NEW p \in Requests, NEW i \in DOMAIN waitlist, CancelEntry(p, i) PROVE ListGrows
  BY <1>0, <1>5, StatusWritten DEF CancelEntry
<1>6. ASSUME NEW p \in Requests, BedStep(p) PROVE ListGrows
  BY <1>1, <1>2, <1>3, <1>6 DEF BedStep, AllocateLock, VacateLock, tables
<1>7. ASSUME NEW p \in Requests, WaitStep(p) PROVE ListGrows
  BY <1>1, <1>4, <1>5, <1>7 DEF WaitStep, WaitCheck, tables
<1>8. ASSUME NEW p \in Requests, RoomStep(p) \/ Abort(p) PROVE ListGrows
  BY <1>1, <1>8 DEF RoomStep, FetchRoom, DeleteRoom, EditRoom, Abort, tables
<1>9. ASSUME NEW r \in Rooms, OpenTicket(r) \/ CloseTicket(r) PROVE ListGrows
  BY <1>1, <1>9 DEF OpenTicket, CloseTicket
<1>10. CASE UNCHANGED roomVars
  BY <1>1, <1>10 DEF roomVars
<1>11. QED
  BY <1>6, <1>7, <1>8, <1>9, <1>10 DEF RoomsNext

\* While the list grows that way the oldest entry of a room stays the oldest.
LEMMA OldestKept ==
  ASSUME waitlist \in Seq(Entry), ListGrows, NEW i, NEW r, Oldest(i, r)
  PROVE  Oldest(i, r)'
<1>1. i \in DOMAIN waitlist' /\ waitlist'[i].room = r
  BY DEF Oldest, ListGrows
<1>2. ASSUME NEW j \in DOMAIN waitlist', waitlist'[j].room = r, waitlist'[j].status = "waiting"
      PROVE  i <= j
  <2>1. CASE j \in DOMAIN waitlist
    BY <1>2, <2>1 DEF ListGrows, Oldest, WaitingFor
  <2>2. CASE j \notin DOMAIN waitlist
    BY <1>2, <2>2 DEF ListGrows, Oldest
  <2>3. QED
    BY <2>1, <2>2
<1>3. QED
  BY <1>1, <1>2 DEF Oldest, WaitingFor

\* Whatever else happens, what vacate has picked is the oldest until it
\* commits.
LEMMA WaitInvKept ==
  ASSUME RoomShape, WaitInv, [RoomsNext]_roomVars
  PROVE  WaitInv'
<1>1. ListGrows /\ waitlist \in Seq(Entry)
  BY NextGrows DEF WaitInv
<1>2. ASSUME NEW p \in Requests, Vacating(p), seen'[p] = seen[p]
      PROVE  Oldest(seen[p].next, seen[p].room)'
  <2> DEFINE i == seen[p].next
             r == seen[p].room
  <2>1. Oldest(i, r)
    BY <1>2 DEF WaitInv, OldestPicked
  <2>2. i' = i /\ r' = r
    BY <1>2
  <2>3. \A j, x : Oldest(j, x) => (j \in DOMAIN waitlist' /\ waitlist'[j].room = x
                                   /\ \A k \in DOMAIN waitlist' : waitlist'[k].room = x /\ waitlist'[k].status = "waiting" => j <= k)
    BY <1>1, OldestKept DEF Oldest, WaitingFor
  <2>4. QED
    BY <2>1, <2>2, <2>3 DEF Oldest, WaitingFor
<1>3. ASSUME NEW p \in Requests, NEW s \in Students, VacateLock(p, s), Vacating(p)'
      PROVE  Oldest(seen[p].next, seen[p].room)'
  <2> DEFINE r == bed[s]
  <2>1. UNCHANGED waitlist
    BY <1>3 DEF VacateLock, tables
  <2>2. seen'[p].next = NextWaiting(r) /\ seen'[p].room = r
    BY <1>3 DEF VacateLock, Goes, NoTxn, RoomShape
  <2>3. Oldest(NextWaiting(r), r)
    BY <1>1, <1>3, <2>2, NextWaitingIsOldest DEF Vacating
  <2>4. QED
    BY <2>1, <2>2, <2>3 DEF Oldest, WaitingFor
<1>4. ASSUME NEW p \in Requests, Vacating(p)'
      PROVE  (Vacating(p) /\ seen'[p] = seen[p]) \/ \E s \in Students : VacateLock(p, s)
  <2>1. ASSUME NEW q \in Requests, NEW step, NEW fields, Goes(q, step, fields)
        PROVE  q # p => pc'[p] = pc[p] /\ seen'[p] = seen[p]
    BY <2>1 DEF Goes, RoomShape
  <2>2. ASSUME NEW q \in Requests, NEW step, NEW fields, Goes(q, step, fields), step # "vacating"
        PROVE  q # p
    BY <1>4, <2>2 DEF Goes, RoomShape, Vacating
  <2>3. ASSUME NEW q \in Requests, NEW step, NEW fields, Goes(q, step, fields), step # "vacating"
        PROVE  Vacating(p) /\ seen'[p] = seen[p]
    BY <1>4, <2>1, <2>2, <2>3 DEF Vacating
  <2>4. ASSUME UNCHANGED <<pc, seen>> PROVE Vacating(p) /\ seen'[p] = seen[p]
    BY <1>4, <2>4 DEF Vacating
  <2>5. ASSUME NEW q \in Requests, NEW s \in Students, VacateLock(q, s) PROVE (q = p) \/ (Vacating(p) /\ seen'[p] = seen[p])
    BY <1>4, <2>1, <2>5 DEF VacateLock, Vacating
  <2>6. ASSUME NEW q \in Requests, BedStep(q) 
        PROVE  (Vacating(p) /\ seen'[p] = seen[p]) \/ \E s \in Students : VacateLock(p, s)
    BY <2>3, <2>5, <2>6 DEF BedStep, AllocateLock, AllocateCommit, VacateCommit, Finish
  <2>7. ASSUME NEW q \in Requests, WaitStep(q) \/ RoomStep(q) \/ Abort(q) PROVE Vacating(p) /\ seen'[p] = seen[p]
    BY <2>3, <2>4, <2>7 DEF WaitStep, WaitCheck, WaitCommit, CancelEntry, RoomStep, FetchRoom, EditRoom,
                            DeleteRoom, Abort, Finish
  <2>8. ASSUME NEW r \in Rooms, OpenTicket(r) \/ CloseTicket(r) PROVE Vacating(p) /\ seen'[p] = seen[p]
    BY <2>4, <2>8 DEF OpenTicket, CloseTicket
  <2>9. CASE UNCHANGED roomVars
    BY <2>4, <2>9 DEF roomVars
  <2>10. QED
    BY <2>6, <2>7, <2>8, <2>9 DEF RoomsNext
<1>5. OldestPicked'
  BY <1>2, <1>3, <1>4 DEF OldestPicked
<1>6. QED
  BY <1>1, <1>5 DEF WaitInv, ListGrows

\* Only the commit of vacate offers a bed, to the entry it has picked.
LEMMA OfferIsVacate ==
  ASSUME RoomShape, WaitInv, [RoomsNext]_roomVars, NEW i \in DOMAIN waitlist,
         waitlist[i].status # "offered", waitlist'[i].status = "offered"
  PROVE  \A j \in WaitingFor(waitlist[i].room) : i <= j
<1>1. ASSUME NEW p \in Requests, VacateCommit(p) PROVE Oldest(i, waitlist[i].room)
  <2>1. seen[p].next # None /\ waitlist' = [waitlist EXCEPT ![seen[p].next].status = "offered"]
    BY <1>1 DEF VacateCommit
  <2>2. Oldest(seen[p].next, seen[p].room)
    BY <1>1, <2>1 DEF WaitInv, OldestPicked, Vacating, VacateCommit
  <2>3. i = seen[p].next
    BY <2>1
  <2>4. QED
    BY <2>2, <2>3 DEF Oldest
<1>2. waitlist[i] \in Entry
  BY DEF WaitInv
<1>3. ASSUME NEW p \in Requests, AllocateCommit(p) PROVE FALSE
  BY <1>2, <1>3 DEF AllocateCommit, Entry
<1>4. ASSUME NEW p \in Requests, WaitCommit(p) PROVE FALSE
  BY <1>4 DEF WaitCommit, WaitInv
<1>5. ASSUME NEW p \in Requests, NEW j, CancelEntry(p, j) PROVE FALSE
  BY <1>2, <1>5 DEF CancelEntry, Entry
<1>6. waitlist' # waitlist
  OBVIOUS
<1>7. PICK p \in Requests : VacateCommit(p)
  BY <1>3, <1>4, <1>5, <1>6 DEF RoomsNext, roomVars, tables, BedStep, WaitStep, RoomStep, AllocateLock, VacateLock,
       WaitCheck, FetchRoom, EditRoom, DeleteRoom, Abort, OpenTicket, CloseTicket
<1>8. QED
  BY <1>1, <1>7 DEF Oldest

\* A bed that becomes free is offered to the first student who waits for the
\* room, though vacate picks the entry before it commits and locks neither
\* the room nor the list (vacate, apps/hostel/services.py).
THEOREM FirstComeFirstServed == RoomsSpec => OldestWaiterFirst
<1> DEFINE Inv == RoomShape /\ WaitInv
<1>1. RoomsInit => Inv
  <2>1. RoomsInit => RoomShape
    BY InitRoomInv DEF RoomInv
  <2>2. RoomsInit => WaitInv
    BY DEF RoomsInit, WaitInv, OldestPicked, Vacating
  <2>3. QED
    BY <2>1, <2>2
<1>2. Inv /\ [RoomsNext]_roomVars => Inv'
  BY RoomShapeKept, WaitInvKept
<1>3. Inv /\ [RoomsNext]_roomVars =>
        [\A i \in DOMAIN waitlist : waitlist[i].status # "offered" /\ waitlist'[i].status = "offered" =>
           \A j \in WaitingFor(waitlist[i].room) : i <= j]_roomVars
  BY OfferIsVacate
<1>4. QED
  BY <1>1, <1>2, <1>3, PTL DEF RoomsSpec, OldestWaiterFirst
=============================================================================
