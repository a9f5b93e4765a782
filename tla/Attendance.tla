----------------------------- MODULE Attendance -----------------------------
(***************************************************************************)
(* Attendance of one branch (apps/attendance): teachers who mark a section *)
(* in one save, a device that pushes punches and sends them again when no  *)
(* answer comes, file imports of the same punches, corrections, and the    *)
(* registers computed from the records.                                    *)
(*                                                                         *)
(* Marking takes three steps, the class list, the locking read of the rows *)
(* of its students and the write; a punch is stored and turned into a      *)
(* record in one transaction of its own, so a request of many punches may  *)
(* stop after any of them.  Students change sections and leave meanwhile.  *)
(*                                                                         *)
(* The variable `been' is history: where each student has been.            *)
(***************************************************************************)
EXTENDS Desk, ClassList, Integers, Sequences, FiniteSets, FiniteSetsExt, Functions

CONSTANTS
  Codes,         \* codes of attendance cards
  Periods,       \* None for the whole day, and the lectures
  WeeklyOff,     \* days of the calendar that fall on a weekly day off
  Sheets,        \* what a teacher may send: the statuses named, by student
  FirstDay,      \* the day the model starts on; earlier days may have been marked
  EarlierRows,   \* tables of records that may have been made before
  Movers,        \* the students whose enrolment is edited
  MaxDay,        \* bound: last day told apart
  MaxPunches,    \* bound: punches on the device
  MaxCrashes     \* bound: requests that die

\* Rows of AttendanceRecord and AttendanceSettings.
Statuses == {"present", "absent", "leave", "late", "half_day"}
RecordRow == [status : Statuses, source : {"manual", "device"}, section : Sections \cup {None}]
SettingsRow == [mode : {"daily", "per_lecture"}, auto : BOOLEAN]

Days == 0..MaxDay
Keys == Students \X Days \X Periods
Record(status, source, section) == [status |-> status, source |-> source, section |-> section]

ASSUME CalendarAssumption == MaxDay \in Nat /\ FirstDay \in Days /\ None \in Periods
ASSUME BoundsAssumption ==
  {MaxPunches, MaxCrashes} \subseteq Nat /\ Movers \subseteq Students /\ None \notin Sections
\* A sheet names some students with a status each.
ASSUME SheetsAssumption == \A sheet \in Sheets : \A s \in DOMAIN sheet : sheet[s] \in Statuses
\* Earlier days were marked by teachers, section by section, or by cards, and
\* nobody has changed sections since.
ASSUME EarlierRowsAssumption ==
  \A first \in EarlierRows :
    /\ DOMAIN first = Keys
    /\ \A k \in Keys :
         /\ first[k] = <<>> \/ \E row \in RecordRow : first[k] = <<row>> /\ row.section = SectionOf[k[1]]
         /\ first[k] # <<>> /\ first[k][1].source = "manual" =>
              \A s \in Roster(SectionOf[k[1]]) : first[<<s, k[2], k[3]>>] # <<>>

VARIABLES
  today, holidays,
  enrolled,      \* enrolled[s]: the section of the student's active enrolment, or None
  active,        \* active[s]: the student is active
  been,          \* history: been[s]: the sections s was in, None when in none or not active
  settings,      \* [mode, auto]: daily or per lecture, and whether punches mark
  rows,          \* rows[k]: the records of a student, day and period: at most one
  card,          \* card[c]: the student an active card belongs to
  log,           \* the device's punches, as [code, day]
  acked,         \* how many of them it knows to have arrived
  stored,        \* stored[i]: Punch rows of punch i
  crashes

enrolments == <<enrolled, active, been>>
attendanceVars == <<today, holidays, enrolments, settings, rows, card, log, acked, stored, requestVars, crashes>>

Off == holidays \cup (WeeklyOff \cap Days)
StatusOf(k) == rows[k][1].status

-----------------------------------------------------------------------------
(***************************************************************************)
(* mark_section                                                            *)
(***************************************************************************)
\* section_students: those who can be marked now.
Attending(section) == {s \in Students : enrolled[s] = section /\ active[s]}

\* The mode decides whether a period has to be named or is ignored.
Lecture(period) == IF settings.mode = "daily" THEN None ELSE period

\* Fault: only the students that were named are marked.
OnlyNamed(section, sheet) == [s \in DOMAIN sheet |-> sheet[s]]
\* Everyone is present unless named otherwise.
Wanted(section, sheet) ==
  [s \in Attending(section) |-> IF s \in DOMAIN sheet THEN sheet[s] ELSE "present"]

\* The day, the mode and the class list are read without a lock.
MarkFetch(p, section, on, period, sheet, admin) ==
  /\ on <= today /\ on \notin Off
  /\ settings.mode = "per_lecture" => period # None
  /\ DOMAIN sheet \subseteq Attending(section)
  /\ Begin(p, "fetched", [section |-> section, wanted |-> Wanted(section, sheet), on |-> on,
                          period |-> Lecture(period), admin |-> admin])
  /\ UNCHANGED <<today, holidays, enrolments, settings, rows, card, log, acked, stored, crashes>>

KeysOf(work) == {<<s, work.on, work.period>> : s \in DOMAIN work.wanted}
\* select_for_update on the rows that exist.
RowsFree(p, keys) == \A q \in Requests \ {p} : pc[q] = "marking" => seen[q].existing \cap keys = {}

\* Fault: anyone corrects a past day.
AnyoneCorrects(work) == TRUE
MayChange(work) ==
  work.on < today /\ ~work.admin =>
    \A k \in KeysOf(work) : rows[k] # <<>> => StatusOf(k) = work.wanted[k[1]]

\* The rows are read and locked; a conflict ends the request.
MarkLock(p) ==
  LET s == seen[p]
  IN  /\ pc[p] = "fetched" /\ RowsFree(p, KeysOf(s))
      /\ IF MayChange(s)
           THEN Continue(p, "marking",
                  [section |-> s.section, wanted |-> s.wanted, on |-> s.on, period |-> s.period,
                   allowed |-> s.admin \/ s.on >= today, existing |-> {k \in KeysOf(s) : rows[k] # <<>>}])
           ELSE Done(p)
      /\ UNCHANGED <<today, holidays, enrolments, settings, rows, card, log, acked, stored, crashes>>

IndexFree(keys) == \A k \in keys : rows[k] = <<>>

\* Changed rows are saved, the others inserted; when one of these exists by
\* now, nothing is saved at all.
MarkWrite(p) ==
  LET s    == seen[p]
      keys == KeysOf(s)
      New(k) == Record(s.wanted[k[1]], "manual", s.section)
  IN  /\ pc[p] = "marking"
      /\ rows' = IF ~IndexFree(keys \ s.existing) THEN rows
                 ELSE [k \in Keys |->
                        IF k \in keys \ s.existing THEN Append(rows[k], New(k))
                        ELSE IF k \in keys /\ StatusOf(k) # s.wanted[k[1]] THEN <<New(k)>>
                        ELSE rows[k]]
      /\ Done(p)
      /\ UNCHANGED <<today, holidays, enrolments, settings, card, log, acked, stored, crashes>>

-----------------------------------------------------------------------------
(***************************************************************************)
(* Punches                                                                 *)
(***************************************************************************)
Swipe(c) ==
  /\ Len(log) < MaxPunches
  /\ log' = Append(log, [code |-> c, day |-> today])
  /\ UNCHANGED <<today, holidays, enrolments, settings, rows, card, acked, stored, requestVars, crashes>>

\* The device uploads all it has had no answer for; a file import sends the
\* whole log.
Push(p) ==
  /\ pc[p] = "idle" /\ acked < Len(log)
  /\ Continue(p, "ingest", [next |-> acked + 1, last |-> Len(log), device |-> TRUE])
  /\ UNCHANGED <<today, holidays, enrolments, settings, rows, card, log, acked, stored, crashes>>
Import(p) ==
  /\ log # <<>>
  /\ Begin(p, "ingest", [next |-> 1, last |-> Len(log), device |-> FALSE])
  /\ UNCHANGED <<today, holidays, enrolments, settings, rows, card, log, acked, stored, crashes>>

\* Fault: the index attendance_punch_unique is missing.
AlwaysNew(i) == TRUE
NewPunch(i) == stored[i] = 0

Marks(i) ==
  /\ card[log[i].code] # None
  /\ settings.mode = "daily" /\ settings.auto /\ log[i].day \notin Off
PunchKey(i) == <<card[log[i].code], log[i].day, None>>

\* Fault: update_or_create where the code says get_or_create.
Remarked(k) == <<Record("present", "device", enrolled[k[1]])>>
AutoMarked(k) == IF rows[k] = <<>> THEN <<Record("present", "device", enrolled[k[1]])>> ELSE rows[k]

\* ingest_punch: one transaction.
IngestOne(p) ==
  LET i == seen[p].next
  IN  /\ pc[p] = "ingest" /\ i <= seen[p].last
      /\ stored' = IF NewPunch(i) THEN [stored EXCEPT ![i] = @ + 1] ELSE stored
      /\ rows' = IF NewPunch(i) /\ Marks(i)
                   THEN [rows EXCEPT ![PunchKey(i)] = AutoMarked(PunchKey(i))] ELSE rows
      /\ Continue(p, "ingest", [seen[p] EXCEPT !.next = i + 1])
      /\ UNCHANGED <<today, holidays, enrolments, settings, card, log, acked, crashes>>

\* Fault: the device takes a partial answer for the whole.
Finished(p) == pc[p] = "ingest"
AllIngested(p) == pc[p] = "ingest" /\ seen[p].next > seen[p].last

\* The answer reaches the device, or is lost and the device asks again.
Answer(p) ==
  /\ AllIngested(p)
  /\ acked' = IF seen[p].device THEN Max({acked, seen[p].last}) ELSE acked
  /\ Done(p)
  /\ UNCHANGED <<today, holidays, enrolments, settings, rows, card, log, stored, crashes>>
LoseAnswer(p) ==
  /\ AllIngested(p) /\ seen[p].device
  /\ crashes < MaxCrashes /\ crashes' = crashes + 1
  /\ Done(p)
  /\ UNCHANGED <<today, holidays, enrolments, settings, rows, card, log, acked, stored>>

-----------------------------------------------------------------------------
Crash(p) ==
  /\ pc[p] # "idle"
  /\ crashes < MaxCrashes /\ crashes' = crashes + 1
  /\ Done(p)
  /\ UNCHANGED <<today, holidays, enrolments, settings, rows, card, log, acked, stored>>

EditHoliday(d) ==
  /\ AtOnce
  /\ holidays' = IF d \in holidays THEN holidays \ {d} ELSE holidays \cup {d}
  /\ UNCHANGED <<today, enrolments, settings, rows, card, log, acked, stored, crashes>>
EditSettings(new) ==
  /\ settings # new /\ AtOnce
  /\ settings' = new
  /\ UNCHANGED <<today, holidays, enrolments, rows, card, log, acked, stored, crashes>>
EditCard(c, owner) ==
  /\ card[c] # owner /\ AtOnce
  /\ card' = [card EXCEPT ![c] = owner]
  /\ UNCHANGED <<today, holidays, enrolments, settings, rows, log, acked, stored, crashes>>
\* An enrolment is edited, ends or is deleted; a student becomes inactive, or
\* active again.
Enrol(s, section) ==
  /\ enrolled[s] # section /\ AtOnce
  /\ enrolled' = [enrolled EXCEPT ![s] = section]
  /\ been' = [been EXCEPT ![s] = @ \cup {section}]
  /\ UNCHANGED <<today, holidays, active, settings, rows, card, log, acked, stored, crashes>>
EditStudent(s) ==
  /\ AtOnce
  /\ active' = [active EXCEPT ![s] = ~@]
  /\ been' = [been EXCEPT ![s] = @ \cup {None}]
  /\ UNCHANGED <<today, holidays, enrolled, settings, rows, card, log, acked, stored, crashes>>
NextDay ==
  /\ today < MaxDay
  /\ today' = today + 1
  /\ UNCHANGED <<holidays, enrolments, settings, rows, card, log, acked, stored, requestVars, crashes>>

-----------------------------------------------------------------------------
(***************************************************************************)
(* The registers.  A weight is in halves, a percentage in tenths, rounded  *)
(* half to even.                                                           *)
(***************************************************************************)
WEIGHT(status) == CASE status \in {"present", "late"} -> 2 [] status = "half_day" -> 1 [] OTHER -> 0
RoundEven(n, d) ==
  LET low == n \div d  twice == 2 * (n % d)
  IN  IF twice > d \/ (twice = d /\ low % 2 = 1) THEN low + 1 ELSE low

\* attended (in halves), marked and percentage of the records with these keys.
percentage(keys) ==
  LET marked == Cardinality(keys)
      attended == SumFunction([k \in keys |-> WEIGHT(StatusOf(k))])
  IN  [attended |-> attended, marked |-> marked,
       percentage |-> IF marked = 0 THEN 0 ELSE RoundEven(attended * 500, marked)]

Recorded == {k \in Keys : rows[k] # <<>>}
RecordsOf(s) == {k \in {s} \X Days \X Periods : rows[k] # <<>>}
\* student_calendar: day by day; holidays show no status and do not count.
CalendarDay(s, d) == {k \in RecordsOf(s) : k[2] = d}
student_calendar(s, from, to) ==
  percentage(UNION {IF d \in Off THEN {} ELSE CalendarDay(s, d) : d \in from..to})

\* section_percentages: one query, then filtered.
section_percentages(section, from, to) ==
  [s \in Attending(section) |->
     percentage({k \in RecordsOf(s) : k[2] \in from..to /\ k[2] \notin Off})]

\* register: the records of the whole day only.
\* Fault: a day that became a holiday keeps its mark in the sheet.
OffDaysToo(s, from, to) == {k \in RecordsOf(s) : k[2] \in from..to /\ k[3] = None}
SheetOf(s, from, to) == {k \in OffDaysToo(s, from, to) : k[2] \notin Off}
register(section, from, to) == [s \in Attending(section) |-> percentage(SheetOf(s, from, to))]

\* daily_summary: the records are counted by the section they were made in,
\* next to the enrolments of today.
WholeDay(on) == {k \in Recorded : k[2] = on /\ k[3] = None}
MadeIn(section, on) == {k \in WholeDay(on) : rows[k][1].section = section}
daily_summary(section, on) ==
  LET keys == MadeIn(section, on)
      With(status) == Cardinality({k \in keys : StatusOf(k) = status})
  IN  [enrolled |-> Cardinality({s \in Students : enrolled[s] = section}), marked |-> Cardinality(keys),
       present |-> With("present"), absent |-> With("absent"), leave |-> With("leave"),
       late |-> With("late"), half_day |-> With("half_day"),
       percentage |-> percentage(keys).percentage]

\* Fault: holidays are not left out.
AllDays(s, asOf) == {d \in 0..asOf : rows[<<s, d, None>>] # <<>>}
\* long_absentees: the marked working days, the latest first, up to the first
\* one the student was not absent on.
MarkedDays(s, asOf) == {d \in 0..asOf : d \notin Off /\ rows[<<s, d, None>>] # <<>>}
Streak(s, asOf) ==
  LET days == MarkedDays(s, asOf)
      breaks == {d \in days : StatusOf(<<s, d, None>>) # "absent"}
      run[d \in -1..asOf] ==
        IF d < 0 \/ d \in breaks THEN 0 ELSE run[d - 1] + (IF d \in days THEN 1 ELSE 0)
  IN  run[asOf]
long_absentees(asOf, least) == {s \in Students : Streak(s, asOf) >= least}

-----------------------------------------------------------------------------
NoRows == [k \in Keys |-> <<>>]
\* A branch on its first day, or one whose earlier days have been marked.
AttendanceInit ==
  /\ \/ rows = NoRows /\ today = 0 /\ served = 0 /\ holidays = {}
     \/ rows \in EarlierRows /\ today = FirstDay /\ served = MaxServed
        /\ holidays \in {{}, {FirstDay - 1}}
  /\ enrolled = SectionOf /\ active = [s \in Students |-> TRUE]
  /\ been = [s \in Students |-> {SectionOf[s]}]
  /\ settings = [mode |-> "daily", auto |-> TRUE]
  /\ card = [c \in Codes |-> CHOOSE s \in Students : TRUE]
  /\ log = <<>> /\ acked = 0 /\ stored = [i \in 1..MaxPunches |-> 0]
  /\ pc = [p \in Requests |-> "idle"] /\ seen = [p \in Requests |-> None]
  /\ crashes = 0

MarkStep(p) ==
  \/ \E section \in Sections, on \in Days, period \in Periods, sheet \in Sheets, admin \in BOOLEAN :
       MarkFetch(p, section, on, period, sheet, admin)
  \/ MarkLock(p) \/ MarkWrite(p)
PunchStep(p) == Push(p) \/ Import(p) \/ IngestOne(p) \/ Answer(p) \/ LoseAnswer(p)
OfficeStep ==
  \/ \E s \in Movers : EditStudent(s) \/ \E section \in Sections \cup {None} : Enrol(s, section)
  \/ \E d \in Days : EditHoliday(d)
  \/ \E new \in SettingsRow : EditSettings(new)
  \/ \E c \in Codes, owner \in Students \cup {None} : EditCard(c, owner)
AttendanceNext ==
  \/ \E p \in Requests : MarkStep(p) \/ PunchStep(p) \/ Crash(p)
  \/ \E c \in Codes : Swipe(c)
  \/ OfficeStep \/ NextDay

\* The device keeps trying, and a request that runs goes on running.
AttendanceFairness ==
  /\ WF_attendanceVars(\E p \in Requests : Push(p))
  /\ \A p \in Requests : WF_attendanceVars(IngestOne(p)) /\ WF_attendanceVars(Answer(p))
  /\ \A p \in Requests : WF_attendanceVars(MarkLock(p)) /\ WF_attendanceVars(MarkWrite(p))
AttendanceSpec == AttendanceInit /\ [][AttendanceNext]_attendanceVars
AttendanceFairSpec == AttendanceSpec /\ AttendanceFairness

-----------------------------------------------------------------------------
\* Rows and requests have their declared shape.
AttendanceTypeOK ==
  /\ today \in Days /\ holidays \subseteq Days /\ acked \in 0..Len(log)
  /\ enrolled \in [Students -> Sections \cup {None}] /\ active \in [Students -> BOOLEAN]
  /\ settings \in SettingsRow
  /\ \A k \in Keys : \A n \in DOMAIN rows[k] : rows[k][n] \in RecordRow
  /\ \A i \in 1..MaxPunches : stored[i] > 0 => i <= Len(log)
  /\ \A p \in Requests : pc[p] = "ingest" => seen[p].next \in 1..(seen[p].last + 1)

\* A punch is stored once and a student recorded once per day and lecture,
\* whatever is sent twice, imported as well, or marked at the same moment.
NothingTwice ==
  /\ \A k \in Keys : Len(rows[k]) <= 1
  /\ \A i \in 1..MaxPunches : stored[i] <= 1

\* A section is marked as a whole: where a record is a teacher's of a section,
\* every student who has been in that section all the time has one.
Stayed(s, section) == been[s] = {section}
MarkedAsAWhole ==
  \A k \in Recorded : rows[k][1].source = "manual" =>
    \A s \in Students : Stayed(s, rows[k][1].section) => rows[<<s, k[2], k[3]>>] # <<>>

\* Nothing is missing from the register and nothing is in it twice.
RegisterIsWhole == NothingTwice /\ MarkedAsAWhole

\* "mark the student present for that day unless a teacher already marked
\* them": nothing but a teacher's save changes a teacher's record.
TeacherHasTheLastWord ==
  \A k \in Recorded : rows[k][1].source = "manual" /\ rows'[k] # rows[k] =>
    \E p \in Requests : pc[p] = "marking" /\ pc'[p] = "idle"

\* "Attendance for a past day can only be corrected by Admin": a record that
\* changes was asked for on its day, before midnight, or by Admin.
PastNeedsAdmin ==
  \A k \in Recorded : rows'[k] # rows[k] =>
    \E p \in Requests : pc[p] = "marking" /\ pc'[p] = "idle" /\ seen[p].allowed

\* Who may change a record, whatever happens at the same time.
CorrectedByTheRules == [][TeacherHasTheLastWord /\ PastNeedsAdmin]_attendanceVars

\* The calendar, the class list and the monthly register are computed apart
\* and tell the same percentage, as long as no lecture is marked by itself.
PercentagesAgree ==
  (\A k \in Recorded : k[3] = None) =>
    \A section \in Sections, from \in Days : \A to \in from..MaxDay, s \in Attending(section) :
      LET calendar == student_calendar(s, from, to)
      IN  section_percentages(section, from, to)[s] = calendar /\ register(section, from, to)[s] = calendar

\* A student is long absent exactly when the last so many days that were
\* marked, holidays left out, are all absences.
LongAbsenceIsLatest ==
  \A least \in 1..(MaxDay + 1) : long_absentees(today, least) =
    {s \in Students :
       LET days == {d \in 0..today : d \notin Off /\ rows[<<s, d, None>>] # <<>>}
           last == {d \in days : Cardinality({e \in days : e > d}) < least}
       IN  Cardinality(last) = least /\ \A d \in last : StatusOf(<<s, d, None>>) = "absent"}

\* The day's counts add up, and where nobody joined or left the section they
\* are those of its students, though they are counted by the records' section.
Settled(section) == \A s \in Students : section \in been[s] => Stayed(s, section)
SummaryAddsUp ==
  \A section \in Sections, d \in Days :
    LET c == daily_summary(section, d)
        theirs == {k \in WholeDay(d) : k[1] \in Attending(section)}
    IN  /\ c.present + c.absent + c.leave + c.late + c.half_day = c.marked /\ c.percentage <= 1000
        /\ Settled(section) => /\ c.marked = Cardinality(theirs) /\ c.marked <= c.enrolled
                               /\ c.percentage = percentage(theirs).percentage

\* What the reports say of one register agrees, however it came about.
ReportsAgree == PercentagesAgree /\ LongAbsenceIsLatest /\ SummaryAddsUp

\* Every punch made reaches the server, although answers are lost and
\* requests die: the device sends again and what arrived is not counted twice.
EveryPunchArrives == \A i \in 1..MaxPunches : Len(log) >= i ~> stored[i] > 0
=============================================================================
