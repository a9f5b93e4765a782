----------------------------- MODULE Timetable -----------------------------
(***************************************************************************)
(* Timetable and substitution of one branch (apps/timetable).  A lesson is *)
(* placed, or moved, in three steps: the period and the assignment are     *)
(* fetched and fitted to the section, `place' locks the teacher and checks *)
(* the other lessons, then it writes the row it was given.  Confirming a   *)
(* substitute fetches, checks and writes without any lock, and a bell      *)
(* schedule is edited statement by statement, outside any transaction.     *)
(*                                                                         *)
(* The variable `disturbed' is history: it records which of the facts      *)
(* `place' relies on were edited under lessons that already stood.         *)
(***************************************************************************)
EXTENDS Integers, FiniteSets

CONSTANTS
  Sections, Teachers, Rooms, Schedules, Slots, Assignments, Days, Dates,
  Requests,
  Planners,       \* those that move lessons and take periods away as well
  SlotSchedule,   \* SlotSchedule[s]: the bell schedule a period belongs to
  SectionOf,      \* SectionOf[a]: the section of a teaching assignment
  Weekday,        \* Weekday[d] of a date
  Bell, BellDays, Listed, Allocated, Granted,  \* the tables at the start of the year
  Times,          \* the times a period may be given, as [start, end]
  Weeks,          \* the sets of weekdays it may be given, {} for a break
  Loads,          \* the limits a teacher may be given
  Allotments,     \* the periods a week an assignment may be given, 0 for no limit
  Wanted,         \* the lessons, as rows, that the offices ask for
  Substitutes,    \* the teachers that they ask to cover one
  Edited,         \* the periods, sections, assignments and teachers that are edited
  DefaultLoad,    \* DEFAULT_MAX_PERIODS, for a teacher without a TeacherLoad
  MaxEntries,     \* bound: lessons ever placed
  MaxEdits,       \* bound: edits of periods, assignments and loads, and absences
  None

ASSUME TablesAssumption ==
  /\ SlotSchedule \in [Slots -> Schedules] /\ SectionOf \in [Assignments -> Sections]
  /\ Weekday \in [Dates -> Days]
  /\ Bell \in [Slots -> Times] /\ BellDays \in [Slots -> Weeks]
  /\ Listed \in [Sections -> Schedules]
  /\ Allocated \in [Assignments -> Teachers] /\ Granted \in [Assignments -> Allotments]
\* The start and end of a PeriodSlot; a CHECK keeps the end after the start.
Period == [start : Nat, end : Nat]
ASSUME TimesAssumption == Times \subseteq {t \in Period : t.start < t.end}
ASSUME BoundsAssumption ==
  /\ MaxEntries \in Nat /\ MaxEdits \in Nat /\ Loads \subseteq Nat /\ DefaultLoad \in Loads
  /\ Allotments \subseteq Nat /\ Weeks \subseteq SUBSET Days /\ Planners \subseteq Requests

\* Rows of TimetableEntry, TeacherAbsence and Substitution.
Row == [section : Sections, day : Days, slot : Slots, assignment : Assignments, room : Rooms \cup {None}]
Absence == [staff : Teachers, date : Dates]
CoverRow == [absent : Teachers, substitute : Teachers]
ASSUME WantedAssumption == Wanted \subseteq Row /\ Substitutes \subseteq Teachers

VARIABLES
  entry,      \* entry[i]: a TimetableEntry row, None before it is made or when deleted
  made,       \* rows made so far: keys are never reused
  time,       \* time[s]: start and end of a period, None when it was removed
  runs,       \* runs[s]: the weekdays it runs on, none for a break
  follows,    \* follows[x]: the bell schedule of a section
  teaches,    \* teaches[a]: the teacher of an assignment
  allotted,   \* allotted[a]: its periods_per_week
  load,       \* load[t]: max_periods_per_week
  away,       \* TeacherAbsence rows, as [staff, date]
  cover,      \* cover[i][d]: who takes lesson i on date d, None without a Substitution
  pc, seen,   \* what each request is doing and what it read
  edits, disturbed

tables == <<entry, made, time, runs, follows, teaches, allotted, load, away, cover>>
vars == <<tables, pc, seen, edits, disturbed>>

Ids == 1..MaxEntries

\* No key, no time and no row is NULL.
ASSUME NoneAssumption ==
  /\ None \notin Nat /\ None \notin Rooms /\ None \notin Teachers /\ None \notin Period
  /\ None \notin Row /\ None \notin CoverRow

Live == {i \in Ids : entry[i] # None}

Overlaps(a, b) == a.start < b.end /\ b.start < a.end
SameTime(r, s) == r.day = s.day /\ Overlaps(time[r.slot], time[s.slot])
TeacherOf(r) == teaches[r.assignment]
LessonsOf(t) == {i \in Live : TeacherOf(entry[i]) = t}
HeldFor(a) == {i \in Live : entry[i].assignment = a}

\* The lessons of a weekday, and whether one of them is on during a period.
OnDay(lessons, day) == {i \in lessons : entry[i].day = day}
Busy(lessons, period) == \E i \in lessons : Overlaps(time[entry[i].slot], period)

-----------------------------------------------------------------------------
(***************************************************************************)
(* place                                                                   *)
(***************************************************************************)
\* What the period and the assignment have to be for this section.
Fits(row) ==
  /\ SectionOf[row.assignment] = row.section
  /\ time[row.slot] # None /\ SlotSchedule[row.slot] = follows[row.section]
  /\ row.day \in runs[row.slot]

\* The serializer fetches the period and the assignment, and they are fitted
\* to the section as fetched: lesson i, or a new one when i is None, will be
\* compared by the times, teacher and periods a week read here.
PlaceFetch(p, i, row) ==
  /\ pc[p] = "idle" /\ Fits(row)
  /\ pc' = [pc EXCEPT ![p] = "fetched"]
  /\ seen' = [seen EXCEPT ![p] =
                [entry |-> i, row |-> row, teacher |-> TeacherOf(row),
                 period |-> time[row.slot], allotted |-> allotted[row.assignment]]]
  /\ UNCHANGED <<tables, edits, disturbed>>

\* Fault: the teacher is read without FOR UPDATE.
NoLock(p, t) == TRUE
\* select_for_update on the teacher, held to the end of the transaction.
TeacherFree(p, t) ==
  \A q \in Requests \ {p} : ~(pc[q] = "placing" /\ seen[q].teacher = t)

SectionFree(i, row) ==
  \A j \in Live \ {i} : ~(/\ entry[j].section = row.section /\ entry[j].day = row.day
                          /\ entry[j].slot = row.slot)

\* Fault: the room is not looked at.
AnyRoom(s) == TRUE
RoomFree(s) ==
  s.row.room # None =>
    ~Busy({j \in OnDay(Live, s.row.day) : entry[j].room = s.row.room} \ {s.entry}, s.period)

\* Fault: the limit is compared one lesson too late.
UnderLoadByOne(s) == Cardinality(LessonsOf(s.teacher) \ {s.entry}) <= load[s.teacher]
UnderLoad(s) ==
  /\ Cardinality(LessonsOf(s.teacher) \ {s.entry}) < load[s.teacher]
  /\ s.allotted > 0 => Cardinality(HeldFor(s.row.assignment) \ {s.entry}) < s.allotted

\* The lesson is checked against the grid with its teacher locked.
PlaceCheck(p) ==
  LET s == seen[p]
  IN  /\ pc[p] = "fetched" /\ TeacherFree(p, s.teacher)
      /\ SectionFree(s.entry, s.row)
      /\ ~Busy(OnDay(LessonsOf(s.teacher), s.row.day) \ {s.entry}, s.period)
      /\ RoomFree(s) /\ UnderLoad(s)
      /\ pc' = [pc EXCEPT ![p] = "placing"]
      /\ disturbed' = IF \E q \in Requests : pc[q] = "placing"
                         THEN disturbed \cup {"parallel"} ELSE disturbed
      /\ UNCHANGED <<tables, seen, edits>>

\* A lesson that is covered, or about to be, moves along with its substitutes.
CoversMove(i, row) ==
  /\ \/ \E d \in Dates : cover[i][d] # None
     \/ \E q \in Requests : pc[q] \in {"asked", "covering"} /\ seen[q].entry = i
  /\ \/ entry[i] = None
     \/ entry[i].day # row.day \/ entry[i].slot # row.slot

\* Fault: the unique index timetable_section_slot_once is missing.
NoIndex(i, row) == TRUE
IndexFree(i, row) == SectionFree(i, row)

\* create or save.  A new lesson gets a new key; saving one that was deleted
\* meanwhile inserts it again.  A duplicate period, or one whose slot has been
\* removed, fails in the database and rolls the transaction back.
PlaceWrite(p) ==
  LET i   == IF seen[p].entry = None THEN made + 1 ELSE seen[p].entry
      row == seen[p].row
  IN  /\ pc[p] = "placing"
      /\ time[row.slot] # None /\ IndexFree(i, row)
      /\ i <= MaxEntries
      /\ entry' = [entry EXCEPT ![i] = row]
      /\ made' = IF i > made THEN i ELSE made
      /\ pc' = [pc EXCEPT ![p] = "idle"] /\ seen' = [seen EXCEPT ![p] = None]
      /\ disturbed' = IF CoversMove(i, row) THEN disturbed \cup {"moved"} ELSE disturbed
      /\ UNCHANGED <<time, runs, follows, teaches, allotted, load, away, cover, edits>>

Abort(p) ==
  /\ pc[p] # "idle"
  /\ pc' = [pc EXCEPT ![p] = "idle"] /\ seen' = [seen EXCEPT ![p] = None]
  /\ UNCHANGED <<tables, edits, disturbed>>

NoCover == [d \in Dates |-> None]
Uncovered(gone) == [i \in Ids |-> IF i \in gone THEN NoCover ELSE cover[i]]

\* Deleting a lesson cascades to its substitutions.
DeleteEntry(i) ==
  /\ i \in Live
  /\ entry' = [entry EXCEPT ![i] = None]
  /\ cover' = Uncovered({i})
  /\ UNCHANGED <<made, time, runs, follows, teaches, allotted, load, away, pc, seen, edits, disturbed>>

-----------------------------------------------------------------------------
(***************************************************************************)
(* Edits of what a lesson was checked against.                             *)
(***************************************************************************)
Standing == Live # {} \/ \E q \in Requests : pc[q] # "idle"
Disturb(what) ==
  /\ edits < MaxEdits /\ edits' = edits + 1
  /\ disturbed' = IF Standing THEN disturbed \cup what ELSE disturbed

\* BellScheduleSerializer._save_slots: other times and weekdays for a period,
\* which may become a break.  (A period added later is one that ran on no day.)
Retime(s, t, days) ==
  LET times == IF t = time[s] THEN {} ELSE {"times"}
      lost  == IF runs[s] \subseteq days THEN {} ELSE {"days"}
  IN  /\ time[s] # None /\ (t # time[s] \/ days # runs[s])
      /\ Disturb(times \cup lost)
      /\ time' = [time EXCEPT ![s] = t] /\ runs' = [runs EXCEPT ![s] = days]
      /\ UNCHANGED <<entry, made, follows, teaches, allotted, load, away, cover, pc, seen>>

Used(s) == \E i \in Live : entry[i].slot = s

\* ... or one period less: it is looked for in the timetable first and
\* deleted afterwards, with every lesson that stands in it by then.
RemoveCheck(p, s) ==
  /\ pc[p] = "idle" /\ time[s] # None /\ ~Used(s)
  /\ edits < MaxEdits /\ edits' = edits + 1
  /\ pc' = [pc EXCEPT ![p] = "removing"]
  /\ seen' = [seen EXCEPT ![p] = [slot |-> s]]
  /\ UNCHANGED <<tables, disturbed>>
RemoveSlot(p) ==
  LET s    == seen[p].slot
      gone == {i \in Live : entry[i].slot = s}
  IN  /\ pc[p] = "removing"
      /\ time' = [time EXCEPT ![s] = None]
      /\ entry' = [i \in Ids |-> IF i \in gone THEN None ELSE entry[i]]
      /\ cover' = Uncovered(gone)
      /\ pc' = [pc EXCEPT ![p] = "idle"] /\ seen' = [seen EXCEPT ![p] = None]
      /\ UNCHANGED <<made, runs, follows, teaches, allotted, load, away, edits, disturbed>>

\* The sections listed on a bell schedule are edited with it.
Follow(x, b) ==
  /\ follows[x] # b /\ Disturb({"schedules"})
  /\ follows' = [follows EXCEPT ![x] = b]
  /\ UNCHANGED <<entry, made, time, runs, teaches, allotted, load, away, cover, pc, seen>>

\* A PATCH of a TeachingAssignment gives its lessons to another teacher, or it
\* more or fewer periods a week.
Reassign(a, t) ==
  /\ teaches[a] # t /\ Disturb({"teachers"})
  /\ teaches' = [teaches EXCEPT ![a] = t]
  /\ UNCHANGED <<entry, made, time, runs, follows, allotted, load, away, cover, pc, seen>>
Allot(a, n) ==
  /\ allotted[a] # n /\ Disturb({"loads"})
  /\ allotted' = [allotted EXCEPT ![a] = n]
  /\ UNCHANGED <<entry, made, time, runs, follows, teaches, load, away, cover, pc, seen>>

SetLoad(t, n) ==
  /\ load[t] # n /\ Disturb({"loads"})
  /\ load' = [load EXCEPT ![t] = n]
  /\ UNCHANGED <<entry, made, time, runs, follows, teaches, allotted, away, cover, pc, seen>>

-----------------------------------------------------------------------------
(***************************************************************************)
(* Substitution                                                            *)
(***************************************************************************)
SetAway(t, d) ==
  LET row == [staff |-> t, date |-> d] IN
  /\ IF row \in away THEN away' = away \ {row} /\ UNCHANGED edits
     ELSE edits < MaxEdits /\ edits' = edits + 1 /\ away' = away \cup {row}
  /\ UNCHANGED <<entry, made, time, runs, follows, teaches, allotted, load, cover, pc, seen, disturbed>>

Covering(t, d) == {j \in Live : cover[j][d] # None /\ cover[j][d].substitute = t}

\* The lesson is fetched with its period and its teacher.
ConfirmFetch(p, i, t, d) ==
  /\ pc[p] = "idle" /\ i \in Live
  /\ pc' = [pc EXCEPT ![p] = "asked"]
  /\ seen' = [seen EXCEPT ![p] =
                [entry |-> i, date |-> d, day |-> entry[i].day, period |-> time[entry[i].slot],
                 row |-> [absent |-> TeacherOf(entry[i]), substitute |-> t]]]
  /\ UNCHANGED <<tables, edits, disturbed>>

\* Fault: covers confirmed for the same date are not looked at.
OwnLessonsOnly(t, s) == ~Busy(OnDay(LessonsOf(t), s.day), s.period)
FreeToCover(t, s) ==
  /\ ~Busy(OnDay(LessonsOf(t), s.day), s.period)
  /\ ~Busy(Covering(t, s.date), s.period)

\* suggest, as confirm calls it: present, another one, and free that period.
Suggested(t, s) ==
  /\ s.day = Weekday[s.date]
  /\ [staff |-> t, date |-> s.date] \notin away
  /\ \E a \in Assignments : teaches[a] = t
  /\ t # s.row.absent
  /\ FreeToCover(t, s)

ConfirmCheck(p) ==
  /\ pc[p] = "asked" /\ Suggested(seen[p].row.substitute, seen[p])
  /\ pc' = [pc EXCEPT ![p] = "covering"]
  /\ disturbed' = IF \E q \in Requests : pc[q] = "covering"
                     THEN disturbed \cup {"covers"} ELSE disturbed
  /\ UNCHANGED <<tables, seen, edits>>

\* update_or_create, refused when the lesson is gone.
ConfirmWrite(p) ==
  LET s == seen[p]
  IN  /\ pc[p] = "covering" /\ entry[s.entry] # None
      /\ cover' = [cover EXCEPT ![s.entry][s.date] = s.row]
      /\ pc' = [pc EXCEPT ![p] = "idle"] /\ seen' = [seen EXCEPT ![p] = None]
      /\ UNCHANGED <<entry, made, time, runs, follows, teaches, allotted, load, away, edits, disturbed>>

Uncover(i, d) ==
  /\ cover[i][d] # None
  /\ cover' = [cover EXCEPT ![i][d] = None]
  /\ UNCHANGED <<entry, made, time, runs, follows, teaches, allotted, load, away, pc, seen, edits, disturbed>>

-----------------------------------------------------------------------------
Init ==
  /\ entry = [i \in Ids |-> None] /\ made = 0
  /\ time = Bell /\ runs = BellDays /\ follows = Listed
  /\ teaches = Allocated /\ allotted = Granted
  /\ load = [t \in Teachers |-> DefaultLoad]
  /\ away = {} /\ cover = [i \in Ids |-> NoCover]
  /\ pc = [p \in Requests |-> "idle"] /\ seen = [p \in Requests |-> None]
  /\ edits = 0 /\ disturbed = {}

PlaceStep(p) ==
  \/ \E row \in Wanted : PlaceFetch(p, None, row)
  \/ p \in Planners /\ \E i \in Live, row \in Wanted : PlaceFetch(p, i, row)
  \/ PlaceCheck(p) \/ PlaceWrite(p)
CoverStep(p) ==
  \/ \E i \in Live, t \in Substitutes, d \in Dates : ConfirmFetch(p, i, t, d)
  \/ ConfirmCheck(p) \/ ConfirmWrite(p)
ScheduleStep(p) ==
  \/ p \in Planners /\ \E s \in Slots \cap Edited : RemoveCheck(p, s)
  \/ RemoveSlot(p)
Edit ==
  \/ \E s \in Slots \cap Edited, t \in Times, days \in Weeks : Retime(s, t, days)
  \/ \E x \in Sections \cap Edited, b \in Schedules : Follow(x, b)
  \/ \E a \in Assignments \cap Edited, t \in Teachers : Reassign(a, t)
  \/ \E a \in Assignments \cap Edited, n \in Allotments : Allot(a, n)
  \/ \E t \in Teachers \cap Edited, n \in Loads : SetLoad(t, n)

Next ==
  \/ \E p \in Requests : PlaceStep(p) \/ CoverStep(p) \/ ScheduleStep(p) \/ Abort(p)
  \/ \E i \in Ids : DeleteEntry(i)
  \/ \E t \in Substitutes, d \in Dates : SetAway(t, d)
  \/ \E i \in Ids, d \in Dates : Uncover(i, d)
  \/ Edit

Spec == Init /\ [][Next]_vars

-----------------------------------------------------------------------------
PlacingSeen ==
  [entry : Ids \cup {None}, row : Row, teacher : Teachers, period : Times, allotted : Allotments]
RemovingSeen == [slot : Slots]
CoveringSeen == [entry : Ids, date : Dates, day : Days, period : Times, row : CoverRow]

\* Every table keeps its shape and no lesson points to a period that is gone.
TypeOK ==
  /\ entry \in [Ids -> Row \cup {None}] /\ made \in 0..MaxEntries
  /\ \A i \in Live : i <= made /\ time[entry[i].slot] # None
  /\ time \in [Slots -> Times \cup {None}] /\ runs \in [Slots -> Weeks]
  /\ allotted \in [Assignments -> Allotments]
  /\ follows \in [Sections -> Schedules] /\ teaches \in [Assignments -> Teachers]
  /\ load \in [Teachers -> Loads] /\ away \subseteq Absence
  /\ cover \in [Ids -> [Dates -> CoverRow \cup {None}]]
  /\ \A i \in Ids : entry[i] = None => cover[i] = NoCover
  /\ pc \in [Requests -> {"idle", "fetched", "placing", "removing", "asked", "covering"}]
  /\ \A p \in Requests :
       CASE pc[p] \in {"fetched", "placing"} -> seen[p] \in PlacingSeen
         [] pc[p] = "removing" -> seen[p] \in RemovingSeen
         [] pc[p] \in {"asked", "covering"} -> seen[p] \in CoveringSeen
         [] OTHER -> seen[p] = None
  /\ edits \in 0..MaxEdits
  /\ disturbed \subseteq {"times", "days", "schedules", "teachers", "loads", "moved", "parallel", "covers"}

\* However many offices build the timetable at once, no teacher stands in two
\* places at one time, as long as periods and allocations are not edited
\* under the lessons ("lock the teacher's row so two offices can't
\* double-book at once").
TeacherInOnePlace ==
  disturbed \cap {"times", "teachers"} = {} =>
    \A i, j \in Live : i # j /\ TeacherOf(entry[i]) = TeacherOf(entry[j])
                         => ~SameTime(entry[i], entry[j])

\* ... and neither the week of a teacher nor that of a subject is overfull.
LoadsRespected ==
  disturbed \cap {"teachers", "loads"} = {} =>
    /\ \A t \in Teachers : Cardinality(LessonsOf(t)) <= load[t]
    /\ \A a \in Assignments : allotted[a] > 0 => Cardinality(HeldFor(a)) <= allotted[a]

\* The periods of each schedule that run on one day do not overlap.
PeriodsApart ==
  \A s, r \in Slots :
    /\ s # r /\ SlotSchedule[s] = SlotSchedule[r] /\ runs[s] \cap runs[r] # {}
    /\ time[s] # None /\ time[r] # None
    => ~Overlaps(time[s], time[r])

\* A section is never taught two things at once, though lessons of different
\* teachers are placed under different locks: the unique index is what keeps
\* them apart, as long as the periods of a schedule are, and no section is
\* moved to another schedule nor a weekday taken from a period under lessons.
SectionInOnePlace ==
  PeriodsApart /\ disturbed \cap {"schedules", "days"} = {} =>
    \A i, j \in Live : i # j /\ entry[i].section = entry[j].section
                         => ~SameTime(entry[i], entry[j])

\* A room is locked by nobody: while one office places at a time, no two
\* sections are sent to one room.
RoomInOnePlace ==
  disturbed \cap {"times", "parallel"} = {} =>
    \A i, j \in Live : i # j /\ entry[i].room # None /\ entry[i].room = entry[j].room
                         => ~SameTime(entry[i], entry[j])

\* While one desk confirms at a time, nobody covers two lessons at one time,
\* unless a covered lesson is moved or retimed.
CoverNotTwice ==
  disturbed \cap {"times", "moved", "covers"} = {} =>
    \A d \in Dates, t \in Teachers : \A i, j \in Covering(t, d) :
      i # j => ~SameTime(entry[i], entry[j])

\* Sections, rooms and substitutes are not booked twice, though the lock of
\* the teacher covers none of them.
NothingBookedTwice == SectionInOnePlace /\ RoomInOnePlace /\ CoverNotTwice
=============================================================================
