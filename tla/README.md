# ERAJ: a verification project

TLA+ models of the school ERP in `apps/`, checked with TLC on small instances,
with the theorems that TLAPS proves for instances of any size. The reference is
the source: each module says which functions it models, `PROJECT.json` maps each
definition to its lines.

## 1. The system and its parts

ERAJ is a Django application over one PostgreSQL database with a schema per
client. Every HTTP request is served by one of several workers, Celery workers
run the nightly task, Redis keeps the cached subscription state. Components of a
schema call each other in process (`apps/fees/services.py` is called by library,
hostel, mess and transport inside the caller's transaction); they share nothing
but the database. Transactions run at READ COMMITTED, so what two requests read
and write may interleave statement by statement unless a row lock or a unique
index prevents it. That is where this code is hard to test and where the models
put their steps.

| Component | State | Operations | Interacts with | Hard behaviour | Correct when |
|---|---|---|---|---|---|
| fees: ledger | charges, concessions, receipts and lines, refunds, receipt counters | post, cancel one, cancel future ones, approve or reject a concession, collect by lines or amount, refund, cancel a receipt | called by every component that bills | overlapping collections, cancellations, concessions and refunds; statement snapshots older than the locks | never more collected than due, no money on a withdrawn charge, no gaps in receipt numbers, one live charge per key |
| fees: plans, late fines | plans, instalments, fine charges | create, edit, delete, apply, fine | ledger, enrolments | an edit during an application, two fine runs | whoever is enrolled is billed, nobody is billed from what was edited away, a fine stays within its rule |
| core: subscriptions | subscription rows, plan modules, cached states | edit, gate a request, fill, expire, nightly task | middleware in front of every component | stale fills, a task that saves what it computed earlier, lost workers | a closed client gets nothing; statuses follow dates; terminations stand |
| library | books with copies, loans, fines, holds | issue, return, renew, waive, settle, hold, edit, delete | fines are billed to the ledger | objects fetched before the lock | copies add up, no loan beyond the limit but by a race, one fine per loan, holds in order |
| hostel: rooms | rooms, allocations, waiting list, tickets | allocate, vacate, join, cancel, repair, edit, delete | bills the ledger, enrols in the mess | a lock on different rows by different operations | capacity respected, beds offered fairly |
| hostel: mess | memberships, leaves, rebates, guest meals | enrol, end, leave, bill, count plates | ledger, rooms, outpasses | a second billing run, leave during a run | a month billed and a leave rebated once, plates counted alike |
| hostel: gate | visits, outpasses | request, decide, out, back, cancel | makes and ends mess leave; guardians are notified | decisions on stale rows | leave follows its outpass |
| timetable | lessons, bell schedules, loads, absences, substitutions | place, move, delete, edit periods, confirm | teaching assignments of people | a lock on the teacher only | nobody in two places, loads respected, sections and rooms booked once |
| exam | exams, papers, scales, marks, locks | save marks, lock, unlock, edit, publish | enrolments; parents read results | a batch during a lock, deadlocks | a batch counts as a whole, locked marks stand, ranks and averages are right |
| attendance | records, holidays, settings, cards, punches | mark, correct, push, import, report | devices, enrolments that end and change | a person and a device on one day, lost answers, midnight | one record a day, every punch counted once, reports that agree |
| people | years, students, enrolments, guardians | CRUD, import | enrolments are billed by fees | several statements without a transaction | an import is whole |
| inventory, transport, payroll | stock and loans; seats; payslips | issue and return; assign; generate | - | stale rows, check then insert | no seat on a full vehicle, no unit that is not on the shelf, one payslip a month |
| org, accounts, hr, rendering, configuration, frontend | permission tables, users, formats | filtering | all | none of its own | - |

## 2. Plan

1. `FeeLedger` (money first), its proofs, and the abstract `ReceiptBook` it
   implements. *Done.*
2. `SubscriptionGate` (every request goes through it), with its proofs. *Done.*
3. `Lending` with the proofs of its copies and limits, `HostelRooms` with the proof
   of the room capacity. *Done.*
4. `Timetable`: placement, moving, bell schedules, substitution, with the proof of
   what the lock of the teacher gives. *Done.*
5. `Results` (results and ranks as operators) and `ExamMarks` on top. *Done.*
6. `Attendance`: marking against device punches, reports against each other. *Done.*
7. `Mess` and, composed with it, `Gate`. *Done.*
8. `Admissions`, `LateFines` on the charges it bills, `Registers` (transport,
   stock, payroll), composed as `Office`. *Done.*
9. Theorems about money, queues, the timetable, the mess and the office. *Done*
   (section 5).
10. Theorems about marks and results, the register and its reports. *Done*: every
    safety property of a run is now a theorem (section 5).
11. Not begun: an abstract `Account` (what a student owes, one step per operation),
    implemented by `FeeLedger` with one request at a time.

The composition: `Null` declares what SQL NULL is, `RequestSteps` the requests that
overlap (what each has read, the step it is at), `Desk` bounds how many of them are
served; `ClassList` has the students and sections that exams and attendance read.
`HostelRooms` extends `RequestSteps`; `Mess`, `Admissions`, `Registers`, `ExamMarks`
and `Attendance` extend `Desk`; `Gate` extends `Mess`, `LateFines` extends
`Admissions`, `Office` extends `LateFines` and `Registers`; `ExamMarks` extends
`Results`, and `Results` and `Attendance` extend `ClassList`. The proof modules extend
the modules they are about: `HostelProofs` is about `Gate` (with `Mess`) and
`HostelRooms`, `ClassroomProofs` about `ExamMarks` (with `Results`) and `Attendance`,
each about its own specification, and the others are named for their one module.
`Sums` has the facts about sums, smallest and greatest elements and counts that
several of them need.

## 3. The modules

Each model takes one step per database statement that can interleave: the
snapshot of a locking SELECT, the moment its locks are granted, each later read,
and the commit, where all writes of a transaction appear at once. A transaction
may abort at any step (`Abort`). An operation that locks, reads and writes one row
is one step. Where a module has a definition marked `Fault:` it is a plausible
bug of the definition after it; no specification uses it.

### FeeLedger (`apps/fees`)

`status`, `discount` are the columns of `Charge` (`"live"` is a row without
`cancelled_at`), `concession` the status of `Concession`, `receipts` the
`Receipt` rows with their lines in order of commit, `refunded` the total of the
`RefundLine` rows per charge, `counter` the `ReceiptCounter` per year. `txn[p]` is
what request `p` has read, locked and will write.

| Code | Actions |
|---|---|
| `collect` | `CollectBegin` (snapshot of the locking SELECT), `CollectLock` (locks, balances, checks), `CollectNumber` (counter lock), `CollectCommit` |
| `refund` | `RefundBegin`, `RefundLock`, `RefundCommit` |
| `cancel_receipt` | `CancelReceipt` |
| `post_charge`, `add_adjustment` | `PostFind`, `PostInsert`, `RecomputeRead`, `WriteCommit` |
| `cancel_charge`, `cancel_future_charges` | `CancelBegin`, `CancelLock`, then as above (the latter does not recompute) |
| `decide_concession` | `Approve`, `Reject`, then as above |

A student has one fee head and year, so the rows a recompute visits are all of
the student's live charges; money is in whole units; `Reduction[k][c]` is what a
concession takes off a charge. The lines of a request come in the order of their
charges (`InOrder`): the code handles them one by one and independently, so another
order makes the same receipt. `overtaken` is history: the charges on which a commit
has outdated what an open request computed from (`Outdates`): a payment for a charge
whose new discount is waiting to be written, or money taken off a charge, past the row
locks, while a refund of it is waiting.

### SubscriptionGate (`apps/core`)

`row` is the committed `Subscription`, `saving` what an open admin transaction
will commit, `cache` the Redis entries, `req[q]` what a request has read on a
cache miss, `batch` the rows the nightly task has read and not handled. Actions:
`Arrive`, `ReadRow`, `ReadModules`, `Fill`, `Leave` (middleware), `Expire` (TTL),
`AdminSave` (UPDATE and post_save), `AdminCommit`, `EditPlan` (no signal), `NextDay`
(the beat), `TaskStart`, `TaskRow`, `TaskEnd`, `Crash` (acks late, re-queued).

### Lending (`apps/library`)

`book` holds the copies, `loans`, `fines` and `holds` the rows. `seen[p]` is the
object a view fetched before it called the service. `limit[m]` is the borrow limit
of a member, which the library edits at any time (`EditMember`, a PATCH of
`max_books`); `FetchMember` is where a loan takes it from. `allowed` is history: the
highest limit its member had since a lending request fetched it.
`FetchMember`/`IssueLock`/`IssueCommit`,
`FetchLoan`/`ReturnLock`/`ReturnCommit`, `FetchLoan`/`Renew`,
`FetchFine`/`WaiveFine` or `PatchFine`, `CheckHold`/`PlaceHold`, `CancelHold`,
`FetchBook`/`EditBook`, `DeleteBook`; `SettleCharge` is the fee counter, which is
modelled in full by `FeeLedger`.

### HostelRooms (`apps/hostel/services.py`)

`bed[s]` is the room of a student's open `Allocation` (a unique index allows
one), `tickets[r]` the number of open repair tickets, `waitlist` the rows in
order of creation. `AllocateLock`/`AllocateCommit`, `VacateLock`/`VacateCommit`,
`WaitCheck`/`WaitCommit`, `CancelEntry`, `OpenTicket`, `CloseTicket`,
`FetchRoom`/`EditRoom`, `DeleteRoom`.

### ReceiptBook

What the receipts of a branch look like from outside: a sequence that grows by the
next number of a year or in which a receipt is marked cancelled. `FeeLedger` has
`Book == INSTANCE ReceiptBook WITH book <- receipts` and the property
`ReceiptsAreABook == Book!Spec`.

### Timetable (`apps/timetable`)

`entry[i]` is a `TimetableEntry`, `time[s]` and `runs[s]` the times and weekdays of a
`PeriodSlot` (none for a break), `follows` the schedule of
a section, `teaches` and `allotted` the teacher of an assignment and its periods a week, `load`, `away` and `cover` the rows
of `TeacherLoad`, `TeacherAbsence` and `Substitution`.

| Code | Actions |
|---|---|
| `place` | `PlaceFetch` (period, allocation and teacher as the serializer fetched them, and the checks made on them), `PlaceCheck` (lock of the teacher, the checks against the grid), `PlaceWrite` (the unique index, the row) |
| deletion of a lesson | `DeleteEntry` |
| `BellScheduleSerializer` | `Retime` (times, weekdays, break); `RemoveCheck`, `RemoveSlot`; `Follow` |
| `suggest`, `confirm` | `ConfirmFetch`, `ConfirmCheck`, `ConfirmWrite`, `Uncover` |
| loads, absences, assignments | `SetLoad`, `SetAway`, `Reassign`, `Allot` |

The code lets an office edit periods and allocations under lessons that stand.
`disturbed` records which of those edits happened while a lesson stood or a request
was under way (`"times"`, `"days"`, `"schedules"`, `"teachers"`, `"loads"`), and which
overlaps that nothing prevents: two placements past their checks (`"parallel"`), two
confirmations (`"covers"`), a covered lesson moved (`"moved"`). Each property names the
ones it cannot survive: what remains is what the checks, the lock and the index give.

### Results and ExamMarks (`apps/exam`)

`Results` has no state: it computes what `exam_results`, `analysis`,
`annual_results` and `cgpa` compute from marks, papers and bands, in hundredths with
the rounding of `q2`. A class in order of merit is some sequence of its students, each
once, by falling percentage (`ByPercent`): which of two with the same percentage comes
first is left open, and the theorem on ranks shows it makes no difference. `ExamMarks` has the tables (`marks`, `locked`, `papers`,
`bands`, `published`). `save_marks` is `SaveBegin` (the look at the lock), a `SaveRow`
per row in the order sent, each of which keeps the row's lock, and `SaveCommit`; a
refused row undoes the batch; two batches that wait for each other are ended by
`Deadlock`. `EditScale` deletes the bands and `CreateBands` makes new ones.
`lowered` is history: a maximum was lowered under marks.

### Attendance (`apps/attendance`)

`rows[k]` are the records of a student, day and period; `log` is what the device
has, `acked` what it knows to have arrived, `stored[i]` the `Punch` rows of punch `i`.
`enrolled` and `active` say in which section a student is enrolled and whether the
student's own row is active; `Enrol` and `EditStudent` change them at any moment. `been`
is history: what section a student could be marked in, and when in none. A record keeps
the section it was made in. `mark_section` is `MarkFetch` (the holidays, the mode and the
class list, read without a lock), `MarkLock` (the locking read) and `MarkWrite`. A push or an import
(`Push`, `Import`) is ingested punch by punch, a transaction each (`IngestOne`), and
answered (`Answer`); the answer may be lost (`LoseAnswer`) and the request may die
(`Crash`). The reports are operators over `rows`.

### Desk, Mess and Gate (`apps/hostel/mess.py`, `gate.py`)

One student, one mess, months of `MonthLength` days. `bill_mess_month` and
`bill_member_month` are `BillStart` (the row the job fetched), `BillRead` (what is
billed and rebated) and `BillPost`; enrolling, ending, taking and deleting leave are
a check and a write each, as are requesting and cancelling an outpass and deciding
a visit. `decide_outpass`, `gate_out` and `gate_in` lock the outpass and are one step.
`headcount` and `contractor_plates` are operators. `Collect` stands for the fee
counter. A rebate is found by its member and month, as in the code; `lost` keeps
those whose leave was deleted.

### Admissions, LateFines, Registers and Office

`Admissions` has the registry of `apps/people` and the plans of `apps/fees`. An
enrolment made through the API commits (`Enrol`), then its receiver reads the plans
(`SignalRead`) and bills each (`SignalBill`); an import is `Upload`, `ImportRow` per
row and `ImportCommit`; a plan edit is `EditFetch` (instalments prefetched),
`EditCheck`, `EditReplace`; `apply_plan` is `ApplyFetch`, `ApplyRead`, `ApplyPost`; the
current year and the primary guardian are two statements each. An admission number
that an import has inserted and not committed makes whoever enters it wait
(`IndexFree`). `owed` and `file` are history. `LateFines` adds the day, payments and
`apply_late_fines` (`FineRead`, `FineWrite`). `Registers` has one vehicle, one stock
item and the payslips of one member of staff; `restocked` is history: a unit came back
a second time, or an edit put units on the shelf or took some off the books. `Office` puts them at the same desks.
Its `OrderlySpec` leaves out the overlap of plan edits with billing and the death of
a request between an enrolment and its bills; section 7 says what happens then.

## 4. The runs

| Run | Instance | What it shows |
|---|---|---|
| `fees_full` | 2 requests, 1 student, 2 charges of one key, 1 concession, 2 years, 2 receipts | gap-free numbers, one live charge per key and the refinement of `ReceiptBook`; a credit from a concession or a refund beyond what is paid only where the request was overtaken; for every overlap of two transactions of any kind |
| `fees_orderly` | 2 requests, 2 students, 3 charges, 1 concession, 2 receipts of up to 2 lines for different charges; collections overlap with collections, everything else runs alone | two cashiers do not over-collect; an amount goes to the oldest dues first; no money on a cancelled charge |
| `gate_full` | 1 client, 1 module, 1 request at a time, 1 edit, 1 lost worker, rows of any status to begin with | closed entries grant nothing; the task moves the status only and terminates nobody; stale entries go away; statuses follow dates |
| `lending_desks` | two lending desks, one of them also takes back, 2 members with limits edited between 0 and 1, 2 books of 2 copies, 2 loans, 3 days | copies add up under the book lock, a loan beyond the limit by one at most, one right fine per late loan, a waiver owes nothing |
| `lending_full` | 2 desks doing everything and the catalogue, 1 book, 2 holds | CHECK constraints, renewal limit, hold order |
| `hostel_full` | 2 requests, 3 students, 1 room of 1 or 2 beds, 2 waiting entries | capacity, oldest first |
| `timetable_full` | 2 offices (one also moves lessons and removes periods), 2 sections, 3 teachers, 2 schedules with overlapping periods, 1 room, 2 lessons, 1 edit | teachers in one place and loads of teachers and subjects, whatever overlaps; sections, rooms and substitutes not booked twice, but for the edits and overlaps in `disturbed` |
| `exam_full` | 2 requests, 3 students in 2 sections, 2 exams, 3 papers, 6 batches in both orders; every earlier table of marks of 3 levels | batches are atomic and end; locked marks change only by a batch that was on its way; percentages within 100, ranks count who is better, averages between what they average, better marks never hurt |
| `attendance_full` | 2 requests, 2 sections, 2 students, one of whom leaves, comes back and changes section, 3 days, 1 card, 1 punch sent again and again, 1 dead request; every earlier table of marks | one record per key, sections marked whole, who may correct what, calendar, class list, register, absentees and daily summary agree, punches arrive |
| `boarding_full` | 2 requests, 2 memberships, 2 leaves, 2 outpasses, 1 visit, months of 2 days, 5 days, monthly and per-day plans | one bill and one rebate, bills reduced by registered rebates only, leave within an outpass that stands, plates counted alike |
| `office_full` | 2 requests, 2 students, 2 classes, 2 plans, files sharing a student and a guardian, 4 days, 1 vehicle, 1 item, 1 payslip month, 3 requests served | enrolled is billed, imports whole, no charge from an edited instalment, fines within their rule and not after payment, nobody on a full vehicle, the shelf within 0 and the total, units out and on the shelf within the total until some are counted anew |
| `office_unbilled` | the same without the order | violated: section 7 |

`OrderlySpec` (ledger, office), `DeskSpec` with one returning desk and the history
variables (`overtaken`, `allowed`, `disturbed`, `restocked`, `been`) say under which
overlaps the rules hold; section 7 says under which they do not. A rule that a history
variable qualifies is checked under the whole `Spec`: the overlap that breaks it happens
in the run, and the property says that nothing else does.

**Bounds.** `MaxLines`, `MaxReceipts`, `MaxDay`, `MaxEdits`, `MaxCrashes`, `MaxRows`,
`MaxHolds`, `MaxTickets`, `MaxEntries`, `MaxPunches`, `MaxServed`, `LastDay` and
`MaxUnits` stop counters that the code leaves unbounded. Two requests are enough for
a race between two transactions, which is what the locks are there for. Two
receipts meet on one counter, two charges are the least that has an oldest one, two
holds or waiting entries the least that has an order, days 0 to 3 the least in which
a subscription passes through every status, three students the least with ties and
someone below them, two lessons the least that can clash, months of two days the
least in which leave crosses a month and an early return shortens it. Reports and
results are pure, so `exam_full` and `attendance_full` also begin from every table of
a bounded kind that earlier requests may have left, and serve nothing from there: a
long history is replaced by its result. A limit of 0, which is what
`effective_borrow_limit` is where `LIBRARY_DEFAULT_BORROW_LIMIT` is 0, is among the
limits of `lending_desks` because both lending desks then get past it with two loans
only. `timetable_full` has one edit: that a section is no longer kept apart once a
weekday was taken from a used period takes two, so that clause is the theorem's alone.
`attendance_full` has one punch, resent: a batch that stops between two of them is
covered by the theorem on the register, which has no such bound. Every property of a passing run has a
mutant of the code in `PROJECT.json` that breaks it within the same bounds, so the
instances are large enough for the hazards to happen. A run switches deadlock
checking off where the bounds let the system run out of rows.

**Symmetry** is used for requests (and students of `HostelRooms`) where no
constant tells them apart, never in the run with liveness properties.

**Fairness.** Three runs have liveness properties. `gate_full` assumes of the
middleware that a request it has begun to answer is carried on, of Redis that a TTL
runs out, of an admin transaction that it ends, of the beat that a day passes and of
Celery that a queued task is picked up and carried on (`task_acks_late` and
`task_reject_on_worker_lost` requeue it, and lost workers are bounded).
`exam_full` assumes that a batch that has been begun goes on and that PostgreSQL
looks for deadlocks; `SavesEnd` would be false without the latter.
`attendance_full` assumes that the device pushes again what was not acknowledged
(that is what its stamp is for) and that a running request goes on; deaths of
requests are bounded. Nobody has to send requests, edit, or crash.

## 5. The proofs

Every theorem is about all values of the constants that satisfy the ASSUMEs of its
module: any number of requests, rows and days. Each `ASSUME` is evaluated by the runs
too. All invariants below were model-checked on the run's instance before they were
proved. `PROJECT.json` lists the theorems; this section says from what they follow.

**Sums.** The models add up with `SumFunctionOnSet` of the community modules and take
the smallest element of a set of numbers. Both are defined by choice and recursion.
The facts needed (splitting off an element, monotony, scaling, changing
one summand, a least and a greatest element exist) are proved once, by taking a smallest subset for
which they fail: inclusion on finite sets is well founded (`WFMin`), which replaces
the induction theorems, whose operator parameter the provers cannot instantiate.

**FeeLedgerProofs**, from `ChargesAssumption`, `ConcessionAssumption` and
`BoundAssumption`, about `Spec`, that is every overlap:

- `TypeCorrect`: `TypeOK`, inductive once the lists of lines and the allocations of
  open transactions are given their types.
- `NumbersHaveNoGaps`: the numbers on record alone do not carry the induction: what
  does is that a request in `"numbered"` holds the next number of its year, and that
  no two such requests share a year (the lock of the counter).
- `KeysAreBilledOnce`: a transaction past its insert has seen no committed live row
  of the key, no other such transaction inserts or removes a row of that key, and
  rows being inserted are not yet there.
- `LedgerImplementsBook`: `Spec => Book!Spec`, the refinement of the abstract
  book. A commit appends the number after those on record, by the invariant of
  `NumbersHaveNoGaps`; every other action leaves `receipts` alone or marks one.
- `OldestDuesAreFirst`: what is left of an amount when the walk through the dues
  reaches a charge is the amount less the earlier dues, and the whole walk spends it
  exactly (`AskedInv`).

The money theorems are about `OrderlySpec`, in which collections overlap with each
other, everything else runs alone, and a request names no charge twice
(`OncePerCharge`): `NeverOverCollected`, `WithdrawnHoldsNoMoney`. One invariant,
`MoneyInv`, carries both. `Alone` says that who does not collect has no company; `HoldsApart`
that no two collections hold one charge; `RowsRead` that the snapshot of a
collection still holds the student's live charges; `DuesReserved` that what it is
about to take is within what its charges owe, now and until it commits, because
only receipts of other charges are written meanwhile. `ReadsHold` says the same of
the reads of refunds, cancellations and recomputes. Section 7 has the behaviours that
make these rules false under `Spec`.

`ConcessionsCreateNoCredit` and `RefundsReturnWhatWasPaid` are about `Spec` again, with
every overlap, and say exactly which overlap breaks the rule: one that outdated what
the request read (`overtaken`), or, for refunds, a request with two lines for one
charge. Their invariant, `ReadingInv`, says of a request about to write a discount that it
fits under what is received (`DiscountFits`) and of one about to refund that what it
returns is still paid (`RefundFits`), on every charge where it has not been overtaken.
A step of another request either leaves the received and the paid amounts alone, or moves
them the harmless way, or is one of those `Outdates` records; two refunds hold different
charges (`RefundsApart`, the row locks).

**SubscriptionGateProofs**, from `SetsAssumption`, `CalendarAssumption` and
`NoneAssumption`: `EntriesWellFormed` (`TypeOK`), `GateStaysClosed`,
`ContractsSurviveTheTask`, `TaskEndsNoContract`. The entries of the cache alone are not
inductive: a request about to fill the cache already grants nothing when its status is
closed (`ClosedRequests`, which needs that a request that has read no row yet holds
no modules), and a row the task has read still exists (`BatchExists`). The two action
properties reduce to `TaskRow`.

**LendingProofs**, from `DesksAssumption`, `MembersAssumption`, `NumbersAssumption` and
`NoneAssumption`. About `Spec`, with everybody at the desks and the catalogue:

- `RowsWellFormed` (`TypeOK`, with the CHECK constraints and the renewal limit): what
  a request fetched may be old, but its numbers are in the ranges the edit keeps.
- `WaivedIsNotOwed`: a PATCH writes back a `waived` it fetched, so the invariant
  says that a fine fetched as waived has its charge settled: a settled charge never
  becomes open again.
- `NobodyJumpsTheQueue`: the hold `ReturnLock` picked stays first, as holds are only
  added at the end and never wait again.

- `NobodyOverTheLimit`: any number of lending desks, and limits edited while they
  lend. The loans are counted under the lock of the book and compared with a limit
  fetched before, so a loan may go beyond the limit; the theorem says by how much: by one
  for every other lending desk, and over a limit that member had since it was
  fetched (`allowed`). The invariant counts ahead: whoever has passed the check has
  room (`Room`) for the loans it counted and for those that others may still add without
  having counted its own (`Uncounted`). With one lending desk this is the limit
  itself.

`CopiesAddUp`, about `DeskSpec`, the library while nobody edits the catalogue (one
returning desk, any number of lending ones): no two transactions hold a book
(`LockHeld`) and what the holder read of the copies is what there is (`CopiesKnown`).
The loan, fetched before the lock, is not protected: `StillOpen` is where the one
returning desk is needed. `LateLoansFinedOnce` (one returning desk) is about `Spec`:
what the desk fetched is the row still (`AsFetched`), so a loan is closed once and
fined in that step. With two returning desks TLC finds both violated (section 7).

**HostelProofs**, about `RoomsSpec` of `HostelRooms`, from `PeopleAssumption` and
`SizesAssumption`.
`CapacityRespected`: one allocating request per room, and while it works the room
keeps a free bed (`Shape /\ LockHeld /\ BedKept`), since nobody else moves in, a vacate
can only help and an edit of the capacity waits for the lock. `FirstComeFirstServed`: the
entry a vacate picked is the oldest that waits until it commits (`WaitInv`); the
list takes no lock, but it only grows at its end.

**TimetableProofs**, from `TablesAssumption`, `TimesAssumption`, `BoundsAssumption` and
`NoneAssumption`. A request is past its checks long before its lesson is in the
table, so each invariant says that what was found stays true until it is written.

- `TeachersNotDoubleBooked`, `WeeksWithinLimits`: no two placements hold one teacher
  (`LockHeld`), none of the teacher's other lessons is at that time (`StillFree`),
  and there is room in the week of the teacher and of the subject (`StillUnderLoad`).
- `NobodyBookedTwice`, in three parts with an invariant each. *Sections* (`SectionInv`):
  the unique index keeps a section in one period once (`Once`), and every lesson
  stands in a period of the section's schedule on a day on which it runs (`OnGrid`), so
  two of them overlap only if those periods do (`PeriodsApart`), or a schedule or weekday
  was taken from under a lesson. *Rooms* (`RoomInv`): nothing locks a room, so the room
  found stays free (`StillRoomy`) only until two placements are past their checks at
  once. *Substitutes* (`CoverInv`): the lesson is the one that was fetched (`AsAsked`) and
  the substitute stays free (`StillCoverable`) until two confirmations are past their
  checks or a covered lesson is moved.

A period fetched before an edit of its times is an old one: the edit is in `disturbed`
since a request was under way (`AsFetched` says that otherwise what was fetched is so
still). The edits that could upset these are recorded in `disturbed` whenever anything
stands, and when nothing stands there is nothing to upset.

**HostelProofs**, about `Spec` of `Gate`, from the assumptions of `Mess` and `Gate` (finitely
many rows, a calendar, rates in `Nat`, SQL NULL is no value, and a first table that
earlier requests can have left: `FirstRowsAssumption`).

- `LeaveHasItsOutpass`: leave with an outpass stands on one that is approved, out or
  returned and lies within its days. Every status change removes, shortens or keeps
  exactly the leave of its outpass in the same step.
- `KitchenAndContractorAgree`: true in every state, because members on leave are a
  subset of the members there, and both count members, not rows of leave.
- `MessBillsAreSound`: the invariant `BillInv` says of a billing request what its
  `BillRead` found and may rely on until `BillPost`: its old rebates are registered
  still or their leave is gone (then they are in `lost`), its new ones are for the
  month before and within the days of their leave (`Fits`), its amount is the base less
  at most their total (`Sound`). Only the unique indexes stop a second bill or
  rebate; a conflict undoes the transaction.

**OfficeProofs**, about `Office`, that is `Admissions`, `LateFines` and `Registers`
together. A step of one part leaves the variables of the others alone and moves no
request to one of their steps (`Moves`), so each invariant is split by the steps of
its own part only.

- `NeitherSeatsNorStockTwice` (`Spec`): who waits to give out a seat or a unit
  holds the counted row alone (`OneHolder`), and what it read of the count is what
  there is: a seat left, a unit on the shelf. So the shelf is never below zero nor above
  the total, and every unit out came off the shelf, until one is counted anew
  (`restocked`: returned twice, put there by an edit, or taken off the books while out).
- `ImportsAreWhole` (`Spec`): two imports under way insert different students
  (`ImportsApart`), none of which is there; a student that came with a file came
  with all its rows. This is where the unique index on the admission number is needed.
- `FinesKeepToTheRule` (`Spec`): a fine that is computed and not written yet is within
  the rule of the day it was computed on, and a later day or a payment only
  widens it or fixes it (`WithinRule`, `LateUntil`).
- `EnrolledAreBilled`, `ChargesFollowTheRules` (`OrderlySpec`): `PlanInv` says that
  what is owed is billed or is still to be posted by a request that is under way
  (`OwedInv`, `StillToPost`), that a request that bills does so from instalments that
  exist (`PlanCarries`), and that an edit found nobody billed from what it replaces,
  which stays true since no billing overlaps with it (`Apart`).

**ClassroomProofs**, about `Spec` of `ExamMarks`, from `RosterAssumption` (a finite
class, each student in one section), `ExamAssumption` (credits above 0, weightages not
below), and what the serializers check: `ScalesAssumption`, `PapersAssumption`,
`BatchesAssumption`, `EarlierAssumption`. The inductive invariant is
`ExamInv == ExamShape /\ MarksFit /\ LockKnown`: a batch under way has found its first
rows acceptable by the paper it read, that paper has no more room than the one on
record, and the lock of its section is open or was set over it.

- `BatchesStayWhole`: a commit writes every row of its batch or none
  (`CellWritten`); all rows of a batch are of one section, so where batches name
  whole sections (`WholeSections`) no student of a section is left with an older one.
- `ResultsAreSound`. *Percentages*: marks within their papers are within the whole, and
  `q2` keeps what lies between whole numbers between them (`RoundedWithin`), and
  its order. *Ranks*: every finite class has an order by falling percentage
  (`OrderExists`: a smallest class without one would have one), the walk along it is
  one function only, its value at a place is one more than the number of those strictly
  better, and counting places is counting students. *Averages*: a weighted mean lies
  between the least and the greatest of the values that have a weight.
- `MarksCount`: a batch that commits under the lock was under way when it was set
  (`LockKnown`); when no mark of a student gets worse the same subjects count, the
  total grows, and the best band reached (`BandReached`, for which the lowest band has
  to start at 0) does not fail where a lower one passed.

About `AttendanceSpec`, from `RosterAssumption`, `CalendarAssumption`, `SheetsAssumption`
and `EarlierRowsAssumption`, with the invariant `AttendanceInv`: every key has one record
or none and every punch one row or none (`RegisterShape`); a teacher's save wants a
whole section (`MarkersCarry`), what it has read stays so until it writes
(`ReadsHold`) because no two saves lock one row (`LocksApart`) and a punch writes empty
cells only; a teacher's record is never alone (`MarkedAsAWhole`).

- `RegisterStaysWhole` and `RulesAreKept` follow from it: a save that meets a new row
  saves nothing, a change of a past day is one that was allowed or none at all.
- `ReportsDoAgree`, in every state. *Percentages*: the three reports select the same
  records. *The day's counts*: the five statuses part the records made in the section,
  which are those of its students, and no more than its enrolments, while no student
  who was ever in it has left it (`Settled`): a record names a section its student was
  in (`SectionsKnown`). *Long absences*: the streak counted day by day is the number of
  marked days after the last that was no absence (`CountedRun`), and it is at least `n` exactly
  when the last `n` marked days are absences.

**Recursion without induction.** A rank, a streak and a sum are recursive functions.
What they compute is proved for every argument by the least counterexample: the places
at which the function differs from what is claimed form a finite set of numbers, which
has a least element if it has any, and there the defining equation says otherwise.

**Model-checked only.** Liveness and everything under fairness (`SavesEnd`,
`EveryPunchArrives`, `StaleStateExpires`, `StatusFollowsDates`). All safety properties
of the passing runs are theorems.

## 6. Not modelled

The components with status `not_modelled` in `PROJECT.json` have no state worth a
model (rendering, reports, permission tables, users, the frontend, provisioning
commands). Inside modelled components: branch scoping and permissions (every actor
is assumed authorised), audit records, text, device formats, the staff import, the
monthly hostel fee of a bed, and rows that are only listed (menus, complaints, routes,
departments). Several rooms, messes, vehicles or items of one kind share nothing
but the tables, so one stands for all. In the database: deadlocks are broken by an
abort, which `Abort` covers where it is not modelled itself; serialization failures do
not occur at READ COMMITTED.

What the models hold constant although the code has an operation for it:

- the section a teaching assignment is for (a PATCH can change it), the rooms, and which
  schedule a period belongs to; bell schedules are not deleted;
- the class list of the exams (`SectionOf`): `BatchesDoNotMix` and `MarksCountFairly`
  are about students who stay in their section. In `Attendance` students leave, come
  back and change section, with one active enrolment at a time;
- the rule of the late fines: `FeeHeadViewSet` can PATCH it, and a fine computed before
  keeps the old one until the next run, so `FineWithinRule` is about the rule as it is;
- the members of the library and which of them are billed; only `max_books` is edited;
- the set of subscriptions: the superadmin can delete a row (`core/admin.py:16`), for
  which no signal is sent. Its cache entry goes away with the TTL, and the nightly task
  stops with an error at a row deleted after it was read.

Where a property says less than its name may suggest: `MessBillsAddUp` bounds what a
bill is reduced by, not that every registered rebate reduced one; `LeaveFollowsOutpass`
keeps leave within its outpass, not that an early return shortens it; `AdmittedWhole` is
about the plans that exist at enrolment; `OldestWaiterFirst` about the order of offers,
not that each is made once; `TaskLeavesContract` and `TaskNeverTerminates` do not keep the
task from reopening a contract that was terminated meanwhile (section 7);
`ChargedByTheRules` supposes the order of `OrderlySpec`.

## 7. Where code and words disagree

`office_unbilled` states what a docstring says, and TLC shows a behaviour of the code
in which it is false: `apps/fees/signals.py` says an enrolment and its charges commit
or roll back together, but nothing opens a transaction around the insert and its
receiver, so a request that dies in between leaves a student enrolled and unbilled.

The modules show more disagreements, nearly all of one sort: something is read
without the lock, or before it. They follow from the actions named here and are
stated without a run of their own.

Ledger:
- `collect` and `refund` compare each line with the balance on its own
  (services.py:287-295, 334-340), so two lines for one charge together take, or give
  back, more than there is: the money theorems suppose `OncePerCharge`;
- what a charge has `received` is computed in the snapshot the locking SELECT of
  `cancel_charge` starts with, before it waits for a collection's lock, so a charge
  paid meanwhile is withdrawn;
- a concession approved beside a collection leaves a credit (`RecomputeRead` before,
  `WriteCommit` after `CollectCommit`), and a refund beside `CancelReceipt` returns
  money that is no longer there. `NoCreditFromConcession` and `RefundWithinPaid` say that
  these are the only overlaps with that result: take `overtaken` out of either and
  `fees_full` finds it violated;
- a charge posted between the snapshot of `CollectBegin` and the balances of
  `CollectLock` is locked by nobody and can be collected twice.

Subscriptions:
- the nightly task saves what it computed from an older row, so a contract that was
  terminated in between is reopened (`TaskRow` after `AdminCommit`);
- a cache miss that read the row before a save sets the old state after
  `AdminSave` deleted the entry: only the TTL removes it (`StaleStateExpires`).

Library and rooms:
- `return_book` looks at `returned_at` of the row the view fetched, so two desks close
  one loan and fine it twice; a soft delete sets a column, so no foreign key protects
  a book that is out, and its return no longer finds it;
- two desks lend two books to one member at the limit (`IssueLock` locks the book), and
  a limit lowered after `FetchMember`, or below the loans that are open, is exceeded:
  `WithinBorrowLimit` says by how much;
- a hold cancelled after `ReturnLock` picked it becomes ready in `ReturnCommit`;
  a hold is placed although a copy came back after `CheckHold`; `PatchFine` takes
  back a waiver granted after `FetchFine`; `EditBook` writes back the copies of
  `FetchBook`, and floors them when copies on loan are withdrawn;
- `vacate` locks the allocation and not the room, so two vacates of one room spend
  both beds on one offer; a student is put on the waiting list of a room whose bed
  came free after `WaitCheck`.

Timetable:
- two offices send two teachers' lessons to one room (`PlaceCheck` locks the teacher);
- `Retime`, `Follow`, `Reassign` and `Allot` look at no lesson, so a period gets new
  times, or loses the weekday of a lesson that stands in it, and the next lesson of that
  section may be placed at the same time; a placement under way is checked against the
  period and the allotment it fetched before the lock (`PlaceFetch`); a lesson placed between
  `RemoveCheck` and `RemoveSlot` goes with the period;
- a covered lesson that is moved double-books its substitute, placing a lesson looks
  at no cover, and two desks confirm one substitute twice.

Exam and attendance:
- a batch that looked at the lock before it was set lands after it;
- that better marks help rests on the serializer: only `validate_bands` (serializers.py:30)
  makes the lowest band start at 0; on a scale saved any other way a
  percentage below every band fails nobody (services.py:184) while a higher one that
  reaches a failing band does. Nothing at all keeps a failing band from lying above a
  passing one (`SoundScale`);
- between `EditScale` and `CreateBands` results have no grades, and a crash leaves it
  so; `EditPaper` lowers a maximum below marks that were entered;
- `daily_summary` counts the records made in a section next to the students enrolled
  in it now, so a day can have more marked than enrolled once a marked student has left
  or changed section (`Enrol` after `MarkWrite`), and students marked elsewhere
  are missing from it;
- `long_absentees` looks back a limited number of days, so a long holiday hides an
  absence (the model has fewer days than the window).

Mess and gate:
- two requests for overlapping dates both get an outpass, and two leaves for the
  same days (`RequestCheck`, `LeaveCheck` lock nothing): the headcount counts members,
  not leaves, so the plates still agree;
- an outpass fetched before the student went out is cancelled after, and its leave
  deleted; a deleted leave takes its rebates from the register although the bill was
  reduced by them (`lost`);
- a job that fetched a member before it ended bills it after (`BillStart`, `EndWrite`);
  ending a membership with an earlier date withdraws the arrears of that month, whose
  due date lies in the next;
- two runs that find a bill of nothing both save the rebates it was worked out from,
  and one that writes later sets `charge` of a rebate to NULL (mess.py:161-163),
  although `MessRebate` keeps "the charge it reduced" (models.py:287): the link is left out
  of the rows of the model, and rebates are counted by member and month;
- two decisions on one visitor both succeed.

Office:
- a plan is edited after `EditFetch` while somebody is billed from its old instalments,
  and `ApplyPost` bills from a plan that was edited after `ApplyFetch`;
- two requests that set the current year or the primary guardian fail on the index,
  and one that dies in between leaves none; two guardians with one phone make every
  later import of that phone fail;
- `apply_late_fines` is said to run daily, and nothing schedules it;
- `ReturnFetch` by two requests puts one unit back twice, `ItemSave` writes back the
  quantity of `ItemFetch`, and either can hand a unit out twice (`restocked`);
  the constraint `inventory_item_available_nonneg` (models.py:22) is never reached, as the
  guard of `issue_item` refuses first, and `EditVehicle` sets a capacity below the riders.

## 8. How to run

    tlc -config fees_full.cfg MCFeeLedger.tla      # likewise the others
    tlapm FeeLedgerProofs.tla                      # likewise ClassroomProofs,
                                                   # HostelProofs, LendingProofs,
                                                   # OfficeProofs, Sums,
                                                   # SubscriptionGateProofs
                                                   # and TimetableProofs
