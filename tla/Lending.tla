------------------------------ MODULE Lending ------------------------------
(***************************************************************************)
(* The library of one branch (apps/library): copies, loans, fines, holds   *)
(* and the catalogue edits that touch the same rows.                       *)
(*                                                                         *)
(* A view fetches its object outside any transaction and hands it to the   *)
(* service, which writes back what it was handed.  A request that works    *)
(* this way takes two steps: the fetch, and the transaction.  Issuing and  *)
(* returning lock the book in between and take the lock and the commit     *)
(* apart, because what they read besides the book is not locked.  Any      *)
(* other request is one step: it depends on nothing it read earlier.       *)
(*                                                                         *)
(* Abstractions.  A fine is as many units as there are days overdue; the   *)
(* fee counter settles a billed fine in full or not at all.                *)
(***************************************************************************)
EXTENDS Integers, Sequences, FiniteSets, FiniteSetsExt

CONSTANTS
  Books,
  Members,
  Requests,     \* requests in flight at the same time
  IssueDesks,   \* those of them that lend books
  ReturnDesks,  \* those of them that take books back or renew loans
  Copies,       \* values of copies_total
  Limits,       \* values of effective_borrow_limit: max_books, or the default for 0 and NULL
  Billable,     \* members whose fines are billed: students, where fees is licensed
  LoanDays, MaxRenewals,
  MaxDay,       \* bound: the last day told apart
  MaxRows,      \* bound: loans and fines ever made, of each
  MaxHolds,     \* bound: holds ever made
  None

ASSUME DesksAssumption ==
  IsFiniteSet(Requests) /\ IssueDesks \subseteq Requests /\ ReturnDesks \subseteq Requests
ASSUME MembersAssumption == Limits \subseteq Nat /\ Billable \subseteq Members
ASSUME NoneAssumption == None \notin Nat \cup {"open", "paid", "cancelled"}   \* SQL NULL
ASSUME NumbersAssumption ==
  Copies \subseteq Nat /\ {LoanDays, MaxRenewals, MaxDay, MaxRows, MaxHolds} \subseteq Nat

VARIABLES
  today,
  book,         \* book[b]: [total, available, deleted]
  limit,        \* limit[m]: member m's borrow limit
  loans,        \* Issue rows in order of creation
  fines,        \* Fine rows
  holds,        \* Hold rows, oldest first
  pc,           \* "idle", or what each request is in the middle of
  seen,         \* the object it fetched, with its id
  allowed       \* history, read by no action: the highest limit its member has
                \* had since a lending request fetched the member

vars == <<today, book, limit, loans, fines, holds, pc, seen, allowed>>

Open(i) == loans[i].returned = None
OpenLoans(b) == {i \in DOMAIN loans : loans[i].book = b /\ Open(i)}
LoansOf(m) == {i \in DOMAIN loans : loans[i].member = m /\ Open(i)}
Waiting(b) == {i \in DOMAIN holds : holds[i].book = b /\ holds[i].status = "waiting"}
Active(b, m) == {i \in DOMAIN holds : holds[i].book = b /\ holds[i].member = m
                                        /\ holds[i].status \in {"waiting", "ready"}}

Fetched(p, step, object) ==
  /\ pc' = [pc EXCEPT ![p] = step]
  /\ seen' = [seen EXCEPT ![p] = object]
Done(p) == Fetched(p, "idle", None) /\ allowed' = [allowed EXCEPT ![p] = 0]

\* Fault: the book is read without FOR UPDATE.
NoLock(p, b) == TRUE
\* select_for_update on the book, held to the end of the transaction.
BookFree(p, b) ==
  \A q \in Requests \ {p} : ~(pc[q] \in {"issuing", "returning"} /\ seen[q].book = b)

-----------------------------------------------------------------------------
(***************************************************************************)
(* issue_book.  The serializer fetches the book and the member, whose      *)
(* limit a PATCH may have changed by the time the loans are counted.       *)
(***************************************************************************)
FetchMember(p, b, m) ==
  /\ pc[p] = "idle" /\ ~book[b].deleted
  /\ Fetched(p, "issue", [book |-> b, member |-> m, limit |-> limit[m]])
  /\ allowed' = [allowed EXCEPT ![p] = limit[m]]
  /\ UNCHANGED <<today, book, limit, loans, fines, holds>>

\* Fault: the limit is compared one loan too late.
OverByOne(m, n) == Cardinality(LoansOf(m)) <= n
UnderLimit(m, n) == Cardinality(LoansOf(m)) < n

\* The book is locked, the member's loans are counted.
IssueLock(p) ==
  LET s == seen[p]
  IN  /\ pc[p] = "issue"
      /\ ~book[s.book].deleted /\ BookFree(p, s.book)
      /\ book[s.book].available >= 1
      /\ UnderLimit(s.member, s.limit)
      /\ \A i \in LoansOf(s.member) : loans[i].book # s.book
      /\ Len(loans) < MaxRows
      /\ Fetched(p, "issuing", [book |-> s.book, member |-> s.member,
                                available |-> book[s.book].available])
      /\ UNCHANGED <<today, book, limit, loans, fines, holds, allowed>>

IssueCommit(p) ==
  LET s == seen[p]
  IN  /\ pc[p] = "issuing" /\ Len(loans) < MaxRows
      /\ book' = [book EXCEPT ![s.book].available = s.available - 1]
      /\ loans' = Append(loans, [book |-> s.book, member |-> s.member, due |-> today + LoanDays,
                                 returned |-> None, renewals |-> 0])
      /\ Done(p)
      /\ UNCHANGED <<today, limit, fines, holds>>

-----------------------------------------------------------------------------
(***************************************************************************)
(* return_book, renew_issue                                                *)
(***************************************************************************)
FetchLoan(p, step, i) ==
  /\ pc[p] = "idle"
  /\ Fetched(p, step, [loan |-> i, row |-> loans[i]])
  /\ UNCHANGED <<today, book, limit, loans, fines, holds, allowed>>

\* Fault: the hold promoted is the one made last.
NewestWaiting(b) == IF Waiting(b) = {} THEN None ELSE Max(Waiting(b))
OldestWaiting(b) == IF Waiting(b) = {} THEN None ELSE Min(Waiting(b))

Freed(available, total) == Min({available + 1, total})

Closed(row) == row.returned # None

\* An open loan, as fetched: its book is locked and the next hold looked up.
\* A book deleted meanwhile is not found and the return fails.
ReturnLock(p) ==
  LET row == seen[p].row
      b   == row.book
  IN  /\ pc[p] = "return" /\ BookFree(p, b)
      /\ IF Closed(row) \/ book[b].deleted THEN Done(p)
         ELSE /\ Fetched(p, "returning", [loan |-> seen[p].loan, row |-> row, book |-> b,
                                          available |-> book[b].available, next |-> OldestWaiting(b)])
              /\ UNCHANGED allowed
      /\ UNCHANGED <<today, book, limit, loans, fines, holds>>

\* Fault: a fine is due from the due date on.
OverdueOnTheDay(row) == today - row.due + 1
DaysOverdue(row) == today - row.due
NewFine(i, row) ==
  [loan |-> i, amount |-> DaysOverdue(row), paid |-> FALSE, waived |-> FALSE,
   charge |-> IF row.member \in Billable THEN "open" ELSE None]

\* The hold was cancelled and the member has placed another one meanwhile:
\* making it ready breaks library_one_active_hold_per_book_member.
HoldClash(i) == i # None /\ Active(holds[i].book, holds[i].member) \ {i} # {}

ReturnCommit(p) ==
  LET s == seen[p]
  IN  /\ pc[p] = "returning" /\ ~HoldClash(s.next)     \* otherwise it aborts
      /\ loans' = [loans EXCEPT ![s.loan].returned = today]
      /\ book' = [book EXCEPT ![s.book].available = Freed(s.available, book[s.book].total)]
      /\ IF DaysOverdue(s.row) > 0
           THEN Len(fines) < MaxRows /\ fines' = Append(fines, NewFine(s.loan, s.row))
           ELSE UNCHANGED fines
      /\ IF s.next # None
           THEN holds' = [holds EXCEPT ![s.next].status = "ready"]
           ELSE UNCHANGED holds
      /\ Done(p)
      /\ UNCHANGED <<today, limit>>

\* Fault: the renewal limit is compared one renewal too late.
RenewableOnceMore(row) == row.renewals <= MaxRenewals
Renewable(row) == row.renewals < MaxRenewals

Renew(p) ==
  LET s    == seen[p]
      base == Max({s.row.due, today})
  IN  /\ pc[p] = "renew"
      /\ IF ~Closed(s.row) /\ Renewable(s.row) /\ Waiting(s.row.book) = {}
           THEN loans' = [loans EXCEPT ![s.loan].renewals = s.row.renewals + 1,
                                       ![s.loan].due = base + LoanDays]
           ELSE UNCHANGED loans
      /\ Done(p)
      /\ UNCHANGED <<today, book, limit, fines, holds>>

-----------------------------------------------------------------------------
(***************************************************************************)
(* Fines.  A billed fine's charge is paid at the fee counter; cancel_charge*)
(* refuses a charge that was paid or is already cancelled.                 *)
(***************************************************************************)
FetchFine(p, step, i) ==
  /\ pc[p] = "idle"
  /\ Fetched(p, step, [fine |-> i, row |-> fines[i]])
  /\ UNCHANGED <<today, book, limit, loans, fines, holds, allowed>>

\* Fault: the fine is waived though its charge could not be cancelled.
WaiveAnyway(i) == [fines EXCEPT ![i].waived = TRUE]
Waived(i) == [fines EXCEPT ![i].waived = TRUE,
                           ![i].charge = IF fines[i].charge = None THEN None ELSE "cancelled"]

WaiveFine(p) ==
  LET s == seen[p]
  IN  /\ pc[p] = "waive"
      /\ IF ~s.row.waived /\ fines[s.fine].charge \in {None, "open"}
           THEN fines' = Waived(s.fine)
           ELSE UNCHANGED fines
      /\ Done(p)
      /\ UNCHANGED <<today, book, limit, loans, holds>>

\* PATCH {paid} saves the whole fine as it was fetched.
PatchFine(p, paid) ==
  LET s == seen[p]
  IN  /\ pc[p] = "patch"
      /\ IF paid /\ s.row.charge # None THEN UNCHANGED fines
         ELSE fines' = [fines EXCEPT ![s.fine].paid = paid, ![s.fine].waived = s.row.waived]
      /\ Done(p)
      /\ UNCHANGED <<today, book, limit, loans, holds>>

\* The fee counter collects a billed fine.
SettleCharge(i) ==
  /\ fines[i].charge = "open"
  /\ fines' = [fines EXCEPT ![i].charge = "paid"]
  /\ UNCHANGED <<today, book, limit, loans, holds, pc, seen, allowed>>

-----------------------------------------------------------------------------
(***************************************************************************)
(* Holds                                                                   *)
(***************************************************************************)
\* The serializer fetches the book, perform_create looks at it.
CheckHold(p, b, m) ==
  /\ pc[p] = "idle"
  /\ ~book[b].deleted /\ book[b].available = 0
  /\ Active(b, m) = {}
  /\ Fetched(p, "hold", [book |-> b, member |-> m])
  /\ UNCHANGED <<today, book, limit, loans, fines, holds, allowed>>

\* The INSERT, refused by library_one_active_hold_per_book_member.
PlaceHold(p) ==
  LET s == seen[p]
  IN  /\ pc[p] = "hold"
      /\ IF Active(s.book, s.member) = {}
           THEN /\ Len(holds) < MaxHolds
                /\ holds' = Append(holds, [book |-> s.book, member |-> s.member, status |-> "waiting"])
           ELSE UNCHANGED holds
      /\ Done(p)
      /\ UNCHANGED <<today, book, limit, loans, fines>>

CancelHold(p, i) ==
  /\ pc[p] = "idle"
  /\ holds[i].status # "cancelled"
  /\ holds' = [holds EXCEPT ![i].status = "cancelled"]
  /\ UNCHANGED <<today, book, limit, loans, fines, pc, seen, allowed>>

-----------------------------------------------------------------------------
(***************************************************************************)
(* The members.                                                            *)
(***************************************************************************)
LendingTo(m) == {p \in Requests : pc[p] \in {"issue", "issuing"} /\ seen[p].member = m}

\* PATCH saves the whole member: a new max_books, or the one it fetched.
EditMember(m, n) ==
  /\ limit' = [limit EXCEPT ![m] = n]
  /\ allowed' = [p \in Requests |-> IF p \in LendingTo(m) THEN Max({allowed[p], n})
                                                          ELSE allowed[p]]
  /\ UNCHANGED <<today, book, loans, fines, holds, pc, seen>>

-----------------------------------------------------------------------------
(***************************************************************************)
(* The catalogue.  BookSerializer.update moves copies_available along with *)
(* copies_total and saves the whole book as it was fetched.                *)
(***************************************************************************)
FetchBook(p, b) ==
  /\ pc[p] = "idle" /\ ~book[b].deleted
  /\ Fetched(p, "edit", [book |-> b, row |-> book[b]])
  /\ UNCHANGED <<today, book, limit, loans, fines, holds, allowed>>

Shifted(row, total) == Max({0, row.available + total - row.total})

EditBook(p, total) ==
  LET s         == seen[p]
      available == Shifted(s.row, total)
  IN  /\ pc[p] = "edit" /\ BookFree(p, s.book)
      /\ IF available \in 0..total    \* library_book_available_nonneg, _lte_total
           THEN book' = [book EXCEPT ![s.book] =
                           [total |-> total, available |-> available, deleted |-> FALSE]]
           ELSE UNCHANGED book
      /\ Done(p)
      /\ UNCHANGED <<today, limit, loans, fines, holds>>

\* SoftDelete.delete sets deleted_at and looks at no related row.
DeleteBook(b) ==
  /\ ~book[b].deleted /\ \A q \in Requests : BookFree(q, b)
  /\ book' = [book EXCEPT ![b].deleted = TRUE]
  /\ UNCHANGED <<today, limit, loans, fines, holds, pc, seen, allowed>>

NextDay ==
  /\ today < MaxDay
  /\ today' = today + 1
  /\ UNCHANGED <<book, limit, loans, fines, holds, pc, seen, allowed>>

\* A request dies: its transaction is rolled back.
Abort(p) ==
  /\ pc[p] # "idle"
  /\ Done(p)
  /\ UNCHANGED <<today, book, limit, loans, fines, holds>>

-----------------------------------------------------------------------------
Init ==
  /\ today = 0
  /\ book \in [Books -> {[total |-> n, available |-> n, deleted |-> FALSE] : n \in Copies \ {0}}]
  /\ limit \in [Members -> Limits]
  /\ loans = <<>> /\ fines = <<>> /\ holds = <<>>
  /\ pc = [p \in Requests |-> "idle"]
  /\ seen = [p \in Requests |-> None]
  /\ allowed = [p \in Requests |-> 0]

LoanStep(p) ==
  \/ p \in IssueDesks /\ \E b \in Books, m \in Members : FetchMember(p, b, m)
  \/ IssueLock(p) \/ IssueCommit(p)
  \/ p \in ReturnDesks /\ \E i \in DOMAIN loans, step \in {"return", "renew"} : FetchLoan(p, step, i)
  \/ ReturnLock(p) \/ ReturnCommit(p) \/ Renew(p)
FineStep(p) ==
  \/ \E i \in DOMAIN fines, step \in {"waive", "patch"} : FetchFine(p, step, i)
  \/ WaiveFine(p) \/ \E paid \in BOOLEAN : PatchFine(p, paid)
HoldStep(p) ==
  \/ \E b \in Books, m \in Members : CheckHold(p, b, m)
  \/ PlaceHold(p)
  \/ \E i \in DOMAIN holds : CancelHold(p, i)
CatalogueStep(p) ==
  \/ \E b \in Books : FetchBook(p, b)
  \/ \E n \in Copies : EditBook(p, n)

Others ==
  \/ \E i \in DOMAIN fines : SettleCharge(i)
  \/ \E m \in Members, n \in Limits : EditMember(m, n)
  \/ NextDay

DeskNext ==
  \/ \E p \in Requests : LoanStep(p) \/ FineStep(p) \/ HoldStep(p) \/ Abort(p)
  \/ Others
Next ==
  \/ DeskNext
  \/ \E p \in Requests : CatalogueStep(p)
  \/ \E b \in Books : DeleteBook(b)

\* The library, and the library while nobody edits the catalogue.
Spec == Init /\ [][Next]_vars
DeskSpec == Init /\ [][DeskNext]_vars

-----------------------------------------------------------------------------
Loan == [book : Books, member : Members, due : Nat, returned : Nat \cup {None}, renewals : 0..MaxRenewals]
Fine == [loan : Nat, amount : Nat \ {0}, paid : BOOLEAN, waived : BOOLEAN,
         charge : {None, "open", "paid", "cancelled"}]
Hold == [book : Books, member : Members, status : {"waiting", "ready", "cancelled"}]
Steps == {"idle", "issue", "issuing", "return", "returning", "renew", "waive", "patch", "hold", "edit"}

\* Rows have their declared shape and pass the CHECK constraints, and renewals
\* never exceed the limit even when two requests renew one loan.
TypeOK ==
  /\ today \in 0..MaxDay
  /\ \A b \in Books : /\ book[b].total \in Copies /\ book[b].deleted \in BOOLEAN
                      /\ book[b].available \in 0..book[b].total
  /\ limit \in [Members -> Limits]
  /\ \A i \in DOMAIN loans : loans[i] \in Loan
  /\ \A i \in DOMAIN fines : fines[i] \in Fine /\ fines[i].loan \in DOMAIN loans
  /\ \A i \in DOMAIN holds : holds[i] \in Hold
  /\ pc \in [Requests -> Steps]

\* Every copy is on the shelf or on an open loan: copies_available is derived.
CopiesAccountedFor ==
  \A b \in Books : book[b].available + Cardinality(OpenLoans(b)) = book[b].total

\* A loan leaves its member within the borrow limit, whoever edits the limit
\* meanwhile.  issue_book locks the book and not the member: every other desk
\* that lends at the time may add one loan that was not counted, and no more.
LendsTo(p, m) ==
  pc[p] = "issuing" /\ seen[p].member = m /\ pc'[p] = "idle" /\ Len(loans') > Len(loans)
WithinBorrowLimit ==
  [][\A p \in Requests, m \in Members :
       LendsTo(p, m) => Cardinality(LoansOf(m)') <= allowed[p] + Cardinality(IssueDesks) - 1]_vars

FinesFor(i) == {f \in DOMAIN fines : fines[f].loan = i}

\* A loan is closed once: it accrues one fine when it came back late, of the
\* days it was late, and none when it was on time.
FinedWhenOverdue ==
  \A i \in DOMAIN loans :
    IF ~Open(i) /\ loans[i].returned > loans[i].due
      THEN \E f \in FinesFor(i) : /\ FinesFor(i) = {f}
                                  /\ fines[f].amount = loans[i].returned - loans[i].due
      ELSE FinesFor(i) = {}

\* A waived fine is not owed at the fee counter as well: its charge is gone.
WaivedOwesNothing ==
  \A f \in DOMAIN fines : fines[f].waived => fines[f].charge \in {None, "cancelled"}

\* The oldest waiting hold goes ready on return: no hold overtakes another one.
OldestHoldFirst ==
  [][\A i \in DOMAIN holds : holds[i].status # "ready" /\ holds'[i].status = "ready" =>
       \A j \in Waiting(holds[i].book) : i <= j]_vars
=============================================================================
