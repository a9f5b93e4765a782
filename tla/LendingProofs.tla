--------------------------- MODULE LendingProofs ---------------------------
(***************************************************************************)
(* What holds of the library for any number of books, members and requests.*)
(* With one desk that takes books back, however many lend, every copy is on*)
(* the shelf or on loan while nobody edits the catalogue, and a late loan  *)
(* is fined once.  However many there are, a loan exceeds the limit of its *)
(* member by the other lending desks at most, rows keep their shapes, a    *)
(* waived fine is not owed and the oldest hold is served first.            *)
(***************************************************************************)
EXTENDS Lending, Sums, FiniteSetTheorems, SequenceTheorems, TLAPS

OneReturnDesk == \A p, q \in ReturnDesks : p = q

BookRow == [total : Nat, available : Int, deleted : BOOLEAN]
Lending(p) == pc[p] \in {"issue", "issuing"}
Issuing(p) == pc[p] = "issuing"
Returning(p) == pc[p] = "returning"
HasLoan(p) == pc[p] \in {"return", "returning", "renew"}

\* The types the argument needs: fines and holds do not matter to it.
Shape ==
  /\ today \in Nat
  /\ book \in [Books -> BookRow]
  /\ loans \in Seq(Loan)
  /\ pc \in [Requests -> Steps] /\ DOMAIN seen = Requests
  /\ \A p \in Requests :
       /\ Lending(p) => seen[p].book \in Books /\ seen[p].member \in Members
       /\ Issuing(p) => seen[p].available \in Int
       /\ HasLoan(p) => /\ seen[p].loan \in DOMAIN loans /\ seen[p].row \in Loan
                        /\ seen[p].row.book = loans[seen[p].loan].book
       /\ Returning(p) => seen[p].book = loans[seen[p].loan].book /\ seen[p].available \in Int

\* Only the desks that do so lend, take back and renew.
AtTheDesks ==
  \A p \in Requests : /\ Lending(p) => p \in IssueDesks
                      /\ HasLoan(p) => p \in ReturnDesks

Holds(p, b) == (Issuing(p) \/ Returning(p)) /\ seen[p].book = b
\* select_for_update: one request at a time works on a book, and what it read
\* of the copies is what there is.
LockHeld == \A p, q \in Requests, b \in Books : Holds(p, b) /\ Holds(q, b) => p = q
CopiesKnown ==
  \A p \in Requests, b \in Books : Holds(p, b) =>
    /\ seen[p].available = book[b].available
    /\ Issuing(p) => book[b].available >= 1

\* No other desk closes the loan that is being closed.
StillOpen ==
  \A p \in Requests :
    /\ pc[p] = "return" /\ ~Closed(seen[p].row) => Open(seen[p].loan)
    /\ Returning(p) => Open(seen[p].loan)

CopiesInv == Shape /\ AtTheDesks /\ LockHeld /\ CopiesKnown /\ StillOpen /\ CopiesAccountedFor

-----------------------------------------------------------------------------
\* The smaller of two numbers ...
LEMMA LeastOfTwo ==
  ASSUME NEW a \in Int, NEW b \in Int
  PROVE  Min({a, b}) \in Int /\ (a <= b => Min({a, b}) = a)
<1>1. \E x \in {a, b} : \A y \in {a, b} : x <= y
  OBVIOUS
<1>2. Min({a, b}) \in {a, b} /\ \A y \in {a, b} : Min({a, b}) <= y
  BY <1>1 DEF Min
<1> QED
  BY <1>2

\* ... and the greater one.
LEMMA GreatestOfTwo ==
  ASSUME NEW a \in Nat, NEW b \in Nat
  PROVE  Max({a, b}) \in Nat /\ Max({a, b}) >= a /\ Max({a, b}) >= b
<1>1. \E x \in {a, b} : \A y \in {a, b} : x >= y
  OBVIOUS
<1>2. Max({a, b}) \in {a, b} /\ \A y \in {a, b} : Max({a, b}) >= y
  BY <1>1 DEF Max
<1> QED
  BY <1>2

\* Open loans can be counted.
LEMMA LoansFinite ==
  ASSUME Shape, NEW S \in SUBSET (DOMAIN loans)
  PROVE  IsFiniteSet(S) /\ Cardinality(S) \in Nat
<1>1. IsFiniteSet(DOMAIN loans)
  BY LenProperties, FS_Interval DEF Shape
<1> QED
  BY <1>1, FS_Subset, FS_CardinalityType

-----------------------------------------------------------------------------
\* A loan that is added is the last one, the others stay.
LEMMA LentOne ==
  ASSUME Shape, NEW p \in Requests, IssueCommit(p)
  PROVE  /\ loans' \in Seq(Loan) /\ Len(loans') = Len(loans) + 1
         /\ \A i \in DOMAIN loans : i \in DOMAIN loans' /\ loans'[i] = loans[i]
         /\ DOMAIN loans' = (DOMAIN loans) \cup {Len(loans) + 1}
         /\ Len(loans) + 1 \notin DOMAIN loans
         /\ loans'[Len(loans) + 1].book = seen[p].book
         /\ loans'[Len(loans) + 1].member = seen[p].member
         /\ loans'[Len(loans) + 1].returned = None
<1> DEFINE new == [book |-> seen[p].book, member |-> seen[p].member, due |-> today + LoanDays,
                   returned |-> None, renewals |-> 0]
<1>1. new \in Loan
  BY NumbersAssumption DEF Shape, IssueCommit, Issuing, Lending, Loan
<1>2. loans' = Append(loans, new)
  BY DEF IssueCommit
<1>3. Len(loans) \in Nat /\ DOMAIN loans = 1..Len(loans)
  BY LenProperties DEF Shape
<1>4. /\ loans' \in Seq(Loan) /\ Len(loans') = Len(loans) + 1
      /\ \A i \in 1..Len(loans) : loans'[i] = loans[i]
      /\ loans'[Len(loans) + 1] = new
  BY <1>1, <1>2, AppendProperties DEF Shape
<1>5. DOMAIN loans' = 1..(Len(loans) + 1)
  BY <1>4, LenProperties
<1> QED
  BY <1>3, <1>4, <1>5

\* Taking back or renewing changes one loan, and neither its book nor member.
LEMMA ReturnedOne ==
  ASSUME Shape, NEW p \in Requests, ReturnCommit(p)
  PROVE  /\ loans' \in Seq(Loan) /\ DOMAIN loans' = DOMAIN loans
         /\ \A i \in DOMAIN loans : loans'[i].book = loans[i].book /\ loans'[i].member = loans[i].member
         /\ \A i \in (DOMAIN loans) \ {seen[p].loan} : loans'[i] = loans[i]
         /\ loans'[seen[p].loan].returned = today
<1> DEFINE i == seen[p].loan
           row == [loans[i] EXCEPT !.returned = today]
<1>1. i \in DOMAIN loans /\ loans' = [loans EXCEPT ![i] = row]
  BY DEF Shape, ReturnCommit, HasLoan
<1>2. DOMAIN loans = 1..Len(loans) /\ loans[i] \in Loan
  BY <1>1, LenProperties, ElementOfSeq DEF Shape
<1>3. row \in Loan /\ row.book = loans[i].book /\ row.member = loans[i].member /\ row.returned = today
  BY <1>2 DEF Loan, Shape
<1>4. /\ loans' \in Seq(Loan) /\ Len(loans') = Len(loans)
      /\ \A j \in 1..Len(loans) : loans'[j] = IF j = i THEN row ELSE loans[j]
  BY <1>1, <1>2, <1>3, ExceptSeq DEF Shape
<1>5. DOMAIN loans' = DOMAIN loans
  BY <1>2, <1>4, LenProperties
<1> QED
  BY <1>1, <1>2, <1>3, <1>4, <1>5

\* Renewing keeps the book, the member and the return of every loan.
LEMMA RenewedOne ==
  ASSUME Shape, NEW p \in Requests, Renew(p)
  PROVE  /\ loans' \in Seq(Loan) /\ DOMAIN loans' = DOMAIN loans
         /\ \A i \in DOMAIN loans : /\ loans'[i].book = loans[i].book
                                    /\ loans'[i].member = loans[i].member
                                    /\ loans'[i].returned = loans[i].returned
<1> DEFINE i == seen[p].loan
           base == Max({seen[p].row.due, today})
           row == [loans[i] EXCEPT !.renewals = seen[p].row.renewals + 1, !.due = base + LoanDays]
<1>1. CASE UNCHANGED loans
  BY <1>1 DEF Shape
<1>2. CASE loans' = [loans EXCEPT ![i].renewals = seen[p].row.renewals + 1, ![i].due = base + LoanDays]
           /\ Renewable(seen[p].row)
  <2>1. i \in DOMAIN loans /\ seen[p].row \in Loan
    BY DEF Shape, Renew, HasLoan
  <2>2. DOMAIN loans = 1..Len(loans) /\ loans[i] \in Loan
    BY <2>1, LenProperties, ElementOfSeq DEF Shape
  <2>3. base + LoanDays \in Nat
    <3>1. seen[p].row.due \in Nat /\ today \in Nat
      BY <2>1 DEF Loan, Shape
    <3>2. base \in Nat
      BY <3>1, GreatestOfTwo
    <3> QED
      BY <3>2, NumbersAssumption
  <2>4. seen[p].row.renewals + 1 \in 0..MaxRenewals
    BY <1>2, <2>1, NumbersAssumption DEF Loan, Renewable
  <2>5. row \in Loan /\ row.book = loans[i].book /\ row.member = loans[i].member
        /\ row.returned = loans[i].returned
    BY <2>2, <2>3, <2>4 DEF Loan
  <2>6. loans' = [loans EXCEPT ![i] = row]
    BY <1>2, <2>1, <2>2
  <2> HIDE DEF row
  <2>7. /\ loans' \in Seq(Loan) /\ Len(loans') = Len(loans)
        /\ \A j \in 1..Len(loans) : loans'[j] = IF j = i THEN row ELSE loans[j]
    BY <2>1, <2>2, <2>5, <2>6, ExceptSeq DEF Shape
  <2>8. DOMAIN loans' = DOMAIN loans
    BY <2>2, <2>7, LenProperties
  <2> QED
    BY <2>2, <2>5, <2>7, <2>8
<1> QED
  BY <1>1, <1>2 DEF Renew

-----------------------------------------------------------------------------
Same(q) == pc'[q] = pc[q] /\ seen'[q] = seen[q]
Busy(q) == Lending(q) \/ HasLoan(q)

\* A request that goes on, or ends, leaves the others where they are.
LEMMA OneMoves ==
  ASSUME Shape, NEW p \in Requests, NEW step \in Steps, NEW object, Fetched(p, step, object)
  PROVE  /\ pc' \in [Requests -> Steps] /\ DOMAIN seen' = Requests
         /\ pc'[p] = step /\ seen'[p] = object
         /\ \A q \in Requests \ {p} : Same(q)
  BY DEF Shape, Fetched, Same

\* Whatever is done about fines and holds, or ends half-way, touches no copy
\* and no loan, and puts nobody to work on one.
LEMMA NoConcern ==
  ASSUME Shape, (\E p \in Requests : FineStep(p) \/ HoldStep(p) \/ Abort(p)) \/ Others
  PROVE  /\ UNCHANGED <<book, loans>> /\ today' \in Nat
         /\ pc' \in [Requests -> Steps] /\ DOMAIN seen' = Requests
         /\ \A q \in Requests : Busy(q)' => Same(q)
<1>1. ASSUME NEW p \in Requests, NEW step \in Steps \ {"issue", "issuing", "return", "returning", "renew"},
             NEW object, Fetched(p, step, object)
      PROVE  /\ pc' \in [Requests -> Steps] /\ DOMAIN seen' = Requests
             /\ \A q \in Requests : Busy(q)' => Same(q)
  <2>1. /\ pc' \in [Requests -> Steps] /\ DOMAIN seen' = Requests
        /\ pc'[p] = step /\ \A q \in Requests \ {p} : Same(q)
    BY <1>1, OneMoves
  <2> QED
    BY <2>1 DEF Busy, Issuing, Lending, HasLoan
<1>2. today \in Nat /\ pc \in [Requests -> Steps] /\ DOMAIN seen = Requests
  BY DEF Shape
<1>3. ASSUME NEW p \in Requests, FineStep(p)
      PROVE  /\ UNCHANGED <<today, book, loans>>
             /\ \E step \in {"idle", "waive", "patch"} : \E object : Fetched(p, step, object)
  BY <1>3 DEF FineStep, FetchFine, WaiveFine, PatchFine, Done
<1>4. ASSUME NEW p \in Requests, HoldStep(p)
      PROVE  /\ UNCHANGED <<today, book, loans>>
             /\ \/ \E step \in {"idle", "hold"} : \E object : Fetched(p, step, object)
                \/ UNCHANGED <<pc, seen>>
  BY <1>4 DEF HoldStep, CheckHold, PlaceHold, CancelHold, Done
<1>5. ASSUME NEW p \in Requests, Abort(p)
      PROVE  UNCHANGED <<today, book, loans>> /\ Fetched(p, "idle", None)
  BY <1>5 DEF Abort, Done
<1>6. CASE Others
  BY <1>2, <1>6 DEF Others, SettleCharge, EditMember, NextDay, Same
<1>7. CASE \E p \in Requests : FineStep(p) \/ HoldStep(p) \/ Abort(p)
  <2>1. PICK p \in Requests : FineStep(p) \/ HoldStep(p) \/ Abort(p)
    BY <1>7
  <2>2. UNCHANGED <<today, book, loans>>
    BY <2>1, <1>3, <1>4, <1>5
  <2>3. CASE UNCHANGED <<pc, seen>>
    BY <1>2, <2>2, <2>3 DEF Same
  <2>4. CASE \E step \in {"idle", "waive", "patch", "hold"} : \E object : Fetched(p, step, object)
    <3>1. PICK step \in {"idle", "waive", "patch", "hold"} : \E object : Fetched(p, step, object)
      BY <2>4
    <3>2. step \in Steps \ {"issue", "issuing", "return", "returning", "renew"}
      BY DEF Steps
    <3> QED
      BY <1>1, <1>2, <2>2, <3>1, <3>2
  <2>5. \/ UNCHANGED <<pc, seen>>
        \/ \E step \in {"idle", "waive", "patch", "hold"} : \E object : Fetched(p, step, object)
    <3>1. "idle" \in {"idle", "waive", "patch", "hold"}
      OBVIOUS
    <3> QED
      BY <2>1, <3>1, <1>3, <1>4, <1>5
  <2> QED
    BY <2>3, <2>4, <2>5
<1> QED
  BY <1>6, <1>7

-----------------------------------------------------------------------------
\* The shapes after a step that puts nobody to work on a loan ...
LEMMA ShapeKept ==
  ASSUME Shape, today' \in Nat, book' \in [Books -> BookRow], loans' \in Seq(Loan),
         \A i \in DOMAIN loans : i \in DOMAIN loans' /\ loans'[i].book = loans[i].book,
         pc' \in [Requests -> Steps], DOMAIN seen' = Requests,
         \A q \in Requests : Busy(q)' => Same(q)
  PROVE  Shape'
<1> SUFFICES ASSUME NEW q \in Requests, Busy(q)'
             PROVE  /\ Lending(q)' => seen'[q].book \in Books /\ seen'[q].member \in Members
                    /\ Issuing(q)' => seen'[q].available \in Int
                    /\ HasLoan(q)' => /\ seen'[q].loan \in DOMAIN loans' /\ seen'[q].row \in Loan
                                      /\ seen'[q].row.book = loans'[seen'[q].loan].book
                    /\ Returning(q)' => /\ seen'[q].book = loans'[seen'[q].loan].book
                                        /\ seen'[q].available \in Int
  BY DEF Shape, Busy, Issuing, Lending, HasLoan, Returning
<1>1. Same(q) /\ Busy(q)
  BY DEF Same, Busy, Issuing, Lending, HasLoan
<1>2. CASE Lending(q)
  BY <1>1, <1>2 DEF Shape, Same, Issuing, Lending, HasLoan, Returning
<1>3. CASE HasLoan(q)
  <2>1. /\ seen[q].loan \in DOMAIN loans /\ seen[q].row \in Loan
        /\ seen[q].row.book = loans[seen[q].loan].book
        /\ Returning(q) => seen[q].book = loans[seen[q].loan].book /\ seen[q].available \in Int
    BY <1>3 DEF Shape
  <2> QED
    BY <1>1, <1>3, <2>1 DEF Same, Issuing, Lending, HasLoan, Returning
<1> QED
  BY <1>1, <1>2, <1>3 DEF Busy

\* ... after one that lends or closes a loan ...
LEMMA CommitShape ==
  ASSUME Shape, NEW p \in Requests, IssueCommit(p) \/ ReturnCommit(p) \/ Renew(p),
         book' \in [Books -> BookRow]
  PROVE  Shape' /\ ~Busy(p)' /\ \A q \in Requests \ {p} : Same(q)
<1>1. today' \in Nat /\ Fetched(p, "idle", None)
  BY DEF Shape, IssueCommit, ReturnCommit, Renew, Done
<1>2. /\ pc' \in [Requests -> Steps] /\ DOMAIN seen' = Requests
      /\ pc'[p] = "idle" /\ \A q \in Requests \ {p} : Same(q)
  BY <1>1, OneMoves DEF Steps
<1>3. loans' \in Seq(Loan) /\ \A i \in DOMAIN loans : i \in DOMAIN loans' /\ loans'[i].book = loans[i].book
  BY LentOne, ReturnedOne, RenewedOne
<1>4. ~Busy(p)'
  BY <1>2 DEF Busy, Issuing, Lending, HasLoan
<1> QED
  BY <1>1, <1>2, <1>3, <1>4, ShapeKept

\* ... and after one that takes up a loan or a book.
LEMMA TakeUpShape ==
  ASSUME Shape, NEW p \in Requests, NEW step \in Steps, NEW object,
         Fetched(p, step, object), UNCHANGED <<today, book, loans>>,
         step \in {"issue", "issuing"} => object.book \in Books /\ object.member \in Members,
         step = "issuing" => object.available \in Int,
         step \in {"return", "returning", "renew"} =>
           /\ object.loan \in DOMAIN loans /\ object.row \in Loan
           /\ object.row.book = loans[object.loan].book,
         step = "returning" => object.book = loans[object.loan].book /\ object.available \in Int
  PROVE  Shape'
<1>1. /\ pc' \in [Requests -> Steps] /\ DOMAIN seen' = Requests
      /\ pc'[p] = step /\ seen'[p] = object
      /\ \A q \in Requests \ {p} : Same(q)
  BY OneMoves
<1>2. ASSUME NEW q \in Requests
      PROVE  /\ Lending(q)' => seen'[q].book \in Books /\ seen'[q].member \in Members
             /\ Issuing(q)' => seen'[q].available \in Int
             /\ HasLoan(q)' => /\ seen'[q].loan \in DOMAIN loans /\ seen'[q].row \in Loan
                               /\ seen'[q].row.book = loans[seen'[q].loan].book
             /\ Returning(q)' => /\ seen'[q].book = loans'[seen'[q].loan].book
                                 /\ seen'[q].available \in Int
  <2>1. CASE q = p
    BY <1>1, <2>1 DEF Issuing, Lending, HasLoan, Returning
  <2>2. CASE q # p
    BY <1>1, <2>2 DEF Shape, Same, Issuing, Lending, HasLoan, Returning
  <2> QED
    BY <2>1, <2>2
<1> QED
  BY <1>1, <1>2 DEF Shape

\* The library opens well-formed, with every book on the shelf ...
LEMMA InitShape == Init => Shape
<1> SUFFICES ASSUME Init PROVE Shape
  OBVIOUS
<1>1. book \in [Books -> BookRow]
  <2>1. {[total |-> n, available |-> n, deleted |-> FALSE] : n \in Copies \ {0}} \subseteq BookRow
    <3>1. \A n \in Copies : n \in Nat
      BY NumbersAssumption
    <3>2. \A n \in Copies : [total |-> n, available |-> n, deleted |-> FALSE] \in BookRow
      BY <3>1 DEF BookRow
    <3> QED
      BY <3>2
  <2>2. book \in [Books -> {[total |-> n, available |-> n, deleted |-> FALSE] : n \in Copies \ {0}}]
    BY DEF Init
  <2> QED
    BY <2>1, <2>2
<1>2. pc = [p \in Requests |-> "idle"] /\ "idle" \in Steps /\ seen = [p \in Requests |-> None]
  BY DEF Init, Steps
<1>3. \A p \in Requests : ~Issuing(p) /\ ~Lending(p) /\ ~HasLoan(p) /\ ~Returning(p)
  BY <1>2 DEF Issuing, Lending, HasLoan, Returning
<1> QED
  BY <1>1, <1>2, <1>3, EmptySeq DEF Init, Shape

-----------------------------------------------------------------------------
(***************************************************************************)
(* Copies                                                                  *)
(***************************************************************************)
\* A step that closes no loan and counts no copy keeps the copies right.
LEMMA QuietForCopies ==
  ASSUME CopiesInv, Shape', UNCHANGED book, DOMAIN loans' = DOMAIN loans,
         \A i \in DOMAIN loans : loans'[i].book = loans[i].book /\ loans'[i].returned = loans[i].returned,
         \A q \in Requests : Busy(q)' => Same(q)
  PROVE  CopiesInv'
<1>1. \A q \in Requests : /\ Busy(q)' => Same(q) /\ Busy(q)
                          /\ Lending(q)' => Lending(q) /\ Same(q)
                          /\ Issuing(q)' => Issuing(q) /\ Same(q)
                          /\ Returning(q)' => Returning(q) /\ Same(q)
                          /\ HasLoan(q)' => HasLoan(q) /\ Same(q)
  BY DEF Busy, Same, Issuing, Lending, HasLoan, Returning
<1>2. \A q \in Requests, b \in Books : Holds(q, b)' => Holds(q, b) /\ Same(q)
  BY <1>1 DEF Holds, Same
<1>3. AtTheDesks' /\ LockHeld'
  BY <1>1, <1>2 DEF CopiesInv, AtTheDesks, LockHeld
<1>4. CopiesKnown'
  BY <1>1, <1>2 DEF CopiesInv, CopiesKnown, Same
<1>5. StillOpen'
  <2> SUFFICES ASSUME NEW q \in Requests, HasLoan(q)'
               PROVE  /\ pc'[q] = "return" /\ ~Closed(seen'[q].row) => Open(seen[q].loan)'
                      /\ Returning(q)' => Open(seen[q].loan)'
    BY DEF StillOpen, HasLoan, Returning
  <2>1. HasLoan(q) /\ Same(q) /\ seen[q].loan \in DOMAIN loans
    BY <1>1 DEF CopiesInv, Shape
  <2>2. loans'[seen'[q].loan].returned = loans[seen[q].loan].returned
    BY <2>1 DEF Same
  <2> QED
    BY <2>1, <2>2 DEF CopiesInv, StillOpen, Open, Same, Returning
<1>6. CopiesAccountedFor'
  <2>1. \A b \in Books : OpenLoans(b)' = OpenLoans(b)
    BY DEF OpenLoans, Open
  <2> QED
    BY <2>1 DEF CopiesInv, CopiesAccountedFor
<1> QED
  BY <1>3, <1>4, <1>5, <1>6 DEF CopiesInv

\* A desk that takes up a book has its lock and knows its copies.
LEMMA TakeUpCopies ==
  ASSUME CopiesInv, Shape', NEW p \in Requests, NEW step \in Steps, NEW object,
         Fetched(p, step, object), UNCHANGED <<book, loans>>,
         step \in {"issue", "issuing"} => p \in IssueDesks,
         step = "issuing" => book[object.book].available >= 1,
         step \in {"return", "returning", "renew"} => p \in ReturnDesks,
         step \in {"issuing", "returning"} =>
           BookFree(p, object.book) /\ object.available = book[object.book].available,
         step = "return" /\ ~Closed(object.row) => Open(object.loan),
         step = "returning" => Open(object.loan)
  PROVE  CopiesInv'
<1>1. /\ pc'[p] = step /\ seen'[p] = object
      /\ \A q \in Requests \ {p} : Same(q)
  BY OneMoves DEF CopiesInv
<1>2. AtTheDesks'
  BY <1>1 DEF CopiesInv, AtTheDesks, Issuing, Lending, HasLoan, Same
<1>3. \A q \in Requests \ {p}, b \in Books : Holds(q, b)' <=> Holds(q, b)
  BY <1>1 DEF Holds, Same, Issuing, Lending, Returning
<1>4. \A b \in Books : Holds(p, b)' => /\ step \in {"issuing", "returning"} /\ object.book = b
                                      /\ \A q \in Requests \ {p} : ~Holds(q, b)
  BY <1>1 DEF Holds, Issuing, Lending, Returning, BookFree
<1>5. LockHeld'
  BY <1>3, <1>4 DEF CopiesInv, LockHeld
<1>6. CopiesKnown'
  <2> SUFFICES ASSUME NEW q \in Requests, NEW b \in Books, Holds(q, b)'
               PROVE  seen'[q].available = book[b].available /\ (Issuing(q)' => book[b].available >= 1)
    BY DEF CopiesKnown
  <2>1. CASE q = p
    BY <1>1, <1>4, <2>1 DEF Issuing, Lending
  <2>2. CASE q # p
    BY <1>1, <1>3, <2>2 DEF CopiesInv, CopiesKnown, Same, Issuing, Lending
  <2> QED
    BY <2>1, <2>2
<1>7. StillOpen'
  <2> SUFFICES ASSUME NEW q \in Requests
               PROVE  /\ pc'[q] = "return" /\ ~Closed(seen'[q].row) => loans[seen'[q].loan].returned = None
                      /\ Returning(q)' => loans[seen'[q].loan].returned = None
    BY DEF StillOpen, Open
  <2>1. CASE q = p
    BY <1>1, <2>1 DEF Returning, Open
  <2>2. CASE q # p
    BY <1>1, <2>2 DEF CopiesInv, StillOpen, Same, Returning, Open
  <2> QED
    BY <2>1, <2>2
<1>8. CopiesAccountedFor'
  <2>1. \A b \in Books : OpenLoans(b)' = OpenLoans(b)
    BY DEF OpenLoans, Open
  <2> QED
    BY <2>1 DEF CopiesInv, CopiesAccountedFor
<1> QED
  BY <1>2, <1>5, <1>6, <1>7, <1>8 DEF CopiesInv

\* Lending takes the copy off the shelf that the new loan accounts for.
LEMMA IssueCopies ==
  ASSUME CopiesInv, NEW p \in Requests, IssueCommit(p)
  PROVE  CopiesInv'
<1> DEFINE b == seen[p].book
           n == Len(loans) + 1
<1>1. /\ Issuing(p) /\ Holds(p, b) /\ b \in Books /\ book[b] \in BookRow
      /\ seen[p].available = book[b].available /\ book[b].available >= 1
  BY DEF CopiesInv, Shape, CopiesKnown, IssueCommit, Issuing, Lending, Holds
<1>2. /\ book' = [book EXCEPT ![b].available = book[b].available - 1]
      /\ book' \in [Books -> BookRow]
  <2>1. book' = [book EXCEPT ![b].available = book[b].available - 1]
    BY <1>1 DEF IssueCommit
  <2>2. book[b].available - 1 \in Int
    BY <1>1 DEF BookRow
  <2> QED
    BY <2>1, <2>2 DEF CopiesInv, Shape, BookRow
<1>3. Shape' /\ ~Busy(p)' /\ \A q \in Requests \ {p} : Same(q)
  BY <1>2, CommitShape DEF CopiesInv
<1>4. /\ \A q \in Requests : (Lending(q)' \/ HasLoan(q)' \/ Returning(q)') => q # p /\ Same(q)
      /\ \A q \in Requests, c \in Books : Holds(q, c)' => q # p /\ Same(q) /\ Holds(q, c)
  BY <1>3 DEF Busy, Holds, Same, Issuing, Lending, HasLoan, Returning
<1>5. AtTheDesks' /\ LockHeld'
  BY <1>4 DEF CopiesInv, AtTheDesks, LockHeld, Same, Issuing, Lending, HasLoan
<1>6. CopiesKnown'
  <2> SUFFICES ASSUME NEW q \in Requests, NEW c \in Books, Holds(q, c)'
               PROVE  seen'[q].available = book'[c].available /\ (Issuing(q)' => book'[c].available >= 1)
    BY DEF CopiesKnown
  <2>1. Holds(q, c) /\ Same(q) /\ c # b
    BY <1>1, <1>4 DEF CopiesInv, LockHeld
  <2>2. book'[c] = book[c]
    BY <1>2, <2>1 DEF CopiesInv, Shape
  <2> QED
    BY <2>1, <2>2 DEF CopiesInv, CopiesKnown, Same, Issuing, Lending
<1>7. /\ \A i \in DOMAIN loans : i \in DOMAIN loans' /\ loans'[i] = loans[i]
      /\ DOMAIN loans' = (DOMAIN loans) \cup {n} /\ n \notin DOMAIN loans
      /\ loans'[n].book = b /\ loans'[n].returned = None
  BY LentOne DEF CopiesInv
<1>8. StillOpen'
  <2> SUFFICES ASSUME NEW q \in Requests, HasLoan(q)'
               PROVE  /\ pc'[q] = "return" /\ ~Closed(seen'[q].row) => Open(seen[q].loan)'
                      /\ Returning(q)' => Open(seen[q].loan)'
    BY DEF StillOpen, HasLoan, Returning
  <2>1. HasLoan(q) /\ Same(q)
    BY <1>4 DEF Same, HasLoan
  <2>2. seen[q].loan \in DOMAIN loans
    BY <2>1 DEF CopiesInv, Shape
  <2>3. loans'[seen'[q].loan] = loans[seen[q].loan]
    BY <1>7, <2>1, <2>2 DEF Same
  <2> QED
    BY <2>1, <2>3 DEF CopiesInv, StillOpen, Open, Same, Returning
<1>9. CopiesAccountedFor'
  <2> SUFFICES ASSUME NEW c \in Books
               PROVE  book'[c].available + Cardinality(OpenLoans(c)') = book'[c].total
    BY DEF CopiesAccountedFor
  <2>1. /\ OpenLoans(c) \subseteq DOMAIN loans
        /\ OpenLoans(c)' = IF c = b THEN OpenLoans(c) \cup {n} ELSE OpenLoans(c)
    BY <1>7 DEF OpenLoans, Open
  <2>2. IsFiniteSet(OpenLoans(c)) /\ Cardinality(OpenLoans(c)) \in Nat /\ n \notin OpenLoans(c)
    BY <1>7, <2>1, LoansFinite DEF CopiesInv
  <2>3. Cardinality(OpenLoans(c) \cup {n}) = Cardinality(OpenLoans(c)) + 1
    BY <2>2, FS_AddElement
  <2>4. book[c].available + Cardinality(OpenLoans(c)) = book[c].total /\ book[c] \in BookRow
    BY DEF CopiesInv, CopiesAccountedFor, Shape
  <2>5. /\ book'[c].total = book[c].total
        /\ book'[c].available = IF c = b THEN book[c].available - 1 ELSE book[c].available
    BY <1>2, <2>4 DEF CopiesInv, Shape, BookRow
  <2>6. book[c].available \in Int /\ book[c].total \in Nat
    BY <2>4 DEF BookRow
  <2> QED
    BY <2>1, <2>2, <2>3, <2>4, <2>5, <2>6
<1> QED
  BY <1>3, <1>5, <1>6, <1>8, <1>9 DEF CopiesInv

\* Taking back puts the copy on the shelf that the closed loan accounted for.
LEMMA ReturnCopies ==
  ASSUME OneReturnDesk, CopiesInv, NEW p \in Requests, ReturnCommit(p)
  PROVE  CopiesInv'
<1> DEFINE b == seen[p].book
           l == seen[p].loan
<1>1. /\ Returning(p) /\ HasLoan(p) /\ p \in ReturnDesks
      /\ l \in DOMAIN loans /\ b = loans[l].book /\ Open(l)
  BY DEF CopiesInv, Shape, AtTheDesks, StillOpen, ReturnCommit, Returning, HasLoan
<1>2. b \in Books /\ loans[l] \in Loan
  <2>1. loans[l] \in Loan
    BY <1>1, LenProperties, ElementOfSeq DEF CopiesInv, Shape
  <2> QED
    BY <1>1, <2>1 DEF Loan
<1>3. Holds(p, b) /\ seen[p].available = book[b].available /\ book[b] \in BookRow
  BY <1>1, <1>2 DEF CopiesInv, CopiesKnown, Shape, Holds
<1>4. /\ OpenLoans(b) \subseteq DOMAIN loans /\ l \in OpenLoans(b)
      /\ book[b].available + Cardinality(OpenLoans(b)) = book[b].total
  BY <1>1, <1>2 DEF OpenLoans, CopiesInv, CopiesAccountedFor
<1>5. /\ IsFiniteSet(OpenLoans(b)) /\ Cardinality(OpenLoans(b)) \in Nat
      /\ Cardinality(OpenLoans(b) \ {l}) = Cardinality(OpenLoans(b)) - 1
      /\ Cardinality(OpenLoans(b) \ {l}) \in Nat
  BY <1>4, LoansFinite, FS_RemoveElement, FS_CardinalityType DEF CopiesInv
<1>6. book[b].available \in Int /\ book[b].total \in Nat
  BY <1>3 DEF BookRow
<1>7. Freed(seen[p].available, book[b].total) = book[b].available + 1
  <2>1. book[b].available + 1 <= book[b].total
    BY <1>4, <1>5, <1>6
  <2> QED
    BY <1>3, <1>6, <2>1, LeastOfTwo DEF Freed
<1>8. /\ book' = [book EXCEPT ![b].available = book[b].available + 1]
      /\ book' \in [Books -> BookRow]
  <2>1. book' = [book EXCEPT ![b].available = book[b].available + 1]
    BY <1>7 DEF ReturnCommit
  <2>2. book[b].available + 1 \in Int
    BY <1>6
  <2> QED
    BY <2>1, <2>2 DEF CopiesInv, Shape, BookRow
<1>9. Shape' /\ ~Busy(p)' /\ \A q \in Requests \ {p} : Same(q)
  BY <1>8, CommitShape DEF CopiesInv
<1>10. /\ \A q \in Requests : (Lending(q)' \/ HasLoan(q)' \/ Returning(q)') => q # p /\ Same(q)
       /\ \A q \in Requests, c \in Books : Holds(q, c)' => q # p /\ Same(q) /\ Holds(q, c)
  BY <1>9 DEF Busy, Holds, Same, Issuing, Lending, HasLoan, Returning
<1>11. AtTheDesks' /\ LockHeld'
  BY <1>10 DEF CopiesInv, AtTheDesks, LockHeld, Same, Issuing, Lending, HasLoan
<1>12. CopiesKnown'
  <2> SUFFICES ASSUME NEW q \in Requests, NEW c \in Books, Holds(q, c)'
               PROVE  seen'[q].available = book'[c].available /\ (Issuing(q)' => book'[c].available >= 1)
    BY DEF CopiesKnown
  <2>1. Holds(q, c) /\ Same(q) /\ c # b
    BY <1>2, <1>3, <1>10 DEF CopiesInv, LockHeld
  <2>2. book'[c] = book[c]
    BY <1>8, <2>1 DEF CopiesInv, Shape
  <2> QED
    BY <2>1, <2>2 DEF CopiesInv, CopiesKnown, Same, Issuing, Lending
<1>13. StillOpen'
  <2>1. \A q \in Requests : ~HasLoan(q)'
    BY <1>1, <1>10 DEF OneReturnDesk, CopiesInv, AtTheDesks, Same, HasLoan
  <2> QED
    BY <2>1 DEF StillOpen, HasLoan, Returning
<1>14. CopiesAccountedFor'
  <2> SUFFICES ASSUME NEW c \in Books
               PROVE  book'[c].available + Cardinality(OpenLoans(c)') = book'[c].total
    BY DEF CopiesAccountedFor
  <2>1. /\ DOMAIN loans' = DOMAIN loans
        /\ \A i \in DOMAIN loans : loans'[i].book = loans[i].book
        /\ \A i \in (DOMAIN loans) \ {l} : loans'[i] = loans[i]
        /\ loans'[l].returned = today /\ today # None
    BY ReturnedOne, NoneAssumption DEF CopiesInv, Shape
  <2>2. OpenLoans(c)' = IF c = b THEN OpenLoans(c) \ {l} ELSE OpenLoans(c)
    BY <1>1, <2>1 DEF OpenLoans, Open
  <2>3. book[c].available + Cardinality(OpenLoans(c)) = book[c].total /\ book[c] \in BookRow
    BY DEF CopiesInv, CopiesAccountedFor, Shape
  <2>4. /\ book'[c].total = book[c].total
        /\ book'[c].available = IF c = b THEN book[c].available + 1 ELSE book[c].available
    BY <1>8, <2>3 DEF CopiesInv, Shape, BookRow
  <2> QED
    <3>1. CASE c = b
      <4>1. OpenLoans(c)' = OpenLoans(b) \ {l} /\ book'[c].total = book[b].total
            /\ book'[c].available = book[b].available + 1
        BY <2>2, <2>4, <3>1
      <4>2. (book[b].available + 1) + (Cardinality(OpenLoans(b)) - 1) = book[b].total
        BY <1>4, <1>5, <1>6
      <4> QED
        BY <1>5, <4>1, <4>2
    <3>2. CASE c # b
      BY <2>2, <2>3, <2>4, <3>2
    <3> QED
      BY <3>1, <3>2
<1> QED
  BY <1>9, <1>11, <1>12, <1>13, <1>14 DEF CopiesInv

\* Every step keeps the copies right ...
LEMMA NextCopies ==
  ASSUME OneReturnDesk, CopiesInv, [DeskNext]_vars
  PROVE  CopiesInv'
<1>1. ASSUME NEW p \in Requests, LoanStep(p) PROVE CopiesInv'
  <2>1. CASE IssueLock(p)
    <3> DEFINE b == seen[p].book
               object == [book |-> b, member |-> seen[p].member, available |-> book[b].available]
    <3>1. /\ Fetched(p, "issuing", object) /\ UNCHANGED <<today, book, loans>>
          /\ book[b].available >= 1 /\ BookFree(p, b) /\ "issuing" \in Steps /\ Lending(p)
      BY <2>1 DEF IssueLock, Steps, Lending
    <3>2. object.book = b /\ object.member = seen[p].member /\ object.available = book[b].available
      OBVIOUS
    <3>4. /\ b \in Books /\ seen[p].member \in Members /\ p \in IssueDesks
          /\ book[b].available \in Int
      BY <3>1 DEF CopiesInv, Shape, AtTheDesks, BookRow
    <3> HIDE DEF object
    <3>3. Shape'
      BY <3>1, <3>2, <3>4, TakeUpShape DEF CopiesInv
    <3> QED
      BY <3>1, <3>2, <3>3, <3>4, TakeUpCopies
  <2>5. ASSUME p \in IssueDesks, NEW b \in Books, NEW m \in Members, FetchMember(p, b, m)
        PROVE  CopiesInv'
    <3> DEFINE object == [book |-> b, member |-> m, limit |-> limit[m]]
    <3>1. Fetched(p, "issue", object) /\ UNCHANGED <<today, book, loans>> /\ "issue" \in Steps
      BY <2>5 DEF FetchMember, Steps
    <3>2. object.book = b /\ object.member = m
      OBVIOUS
    <3> HIDE DEF object
    <3>3. Shape'
      BY <3>1, <3>2, TakeUpShape DEF CopiesInv
    <3> QED
      BY <2>5, <3>1, <3>2, <3>3, TakeUpCopies
  <2>2. ASSUME p \in ReturnDesks, NEW i \in DOMAIN loans, NEW step \in {"return", "renew"},
               FetchLoan(p, step, i)
        PROVE  CopiesInv'
    <3> DEFINE object == [loan |-> i, row |-> loans[i]]
    <3>1. /\ Fetched(p, step, object) /\ UNCHANGED <<today, book, loans>>
          /\ step \in Steps
      BY <2>2 DEF FetchLoan, Steps
    <3>2. object.loan = i /\ object.row = loans[i]
      OBVIOUS
    <3>3. loans[i] \in Loan
      BY LenProperties, ElementOfSeq DEF CopiesInv, Shape
    <3> HIDE DEF object
    <3>4. Shape'
      BY <3>1, <3>2, <3>3, TakeUpShape DEF CopiesInv
    <3> QED
      BY <2>2, <3>1, <3>2, <3>4, TakeUpCopies DEF Closed, Open
  <2>3. CASE ReturnLock(p)
    <3> DEFINE row == seen[p].row
               object == [loan |-> seen[p].loan, row |-> row, book |-> row.book,
                          available |-> book[row.book].available, next |-> OldestWaiting(row.book)]
    <3>1. pc[p] = "return" /\ HasLoan(p) /\ UNCHANGED <<today, book, loans>> /\ BookFree(p, row.book)
      BY <2>3 DEF ReturnLock, HasLoan
    <3>2. /\ seen[p].loan \in DOMAIN loans /\ row \in Loan /\ row.book = loans[seen[p].loan].book
          /\ p \in ReturnDesks
      BY <3>1 DEF CopiesInv, Shape, AtTheDesks
    <3>3. CASE Done(p)
      <4>1. Fetched(p, "idle", None) /\ "idle" \in Steps
        BY <3>3 DEF Done, Steps
      <4>2. Shape'
        BY <3>1, <4>1, TakeUpShape DEF CopiesInv
      <4> QED
        BY <3>1, <4>1, <4>2, TakeUpCopies
    <3>4. CASE ~Closed(row) /\ Fetched(p, "returning", object)
      <4>1. /\ object.loan = seen[p].loan /\ object.row = row /\ object.book = row.book
            /\ object.available = book[row.book].available /\ "returning" \in Steps
        BY DEF Steps
      <4>2. Open(seen[p].loan) /\ book[row.book].available \in Int
        BY <3>1, <3>2, <3>4 DEF CopiesInv, StillOpen, Shape, Loan, BookRow
      <4> HIDE DEF object
      <4>3. Shape'
        BY <3>1, <3>2, <3>4, <4>1, <4>2, TakeUpShape DEF CopiesInv
      <4> QED
        BY <3>1, <3>2, <3>4, <4>1, <4>2, <4>3, TakeUpCopies
    <3> QED
      BY <2>3, <3>3, <3>4 DEF ReturnLock
  <2>4. CASE Renew(p)
    <3>1. UNCHANGED book
      BY <2>4 DEF Renew
    <3>2. Shape' /\ ~Busy(p)' /\ \A q \in Requests \ {p} : Same(q)
      BY <2>4, <3>1, CommitShape DEF CopiesInv, Shape
    <3> QED
      BY <2>4, <3>1, <3>2, RenewedOne, QuietForCopies DEF CopiesInv
  <2> QED
    BY <1>1, <2>1, <2>2, <2>3, <2>4, <2>5, IssueCopies, ReturnCopies DEF LoanStep
<1>2. ASSUME (\E p \in Requests : FineStep(p) \/ HoldStep(p) \/ Abort(p)) \/ Others PROVE CopiesInv'
  <2>1. /\ UNCHANGED <<book, loans>> /\ today' \in Nat
        /\ pc' \in [Requests -> Steps] /\ DOMAIN seen' = Requests
        /\ \A q \in Requests : Busy(q)' => Same(q)
    BY <1>2, NoConcern DEF CopiesInv
  <2>2. Shape'
    BY <2>1, ShapeKept DEF CopiesInv, Shape
  <2> QED
    BY <2>1, <2>2, QuietForCopies
<1>3. CASE UNCHANGED vars
  <2>1. UNCHANGED <<today, book, loans, pc, seen>>
    BY <1>3 DEF vars
  <2>2. Shape'
    BY <2>1, ShapeKept DEF CopiesInv, Shape, Same
  <2> QED
    BY <2>1, <2>2, QuietForCopies DEF Same
<1> QED
  BY <1>1, <1>2, <1>3 DEF DeskNext

\* The copies add up when nothing is lent ...
LEMMA InitCopies == Init => CopiesInv
<1> SUFFICES ASSUME Init PROVE CopiesInv
  OBVIOUS
<1>1. \A p \in Requests : ~Issuing(p) /\ ~Lending(p) /\ ~HasLoan(p) /\ ~Returning(p)
  BY DEF Init, Issuing, Lending, HasLoan, Returning
<1>2. Shape
  BY InitShape
<1>3. AtTheDesks /\ LockHeld /\ CopiesKnown /\ StillOpen
  BY <1>1 DEF AtTheDesks, LockHeld, CopiesKnown, StillOpen, Holds, HasLoan
<1>4. CopiesAccountedFor
  <2> SUFFICES ASSUME NEW b \in Books
               PROVE  book[b].available + Cardinality(OpenLoans(b)) = book[b].total
    BY DEF CopiesAccountedFor
  <2>1. OpenLoans(b) = {}
    BY DEF Init, OpenLoans
  <2>2. book[b].available = book[b].total /\ book[b].total \in Nat
    <3>1. book[b] \in BookRow
      BY <1>2 DEF Shape
    <3> QED
      BY <3>1 DEF Init, BookRow
  <2> QED
    BY <2>1, <2>2, FS_EmptySet
<1> QED
  BY <1>2, <1>3, <1>4 DEF CopiesInv

-----------------------------------------------------------------------------
\* copies_available is derived: where one desk takes books back, the lock of
\* the book keeps every copy on the shelf or on an open loan, however many
\* desks lend and however many copies, members and requests there are.
THEOREM CopiesAddUp ==
  ASSUME OneReturnDesk
  PROVE  DeskSpec => []CopiesAccountedFor
<1>1. CopiesInv /\ [DeskNext]_vars => CopiesInv'
  BY NextCopies
<1>2. CopiesInv => CopiesAccountedFor
  BY DEF CopiesInv
<1> QED
  BY InitCopies, <1>1, <1>2, PTL DEF DeskSpec

-----------------------------------------------------------------------------
(***************************************************************************)
(* The rows, whoever edits the catalogue.                                  *)
(***************************************************************************)
\* Editing the catalogue, too, puts nobody to work on a copy or a loan.
LEMMA CatalogueShape ==
  ASSUME Shape, (\E p \in Requests : CatalogueStep(p)) \/ (\E b \in Books : DeleteBook(b))
  PROVE  Shape'
<1>1. CASE \E b \in Books : DeleteBook(b)
  <2>1. PICK b \in Books : DeleteBook(b)
    BY <1>1
  <2>2. book' \in [Books -> BookRow]
    <3>1. [book[b] EXCEPT !.deleted = TRUE] \in BookRow
      BY DEF Shape, BookRow
    <3>2. book' = [book EXCEPT ![b] = [book[b] EXCEPT !.deleted = TRUE]]
      BY <2>1 DEF DeleteBook
    <3>3. QED
      BY <3>1, <3>2 DEF Shape
  <2>3. QED
    BY <2>1, <2>2, ShapeKept DEF DeleteBook, Shape, Same
<1>2. ASSUME NEW p \in Requests, CatalogueStep(p) PROVE Shape'
  <2>1. \E step \in {"idle", "edit"} : \E object : Fetched(p, step, object)
    BY <1>2 DEF CatalogueStep, FetchBook, EditBook, Done
  <2>2. /\ pc' \in [Requests -> Steps] /\ DOMAIN seen' = Requests
        /\ \A q \in Requests : Busy(q)' => Same(q)
    <3>1. PICK step \in {"idle", "edit"} : \E object : Fetched(p, step, object)
      BY <2>1
    <3>2. PICK object : Fetched(p, step, object)
      BY <3>1
    <3>3. step \in Steps
      BY DEF Steps
    <3>4. QED
      BY <3>2, <3>3, OneMoves DEF Busy, Issuing, Lending, HasLoan
  <2>3. today' \in Nat /\ loans' = loans
    BY <1>2 DEF CatalogueStep, FetchBook, EditBook, Shape
  <2>4. book' \in [Books -> BookRow]
    <3>1. CASE UNCHANGED book
      BY <3>1 DEF Shape
    <3>2. ASSUME NEW n \in Copies, EditBook(p, n), book' # book PROVE book' \in [Books -> BookRow]
      <4> DEFINE new == [total |-> n, available |-> Shifted(seen[p].row, n), deleted |-> FALSE]
      <4>1. book' = [book EXCEPT ![seen[p].book] = new] /\ Shifted(seen[p].row, n) \in 0..n
        BY <3>2 DEF EditBook
      <4>2. new \in BookRow
        BY <4>1, NumbersAssumption DEF BookRow
      <4> HIDE DEF new
      <4>3. QED
        BY <4>1, <4>2 DEF Shape
    <3>3. QED
      BY <1>2, <3>1, <3>2 DEF CatalogueStep, FetchBook
  <2>5. QED
    BY <2>2, <2>3, <2>4, ShapeKept DEF Shape
<1>3. QED
  BY <1>1, <1>2

\* Lending, taking back and renewing keep the shapes ...
LEMMA LoanShape ==
  ASSUME Shape, NEW p \in Requests, LoanStep(p)
  PROVE  Shape'
<1>1. CASE IssueLock(p)
  <2> DEFINE b == seen[p].book
             object == [book |-> b, member |-> seen[p].member, available |-> book[b].available]
  <2>1. /\ Fetched(p, "issuing", object) /\ UNCHANGED <<today, book, loans>> /\ "issuing" \in Steps
        /\ Lending(p)
    BY <1>1 DEF IssueLock, Steps, Lending
  <2>2. object.book = b /\ object.member = seen[p].member /\ object.available = book[b].available
    OBVIOUS
  <2>3. b \in Books /\ seen[p].member \in Members /\ book[b].available \in Int
    BY <2>1 DEF Shape, BookRow
  <2> HIDE DEF object
  <2>4. QED
    BY <2>1, <2>2, <2>3, TakeUpShape
<1>6. ASSUME NEW b \in Books, NEW m \in Members, FetchMember(p, b, m)
      PROVE  Shape'
  <2> DEFINE object == [book |-> b, member |-> m, limit |-> limit[m]]
  <2>1. Fetched(p, "issue", object) /\ UNCHANGED <<today, book, loans>> /\ "issue" \in Steps
    BY <1>6 DEF FetchMember, Steps
  <2>2. object.book = b /\ object.member = m
    OBVIOUS
  <2> HIDE DEF object
  <2>4. QED
    BY <2>1, <2>2, TakeUpShape
<1>2. ASSUME NEW i \in DOMAIN loans, NEW step \in {"return", "renew"}, FetchLoan(p, step, i)
      PROVE  Shape'
  <2> DEFINE object == [loan |-> i, row |-> loans[i]]
  <2>1. Fetched(p, step, object) /\ UNCHANGED <<today, book, loans>> /\ step \in Steps
    BY <1>2 DEF FetchLoan, Steps
  <2>2. object.loan = i /\ object.row = loans[i] /\ loans[i] \in Loan
    BY LenProperties, ElementOfSeq DEF Shape
  <2> HIDE DEF object
  <2>3. QED
    BY <2>1, <2>2, TakeUpShape
<1>3. CASE ReturnLock(p)
  <2> DEFINE row == seen[p].row
             object == [loan |-> seen[p].loan, row |-> row, book |-> row.book,
                        available |-> book[row.book].available, next |-> OldestWaiting(row.book)]
  <2>1. HasLoan(p) /\ UNCHANGED <<today, book, loans>>
    BY <1>3 DEF ReturnLock, HasLoan
  <2>2. seen[p].loan \in DOMAIN loans /\ row \in Loan /\ row.book = loans[seen[p].loan].book
    BY <2>1 DEF Shape
  <2>3. CASE Done(p)
    BY <2>1, <2>3, TakeUpShape DEF Done, Steps
  <2>4. CASE Fetched(p, "returning", object)
    <3>1. /\ object.loan = seen[p].loan /\ object.row = row /\ object.book = row.book
          /\ object.available = book[row.book].available /\ "returning" \in Steps
      BY DEF Steps
    <3>2. book[row.book].available \in Int
      BY <2>2 DEF Shape, Loan, BookRow
    <3> HIDE DEF object
    <3>3. QED
      BY <2>1, <2>2, <2>4, <3>1, <3>2, TakeUpShape
  <2>5. QED
    BY <1>3, <2>3, <2>4 DEF ReturnLock
<1>4. CASE IssueCommit(p) \/ ReturnCommit(p) \/ Renew(p)
  <2>1. book' \in [Books -> BookRow]
    <3>1. CASE IssueCommit(p)
      <4>1. seen[p].book \in Books /\ seen[p].available - 1 \in Int
        BY <3>1 DEF IssueCommit, Shape, Issuing, Lending
      <4>2. [book[seen[p].book] EXCEPT !.available = seen[p].available - 1] \in BookRow
        BY <4>1 DEF Shape, BookRow
      <4>3. QED
        BY <3>1, <4>1, <4>2 DEF IssueCommit, Shape
    <3>2. CASE ReturnCommit(p)
      <4>1. seen[p].book \in Books /\ seen[p].available \in Int
        BY <3>2, LenProperties, ElementOfSeq DEF ReturnCommit, Shape, Returning, HasLoan, Loan
      <4>2. Freed(seen[p].available, book[seen[p].book].total) \in Int
        <5>1. seen[p].available + 1 \in Int /\ book[seen[p].book].total \in Int
          BY <4>1 DEF Shape, BookRow
        <5>2. QED
          BY <5>1, LeastOfTwo DEF Freed
      <4>3. [book[seen[p].book] EXCEPT !.available = Freed(seen[p].available, book[seen[p].book].total)] \in BookRow
        BY <4>1, <4>2 DEF Shape, BookRow
      <4>4. QED
        BY <3>2, <4>1, <4>3 DEF ReturnCommit, Shape
    <3>3. CASE Renew(p)
      BY <3>3 DEF Renew, Shape
    <3>4. QED
      BY <1>4, <3>1, <3>2, <3>3
  <2>2. QED
    BY <1>4, <2>1, CommitShape
<1>5. QED
  BY <1>1, <1>2, <1>3, <1>4, <1>6 DEF LoanStep

\* ... and so does every other step.
LEMMA NextShape ==
  ASSUME Shape, [Next]_vars
  PROVE  Shape'
<1>1. ASSUME (\E p \in Requests : FineStep(p) \/ HoldStep(p) \/ Abort(p)) \/ Others PROVE Shape'
  BY <1>1, NoConcern, ShapeKept DEF Shape
<1>2. CASE UNCHANGED vars
  BY <1>2, ShapeKept DEF vars, Shape, Same
<1>3. QED
  BY <1>1, <1>2, LoanShape, CatalogueShape DEF Next, DeskNext
-----------------------------------------------------------------------------
(***************************************************************************)
(* Borrow limits, whoever lends, edits members and edits the catalogue.    *)
(***************************************************************************)
LimitsTyped == limit \in [Members -> Limits]

\* Only the desks that lend fetch a member.
Lenders == \A p \in Requests : Lending(p) => p \in IssueDesks

\* No request relies on a limit the member did not have since it fetched it.
LimitsKnown ==
  /\ allowed \in [Requests -> Nat]
  /\ \A p \in Requests : Lending(p) =>
       /\ limit[seen[p].member] <= allowed[p]
       /\ pc[p] = "issue" => seen[p].limit \in Nat /\ seen[p].limit <= allowed[p]

\* The loans another desk may still add to those p has counted, and would not
\* if it fetched the member now.
Uncounted(p) ==
  {q \in Requests \ {p} : /\ Lending(q) /\ seen[q].member = seen[p].member
                          /\ pc[q] = "issuing" \/ seen[q].limit > allowed[p]}
Room(p) ==
  Cardinality(LoansOf(seen[p].member)) + Cardinality(Uncounted(p)) + 2
    <= allowed[p] + Cardinality(IssueDesks)

LimitInv ==
  /\ Shape /\ LimitsTyped /\ Lenders /\ LimitsKnown
  /\ \A p \in Requests : Issuing(p) => Room(p)

\* Some of the other desks are fewer than the desks.
LEMMA FewOthers ==
  ASSUME NEW p \in IssueDesks, NEW S, S \subseteq IssueDesks \ {p}
  PROVE  /\ IsFiniteSet(IssueDesks) /\ IsFiniteSet(S)
         /\ Cardinality(IssueDesks) \in Nat /\ Cardinality(S) \in Nat
         /\ Cardinality(S) + 1 <= Cardinality(IssueDesks)
<1>1. IsFiniteSet(IssueDesks)
  BY DesksAssumption, FS_Subset
<1>2. /\ IsFiniteSet(IssueDesks \ {p})
      /\ Cardinality(IssueDesks \ {p}) = Cardinality(IssueDesks) - 1
  BY <1>1, FS_RemoveElement
<1>3. IsFiniteSet(S) /\ Cardinality(S) <= Cardinality(IssueDesks \ {p})
  BY <1>2, FS_Subset
<1>4. Cardinality(IssueDesks) \in Nat /\ Cardinality(S) \in Nat
  BY <1>1, <1>3, FS_CardinalityType
<1> QED
  BY <1>1, <1>2, <1>3, <1>4

\* So are the other lenders.
LEMMA FewUncounted ==
  ASSUME Lenders, NEW p \in Requests, Lending(p)
  PROVE  /\ IsFiniteSet(Uncounted(p)) /\ Cardinality(Uncounted(p)) \in Nat
         /\ Cardinality(IssueDesks) \in Nat
         /\ Cardinality(Uncounted(p)) + 1 <= Cardinality(IssueDesks)
<1>1. Uncounted(p) \subseteq IssueDesks \ {p} /\ p \in IssueDesks
  BY DEF Uncounted, Lenders
<1> QED
  BY <1>1, FewOthers

\* The loans of a member are counted in natural numbers.
LEMMA LoansCounted ==
  ASSUME Shape, NEW m
  PROVE  IsFiniteSet(LoansOf(m)) /\ Cardinality(LoansOf(m)) \in Nat
<1>1. LoansOf(m) \subseteq DOMAIN loans
  BY DEF LoansOf
<1> QED
  BY <1>1, LoansFinite

\* Fewer loans, fewer lenders and a higher limit leave the room there was.
LEMMA RoomKept ==
  ASSUME LimitInv, Shape', Lenders', LimitsKnown', NEW p \in Requests, Issuing(p), Same(p),
         Room(p), LoansOf(seen[p].member)' \subseteq LoansOf(seen[p].member),
         allowed[p] <= allowed'[p], Uncounted(p)' \subseteq Uncounted(p)
  PROVE  Room(p)'
<1> DEFINE m == seen[p].member
<1>1. Lending(p) /\ Lending(p)' /\ seen'[p].member = m
  BY DEF Issuing, Lending, Same
<1>2. /\ IsFiniteSet(LoansOf(m)) /\ Cardinality(LoansOf(m)) \in Nat
      /\ IsFiniteSet(Uncounted(p)) /\ Cardinality(Uncounted(p)) \in Nat
      /\ Cardinality(IssueDesks) \in Nat
  BY <1>1, LoansCounted, FewUncounted DEF LimitInv
<1>3. /\ Cardinality(LoansOf(m)') \in Nat /\ Cardinality(LoansOf(m)') <= Cardinality(LoansOf(m))
      /\ Cardinality(Uncounted(p)') \in Nat /\ Cardinality(Uncounted(p)') <= Cardinality(Uncounted(p))
  BY <1>2, FS_Subset, FS_CardinalityType
<1>4. allowed[p] \in Nat /\ allowed'[p] \in Nat
  BY DEF LimitInv, LimitsKnown
<1>5. LoansOf(seen[p].member)' = LoansOf(m)'
  OBVIOUS
<1> HIDE DEF m
<1> QED
  BY <1>1, <1>2, <1>3, <1>4 DEF Room, m
\* A PATCH gives a member one of the limits there are; nothing else does.
LEMMA NextLimitsTyped ==
  ASSUME LimitsTyped, [Next]_vars
  PROVE  LimitsTyped'
<1>1. ASSUME NEW p \in Requests, LoanStep(p) PROVE UNCHANGED limit
  BY <1>1 DEF LoanStep, FetchMember, IssueLock, IssueCommit, FetchLoan, ReturnLock, ReturnCommit, Renew
<1>2. ASSUME NEW p \in Requests, FineStep(p) \/ HoldStep(p) \/ Abort(p) \/ CatalogueStep(p) PROVE UNCHANGED limit
  BY <1>2 DEF FineStep, FetchFine, WaiveFine, PatchFine, HoldStep, CheckHold, PlaceHold, CancelHold, Abort,
    CatalogueStep, FetchBook, EditBook
<1>3. ASSUME NEW m \in Members, NEW n \in Limits, EditMember(m, n) PROVE LimitsTyped'
  BY <1>3 DEF EditMember, LimitsTyped
<1>4. (\E b \in Books : DeleteBook(b)) \/ (\E i \in DOMAIN fines : SettleCharge(i)) \/ NextDay \/ UNCHANGED vars
        => UNCHANGED limit
  BY DEF DeleteBook, SettleCharge, NextDay, vars
<1> QED
  BY <1>1, <1>2, <1>3, <1>4 DEF Next, DeskNext, Others, LimitsTyped

\* A step that lends nothing and puts nobody to lending; limits may rise.
LEMMA QuietForLimit ==
  ASSUME LimitInv, Shape', LimitsTyped', allowed' \in [Requests -> Nat],
         \A m \in Members : LoansOf(m)' \subseteq LoansOf(m),
         \A q \in Requests : Lending(q)' => /\ Same(q) /\ allowed[q] <= allowed'[q]
                                            /\ limit'[seen[q].member] <= allowed'[q]
  PROVE  LimitInv'
<1>1. \A q \in Requests : Lending(q)' => Lending(q) /\ Same(q) /\ pc'[q] = pc[q] /\ seen'[q] = seen[q]
  BY DEF Lending, Same
<1>2. Lenders'
  BY <1>1 DEF LimitInv, Lenders
<1>3. LimitsKnown'
  <2>1. ASSUME NEW q \in Requests, Lending(q)'
        PROVE  /\ limit'[seen'[q].member] <= allowed'[q]
               /\ pc'[q] = "issue" => seen'[q].limit \in Nat /\ seen'[q].limit <= allowed'[q]
    <3>1. pc[q] = "issue" => seen[q].limit \in Nat /\ seen[q].limit <= allowed[q]
      BY <1>1, <2>1 DEF LimitInv, LimitsKnown
    <3>2. allowed[q] \in Nat /\ allowed'[q] \in Nat /\ allowed[q] <= allowed'[q]
      BY <2>1 DEF LimitInv, LimitsKnown
    <3> QED
      BY <1>1, <2>1, <3>1, <3>2
  <2> QED
    BY <2>1 DEF LimitsKnown
<1>4. ASSUME NEW q \in Requests, Issuing(q)' PROVE Room(q)'
  <2>1. Lending(q)' /\ Lending(q) /\ Issuing(q) /\ Same(q) /\ Room(q) /\ allowed[q] <= allowed'[q]
    BY <1>1, <1>4 DEF Issuing, Lending, LimitInv
  <2>2. seen[q].member \in Members
    BY <2>1 DEF LimitInv, Shape
  <2>3. Uncounted(q)' \subseteq Uncounted(q)
    <3> SUFFICES ASSUME NEW r \in Uncounted(q)' PROVE r \in Uncounted(q)
      OBVIOUS
    <3>1. /\ r \in Requests \ {q} /\ Lending(r)' /\ seen'[r].member = seen'[q].member
          /\ pc'[r] = "issuing" \/ seen'[r].limit > allowed'[q]
      BY DEF Uncounted
    <3>2. Lending(r) /\ pc'[r] = pc[r] /\ seen'[r] = seen[r] /\ seen'[q] = seen[q]
      BY <1>1, <2>1, <3>1
    <3>3. pc[r] = "issuing" \/ (pc[r] = "issue" /\ seen[r].limit \in Nat)
      BY <3>1, <3>2 DEF LimitInv, LimitsKnown, Lending
    <3>4. allowed[q] \in Nat /\ allowed'[q] \in Nat
      BY DEF LimitInv, LimitsKnown
    <3>5. pc[r] = "issuing" \/ seen[r].limit > allowed[q]
      BY <2>1, <3>1, <3>2, <3>3, <3>4
    <3> QED
      BY <3>1, <3>2, <3>5 DEF Uncounted
  <2>4. LoansOf(seen[q].member)' \subseteq LoansOf(seen[q].member)
    <3>1. LoansOf(seen[q].member)' = {i \in DOMAIN loans' : loans'[i].member = seen'[q].member /\ loans'[i].returned = None}
      BY DEF LoansOf, Open
    <3>2. \A m \in Members : {i \in DOMAIN loans' : loans'[i].member = m /\ loans'[i].returned = None} \subseteq LoansOf(m)
      BY DEF LoansOf, Open
    <3> QED
      BY <1>1, <2>1, <2>2, <3>1, <3>2
  <2> QED
    BY <1>2, <1>3, <2>1, <2>3, <2>4, RoomKept
<1> QED
  BY <1>2, <1>3, <1>4 DEF LimitInv

\* A desk that fetches a member now is held to the limit the others know.
LEMMA FetchForLimit ==
  ASSUME LimitInv, Shape', LimitsTyped', NEW p \in IssueDesks, NEW b \in Books, NEW m \in Members,
         FetchMember(p, b, m)
  PROVE  LimitInv'
<1>0. p \in Requests
  BY DesksAssumption
<1> DEFINE object == [book |-> b, member |-> m, limit |-> limit[m]]
<1>1. /\ Fetched(p, "issue", object) /\ "issue" \in Steps /\ UNCHANGED <<limit, loans>>
      /\ allowed' = [allowed EXCEPT ![p] = limit[m]] /\ pc[p] = "idle"
  BY DEF FetchMember, Steps
<1>2. object.member = m /\ object.limit = limit[m]
  OBVIOUS
<1> HIDE DEF object
<1>3. /\ pc'[p] = "issue" /\ seen'[p] = object /\ \A q \in Requests \ {p} : Same(q)
  BY <1>0, <1>1, OneMoves DEF LimitInv
<1>4. limit[m] \in Nat /\ allowed \in [Requests -> Nat]
  BY MembersAssumption DEF LimitInv, LimitsTyped, LimitsKnown
<1>5. /\ allowed' \in [Requests -> Nat] /\ allowed'[p] = limit[m]
      /\ \A q \in Requests \ {p} : allowed'[q] = allowed[q]
  BY <1>0, <1>1, <1>4
<1>6. \A q \in Requests \ {p} : pc'[q] = pc[q] /\ seen'[q] = seen[q]
  BY <1>3 DEF Same
<1>7. Lenders'
  BY <1>6 DEF LimitInv, Lenders, Lending
<1>8. LimitsKnown'
  <2>1. ASSUME NEW q \in Requests, Lending(q)'
        PROVE  /\ limit'[seen'[q].member] <= allowed'[q]
               /\ pc'[q] = "issue" => seen'[q].limit \in Nat /\ seen'[q].limit <= allowed'[q]
    <3>1. CASE q = p
      BY <1>1, <1>2, <1>3, <1>4, <1>5, <3>1
    <3>2. CASE q # p
      BY <1>1, <1>5, <1>6, <2>1, <3>2 DEF LimitInv, LimitsKnown, Lending
    <3> QED
      BY <3>1, <3>2
  <2> QED
    BY <1>5, <2>1 DEF LimitsKnown
<1>9. ASSUME NEW q \in Requests, Issuing(q)' PROVE Room(q)'
  <2>1. q # p /\ Lending(q) /\ Issuing(q) /\ Same(q) /\ allowed'[q] = allowed[q] /\ Room(q)
    BY <1>3, <1>5, <1>6, <1>9 DEF Issuing, Lending, LimitInv
  <2>2. Uncounted(q)' \subseteq Uncounted(q)
    <3> SUFFICES ASSUME NEW r \in Uncounted(q)' PROVE r \in Uncounted(q)
      OBVIOUS
    <3>1. /\ r \in Requests \ {q} /\ Lending(r)' /\ seen'[r].member = seen'[q].member
          /\ pc'[r] = "issuing" \/ seen'[r].limit > allowed'[q]
      BY DEF Uncounted
    <3>2. r # p
      <4>1. limit[seen[q].member] <= allowed[q]
        BY <2>1 DEF LimitInv, LimitsKnown
      <4>2. allowed[q] \in Nat
        BY <1>4
      <4> QED
        BY <1>2, <1>3, <1>4, <1>6, <2>1, <3>1, <4>1, <4>2
    <3> QED
      BY <1>6, <2>1, <3>1, <3>2 DEF Uncounted, Lending
  <2>3. LoansOf(seen[q].member)' \subseteq LoansOf(seen[q].member)
    BY <1>1, <1>6, <2>1 DEF LoansOf, Open
  <2>4. allowed[q] <= allowed'[q]
    BY <1>4, <2>1
  <2> QED
    BY <1>7, <1>8, <2>1, <2>2, <2>3, <2>4, RoomKept
<1> QED
  BY <1>7, <1>8, <1>9 DEF LimitInv

\* The desk that has counted finds room, and takes none from the others: they
\* have allowed for it, or the limit it knows is one of theirs.
LEMMA LockForLimit ==
  ASSUME LimitInv, Shape', LimitsTyped', NEW p \in Requests, IssueLock(p)
  PROVE  LimitInv'
<1> DEFINE object == [book |-> seen[p].book, member |-> seen[p].member,
                      available |-> book[seen[p].book].available]
           m == seen[p].member
<1>1. /\ Fetched(p, "issuing", object) /\ "issuing" \in Steps /\ UNCHANGED <<limit, loans, allowed>>
      /\ pc[p] = "issue" /\ Lending(p) /\ Cardinality(LoansOf(m)) < seen[p].limit
  BY DEF IssueLock, UnderLimit, Steps, Lending
<1>2. object.member = m
  OBVIOUS
<1> HIDE DEF object
<1>3. /\ pc'[p] = "issuing" /\ seen'[p] = object /\ \A q \in Requests \ {p} : Same(q)
  BY <1>1, OneMoves DEF LimitInv
<1>4. /\ seen[p].limit \in Nat /\ seen[p].limit <= allowed[p] /\ allowed \in [Requests -> Nat]
      /\ m \in Members /\ limit[m] <= allowed[p]
  BY <1>1 DEF LimitInv, LimitsKnown, Shape
<1>5. \A q \in Requests \ {p} : pc'[q] = pc[q] /\ seen'[q] = seen[q]
  BY <1>3 DEF Same
<1>6. \A q \in Requests : seen'[q].member = seen[q].member /\ (Lending(q)' <=> Lending(q))
  BY <1>1, <1>2, <1>3, <1>5 DEF Lending
<1>7. Lenders'
  BY <1>6 DEF LimitInv, Lenders
<1>8. LimitsKnown'
  <2>1. ASSUME NEW q \in Requests, Lending(q)'
        PROVE  /\ limit'[seen'[q].member] <= allowed'[q]
               /\ pc'[q] = "issue" => seen'[q].limit \in Nat /\ seen'[q].limit <= allowed'[q]
    <3>1. CASE q = p
      BY <1>1, <1>3, <1>4, <1>6, <3>1
    <3>2. CASE q # p
      BY <1>1, <1>5, <2>1, <3>2 DEF LimitInv, LimitsKnown, Lending
    <3> QED
      BY <3>1, <3>2
  <2> QED
    BY <1>1, <1>4, <2>1 DEF LimitsKnown
<1>9. ASSUME NEW q \in Requests, Issuing(q)' PROVE Room(q)'
  <2>1. Lending(q)' /\ Lending(q)
    BY <1>6, <1>9 DEF Issuing, Lending
  <2>2. LoansOf(seen[q].member)' = LoansOf(seen[q].member)
    BY <1>1, <1>6 DEF LoansOf, Open
  <2>3. allowed[q] \in Nat /\ allowed'[q] = allowed[q]
    BY <1>1, <1>4
  <2>4. CASE seen[q].member = m /\ seen[p].limit <= allowed[q]
    <3>1. Cardinality(LoansOf(seen[q].member)) < allowed[q] /\ Cardinality(LoansOf(seen[q].member)) \in Nat
      BY <1>1, <1>4, <2>3, <2>4, LoansCounted DEF LimitInv
    <3>2. /\ Cardinality(Uncounted(q)') \in Nat /\ Cardinality(IssueDesks) \in Nat
          /\ Cardinality(Uncounted(q)') + 1 <= Cardinality(IssueDesks)
      <4>1. Uncounted(q)' \subseteq IssueDesks \ {q} /\ q \in IssueDesks
        BY <1>7, <2>1 DEF Uncounted, Lenders
      <4> QED
        BY <4>1, FewOthers
    <3>3. Cardinality(LoansOf(seen[q].member)) + Cardinality(Uncounted(q)') + 2 <= allowed[q] + Cardinality(IssueDesks)
      BY <2>3, <3>1, <3>2
    <3> QED
      BY <2>2, <2>3, <3>3 DEF Room
  <2>5. CASE ~(seen[q].member = m /\ seen[p].limit <= allowed[q])
    <3>1. q # p /\ Issuing(q) /\ Same(q) /\ Room(q)
      BY <1>3, <1>4, <1>5, <1>9, <2>5 DEF Issuing, LimitInv
    <3>2. Uncounted(q)' \subseteq Uncounted(q)
      <4> SUFFICES ASSUME NEW r \in Uncounted(q)' PROVE r \in Uncounted(q)
        OBVIOUS
      <4>1. /\ r \in Requests \ {q} /\ Lending(r)' /\ seen'[r].member = seen'[q].member
            /\ pc'[r] = "issuing" \/ seen'[r].limit > allowed'[q]
        BY DEF Uncounted
      <4>2. CASE r = p
        <5>1. seen[p].limit > allowed[q] /\ Lending(r) /\ seen[r].member = seen[q].member
          BY <1>1, <1>4, <1>6, <2>3, <2>5, <4>1, <4>2
        <5> QED
          BY <4>1, <4>2, <5>1 DEF Uncounted
      <4>3. CASE r # p
        BY <1>5, <1>6, <2>3, <4>1, <4>3 DEF Uncounted
      <4> QED
        BY <4>2, <4>3
    <3>3. LoansOf(seen[q].member)' \subseteq LoansOf(seen[q].member) /\ allowed[q] <= allowed'[q]
      BY <2>2, <2>3
    <3> QED
      BY <1>7, <1>8, <3>1, <3>2, <3>3, RoomKept
  <2> QED
    BY <2>4, <2>5
<1> QED
  BY <1>7, <1>8, <1>9 DEF LimitInv

\* The loan that is added was uncounted for everybody else.
LEMMA CommitForLimit ==
  ASSUME LimitInv, Shape', LimitsTyped', NEW p \in Requests, IssueCommit(p)
  PROVE  LimitInv'
<1> DEFINE m == seen[p].member
           n == Len(loans) + 1
<1>1. /\ Fetched(p, "idle", None) /\ "idle" \in Steps /\ UNCHANGED limit /\ Issuing(p) /\ Lending(p)
      /\ allowed' = [allowed EXCEPT ![p] = 0]
  BY DEF IssueCommit, Done, Steps, Issuing, Lending
<1>2. /\ pc'[p] = "idle" /\ \A q \in Requests \ {p} : Same(q) /\ pc'[q] = pc[q] /\ seen'[q] = seen[q]
  BY <1>1, OneMoves DEF LimitInv, Same
<1>3. /\ \A i \in DOMAIN loans : i \in DOMAIN loans' /\ loans'[i] = loans[i]
      /\ DOMAIN loans' = (DOMAIN loans) \cup {n} /\ n \notin DOMAIN loans
      /\ loans'[n].member = m
  BY LentOne DEF LimitInv
<1>4. /\ allowed \in [Requests -> Nat] /\ allowed' \in [Requests -> Nat]
      /\ \A q \in Requests \ {p} : allowed'[q] = allowed[q]
  BY <1>1 DEF LimitInv, LimitsKnown
<1>5. Lenders' /\ LimitsKnown'
  BY <1>1, <1>2, <1>4 DEF LimitInv, Lenders, LimitsKnown, Lending
<1>6. ASSUME NEW q \in Requests, Issuing(q)' PROVE Room(q)'
  <2>1. /\ q # p /\ Same(q) /\ Issuing(q) /\ Room(q) /\ Lending(q) /\ Lending(q)'
        /\ seen'[q] = seen[q] /\ allowed'[q] = allowed[q] /\ allowed[q] \in Nat
    BY <1>2, <1>4, <1>6 DEF Issuing, Lending, LimitInv
  <2>2. Uncounted(q)' \subseteq Uncounted(q) \ {p}
    BY <1>2, <2>1 DEF Uncounted, Lending
  <2>3. CASE seen[q].member # m
    <3>1. LoansOf(seen[q].member)' \subseteq LoansOf(seen[q].member)
      BY <1>3, <2>1, <2>3 DEF LoansOf, Open
    <3>2. allowed[q] <= allowed'[q] /\ Uncounted(q)' \subseteq Uncounted(q)
      BY <2>1, <2>2
    <3> QED
      BY <1>5, <2>1, <3>1, <3>2, RoomKept
  <2>4. CASE seen[q].member = m
    <3>1. LoansOf(seen[q].member)' \subseteq LoansOf(m) \cup {n} /\ n \notin LoansOf(m)
      BY <1>3, <2>1, <2>4 DEF LoansOf, Open
    <3>2. p \in Uncounted(q)
      BY <1>1, <2>1, <2>4 DEF Uncounted, Issuing
    <3>3. /\ IsFiniteSet(LoansOf(m)) /\ Cardinality(LoansOf(m)) \in Nat
          /\ IsFiniteSet(Uncounted(q)) /\ Cardinality(Uncounted(q)) \in Nat
          /\ Cardinality(IssueDesks) \in Nat
      BY <2>1, LoansCounted, FewUncounted DEF LimitInv
    <3>4. /\ IsFiniteSet(LoansOf(m) \cup {n})
          /\ Cardinality(LoansOf(m) \cup {n}) = Cardinality(LoansOf(m)) + 1
      BY <3>1, <3>3, FS_AddElement
    <3>5. /\ IsFiniteSet(Uncounted(q) \ {p})
          /\ Cardinality(Uncounted(q) \ {p}) = Cardinality(Uncounted(q)) - 1
      BY <3>2, <3>3, FS_RemoveElement
    <3>6. /\ Cardinality(LoansOf(seen[q].member)') \in Nat
          /\ Cardinality(LoansOf(seen[q].member)') <= Cardinality(LoansOf(m)) + 1
      BY <3>1, <3>4, FS_Subset, FS_CardinalityType
    <3>7. /\ Cardinality(Uncounted(q)') \in Nat
          /\ Cardinality(Uncounted(q)') <= Cardinality(Uncounted(q)) - 1
      BY <2>2, <3>5, FS_Subset, FS_CardinalityType
    <3>8. Cardinality(LoansOf(m)) + Cardinality(Uncounted(q)) + 2 <= allowed[q] + Cardinality(IssueDesks)
      BY <2>1, <2>4 DEF Room
    <3>9. Cardinality(LoansOf(seen[q].member)') + Cardinality(Uncounted(q)') + 2
            <= allowed'[q] + Cardinality(IssueDesks)
      BY <2>1, <3>3, <3>6, <3>7, <3>8
    <3> QED
      BY <3>9 DEF Room
  <2> QED
    BY <2>3, <2>4
<1> QED
  BY <1>5, <1>6 DEF LimitInv

\* What the other steps do to the loans, the limits and those who lend.
LEMMA OtherForLimit ==
  ASSUME LimitInv, Shape', LimitsTyped', NEW p \in Requests, NEW step \in Steps \ {"issue", "issuing"},
         NEW object, Fetched(p, step, object), UNCHANGED limit,
         allowed' = allowed \/ allowed' = [allowed EXCEPT ![p] = 0],
         \A m \in Members : LoansOf(m)' \subseteq LoansOf(m)
  PROVE  LimitInv'
<1>1. pc'[p] = step /\ \A q \in Requests \ {p} : Same(q)
  BY OneMoves DEF LimitInv
<1>2. allowed' \in [Requests -> Nat] /\ \A q \in Requests \ {p} : allowed'[q] = allowed[q] /\ allowed[q] \in Nat
  BY DEF LimitInv, LimitsKnown
<1>3. \A q \in Requests : Lending(q)' => /\ Same(q) /\ allowed[q] <= allowed'[q]
                                         /\ limit'[seen[q].member] <= allowed'[q]
  <2> SUFFICES ASSUME NEW q \in Requests, Lending(q)'
               PROVE  /\ Same(q) /\ allowed[q] <= allowed'[q] /\ limit[seen[q].member] <= allowed'[q]
    OBVIOUS
  <2>1. q # p
    BY <1>1 DEF Lending
  <2>2. Same(q) /\ Lending(q)
    BY <1>1, <2>1 DEF Lending, Same
  <2>3. limit[seen[q].member] <= allowed[q]
    BY <2>2 DEF LimitInv, LimitsKnown
  <2> QED
    BY <1>2, <2>1, <2>2, <2>3
<1> QED
  BY <1>2, <1>3, QuietForLimit

\* A PATCH raises what the requests that lend to the member may rely on.
LEMMA EditForLimit ==
  ASSUME LimitInv, Shape', LimitsTyped', NEW m \in Members, NEW n \in Limits, EditMember(m, n)
  PROVE  LimitInv'
<1>1. /\ limit' = [limit EXCEPT ![m] = n] /\ UNCHANGED <<loans, pc, seen>>
      /\ allowed' = [q \in Requests |-> IF q \in LendingTo(m) THEN Max({allowed[q], n}) ELSE allowed[q]]
  BY DEF EditMember
<1>2. n \in Nat /\ allowed \in [Requests -> Nat] /\ limit \in [Members -> Nat]
  BY MembersAssumption DEF LimitInv, LimitsKnown, LimitsTyped
<1>3. ASSUME NEW q \in Requests
      PROVE  /\ Max({allowed[q], n}) \in Nat /\ Max({allowed[q], n}) >= allowed[q]
             /\ Max({allowed[q], n}) >= n
  BY <1>2, GreatestOfTwo
<1>4. \A q \in Requests : allowed'[q] = (IF q \in LendingTo(m) THEN Max({allowed[q], n}) ELSE allowed[q])
  BY <1>1
<1>5. allowed' \in [Requests -> Nat] /\ \A q \in Requests : allowed[q] <= allowed'[q]
  <2>1. ASSUME NEW q \in Requests PROVE allowed'[q] \in Nat /\ allowed[q] <= allowed'[q]
    <3>1. allowed[q] \in Nat /\ Max({allowed[q], n}) \in Nat /\ Max({allowed[q], n}) >= allowed[q]
      BY <1>2, <1>3
    <3>2. allowed'[q] = (IF q \in LendingTo(m) THEN Max({allowed[q], n}) ELSE allowed[q])
      BY <1>4
    <3> QED
      BY <3>1, <3>2
  <2>2. allowed' = [q \in Requests |-> allowed'[q]]
    BY <1>1
  <2> QED
    BY <2>1, <2>2
<1>6. \A q \in Requests : Lending(q)' => /\ Same(q) /\ allowed[q] <= allowed'[q]
                                         /\ limit'[seen[q].member] <= allowed'[q]
  <2> SUFFICES ASSUME NEW q \in Requests, Lending(q)'
               PROVE  /\ Same(q) /\ limit'[seen[q].member] <= allowed'[q]
    BY <1>5
  <2>1. Same(q) /\ Lending(q) /\ seen[q].member \in Members /\ limit[seen[q].member] <= allowed[q]
    BY <1>1 DEF Same, Lending, LimitInv, LimitsKnown, Shape
  <2>2. CASE seen[q].member = m
    <3>1. q \in LendingTo(m)
      BY <2>1, <2>2 DEF LendingTo, Lending
    <3>2. limit'[m] = n
      BY <1>1, <1>2
    <3> QED
      BY <1>3, <1>4, <2>1, <2>2, <3>1, <3>2
  <2>3. CASE seen[q].member # m
    <3>1. limit'[seen[q].member] = limit[seen[q].member]
      BY <1>1, <1>2, <2>1, <2>3
    <3>2. limit[seen[q].member] \in Nat /\ allowed[q] \in Nat /\ allowed'[q] \in Nat
      BY <1>2, <1>5, <2>1
    <3> QED
      BY <1>5, <2>1, <3>1, <3>2
  <2> QED
    BY <2>2, <2>3
<1>7. \A c \in Members : LoansOf(c)' \subseteq LoansOf(c)
  BY <1>1 DEF LoansOf, Open
<1> QED
  BY <1>5, <1>6, <1>7, QuietForLimit

\* Every step keeps the limits ...
LEMMA NextLimit ==
  ASSUME LimitInv, [Next]_vars
  PROVE  LimitInv'
<1>1. Shape' /\ LimitsTyped'
  BY NextShape, NextLimitsTyped DEF LimitInv
<1>2. UNCHANGED loans => \A m \in Members : LoansOf(m)' \subseteq LoansOf(m)
  BY DEF LoansOf, Open
<1>3. ASSUME NEW p \in Requests, ReturnCommit(p) \/ Renew(p) PROVE LimitInv'
  <2>1. /\ DOMAIN loans' = DOMAIN loans
        /\ \A i \in DOMAIN loans : /\ loans'[i].member = loans[i].member
                                   /\ loans'[i].returned = None => loans[i].returned = None
    <3>1. CASE Renew(p)
      BY <3>1, RenewedOne DEF LimitInv
    <3>2. CASE ReturnCommit(p)
      <4>1. today # None
        BY NoneAssumption DEF LimitInv, Shape
      <4> QED
        BY <3>2, <4>1, ReturnedOne DEF LimitInv
    <3> QED
      BY <1>3, <3>1, <3>2
  <2>2. \A m \in Members : LoansOf(m)' \subseteq LoansOf(m)
    BY <2>1 DEF LoansOf, Open
  <2>3. /\ Fetched(p, "idle", None) /\ allowed' = [allowed EXCEPT ![p] = 0] /\ UNCHANGED limit
        /\ "idle" \in Steps \ {"issue", "issuing"}
    BY <1>3 DEF ReturnCommit, Renew, Done, Steps
  <2> QED
    BY <1>1, <2>2, <2>3, OtherForLimit
<1>4. ASSUME NEW p \in Requests, NEW step \in Steps \ {"issue", "issuing"}, NEW object,
             Fetched(p, step, object), UNCHANGED <<limit, loans>>,
             allowed' = allowed \/ allowed' = [allowed EXCEPT ![p] = 0]
      PROVE  LimitInv'
  BY <1>1, <1>2, <1>4, OtherForLimit
<1>5. ASSUME NEW p \in Requests, NEW i, NEW step \in {"return", "renew"}, FetchLoan(p, step, i) PROVE LimitInv'
  BY <1>4, <1>5 DEF FetchLoan, Steps
<1>6. ASSUME NEW p \in Requests, ReturnLock(p) PROVE LimitInv'
  BY <1>4, <1>6 DEF ReturnLock, Done, Steps
<1>7. ASSUME NEW p \in Requests, FineStep(p) PROVE LimitInv'
  BY <1>4, <1>7 DEF FineStep, FetchFine, WaiveFine, PatchFine, Done, Steps
<1>8. ASSUME UNCHANGED <<limit, loans, pc, seen, allowed>> PROVE LimitInv'
  <2>1. \A q \in Requests : Lending(q)' => /\ Same(q) /\ allowed[q] <= allowed'[q]
                                           /\ limit'[seen[q].member] <= allowed'[q]
    BY <1>8 DEF Same, Lending, LimitInv, LimitsKnown
  <2>2. allowed' \in [Requests -> Nat]
    BY <1>8 DEF LimitInv, LimitsKnown
  <2> QED
    BY <1>1, <1>2, <1>8, <2>1, <2>2, QuietForLimit
<1>9. ASSUME NEW p \in Requests, HoldStep(p) PROVE LimitInv'
  BY <1>4, <1>8, <1>9 DEF HoldStep, CheckHold, PlaceHold, CancelHold, Done, Steps
<1>10. ASSUME NEW p \in Requests, Abort(p) \/ CatalogueStep(p) PROVE LimitInv'
  BY <1>4, <1>10 DEF Abort, CatalogueStep, FetchBook, EditBook, Done, Steps
<1>11. ASSUME (\E i \in DOMAIN fines : SettleCharge(i)) \/ NextDay \/ (\E b \in Books : DeleteBook(b)) \/ UNCHANGED vars
       PROVE  LimitInv'
  BY <1>8, <1>11 DEF SettleCharge, NextDay, DeleteBook, vars
<1>12. ASSUME NEW p \in Requests, LoanStep(p) PROVE LimitInv'
  BY <1>1, <1>3, <1>5, <1>6, <1>12, FetchForLimit, LockForLimit, CommitForLimit DEF LoanStep
<1> QED
  BY <1>1, <1>7, <1>9, <1>10, <1>11, <1>12, EditForLimit DEF Next, DeskNext, Others

\* ... and nobody lends at first.
LEMMA InitLimit == Init => LimitInv
<1> SUFFICES ASSUME Init PROVE LimitInv
  OBVIOUS
<1>1. \A p \in Requests : ~Issuing(p) /\ ~Lending(p)
  BY DEF Init, Issuing, Lending
<1>2. allowed \in [Requests -> Nat] /\ LimitsTyped
  BY DEF Init, LimitsTyped
<1> QED
  BY <1>1, <1>2, InitShape DEF LimitInv, Lenders, LimitsKnown

\* With room, a loan stays within what the lending desks may add up to.
LEMMA RoomIsEnough ==
  ASSUME LimitInv, [Next]_vars, NEW p \in Requests, NEW m \in Members, LendsTo(p, m)
  PROVE  Cardinality(LoansOf(m)') <= allowed[p] + Cardinality(IssueDesks) - 1
<1>1. Issuing(p) /\ Lending(p) /\ seen[p].member = m /\ pc'[p] = "idle" /\ Room(p)
  BY DEF LendsTo, Issuing, Lending, LimitInv
<1>2. DOMAIN loans = 1..Len(loans)
  BY LenProperties DEF LimitInv, Shape
<1>3. IssueCommit(p)
  <2>1. ASSUME NEW q \in Requests, LoanStep(q) PROVE IssueCommit(p)
    <3>1. Len(loans') = Len(loans) \/ (q = p /\ IssueCommit(p))
      <4>1. ReturnCommit(q) \/ Renew(q) => Len(loans') = Len(loans)
        BY ReturnedOne, RenewedOne DEF LimitInv, Shape, ReturnCommit, Renew
      <4>2. IssueCommit(q) => q = p
        <5>1. IssueCommit(q) => pc[q] = "issuing" /\ Fetched(q, "idle", None) /\ "idle" \in Steps
          BY DEF IssueCommit, Done, Steps
        <5>2. IssueCommit(q) /\ q # p => pc'[p] = pc[p]
          BY <5>1, OneMoves DEF LimitInv, Same
        <5> QED
          BY <1>1, <5>2 DEF Issuing
      <4> QED
        BY <2>1, <4>1, <4>2 DEF LoanStep, FetchMember, IssueLock, FetchLoan, ReturnLock
    <3> QED
      BY <3>1, <1>2 DEF LendsTo, LimitInv, Shape
  <2>2. ASSUME NEW q \in Requests, FineStep(q) \/ HoldStep(q) \/ Abort(q) \/ CatalogueStep(q) PROVE loans' = loans
    BY <2>2 DEF FineStep, FetchFine, WaiveFine, PatchFine, HoldStep, CheckHold, PlaceHold, CancelHold, Abort,
      CatalogueStep, FetchBook, EditBook
  <2>3. Others \/ (\E b \in Books : DeleteBook(b)) \/ UNCHANGED vars => loans' = loans
    BY DEF Others, SettleCharge, EditMember, NextDay, DeleteBook, vars
  <2>4. loans' # loans
    BY DEF LendsTo, LimitInv, Shape
  <2> QED
    BY <2>1, <2>2, <2>3, <2>4 DEF Next, DeskNext
<1>4. LoansOf(m)' \subseteq LoansOf(m) \cup {Len(loans) + 1} /\ Len(loans) + 1 \notin LoansOf(m)
  <2>1. /\ \A i \in DOMAIN loans : i \in DOMAIN loans' /\ loans'[i] = loans[i]
        /\ DOMAIN loans' = (DOMAIN loans) \cup {Len(loans) + 1} /\ Len(loans) + 1 \notin DOMAIN loans
    BY <1>3, LentOne DEF LimitInv
  <2> QED
    BY <2>1 DEF LoansOf, Open
<1>5. /\ IsFiniteSet(LoansOf(m)) /\ Cardinality(LoansOf(m)) \in Nat
      /\ Cardinality(Uncounted(p)) \in Nat /\ Cardinality(IssueDesks) \in Nat /\ allowed[p] \in Nat
  BY <1>1, LoansCounted, FewUncounted DEF LimitInv, LimitsKnown
<1>6. /\ IsFiniteSet(LoansOf(m) \cup {Len(loans) + 1})
      /\ Cardinality(LoansOf(m) \cup {Len(loans) + 1}) = Cardinality(LoansOf(m)) + 1
  BY <1>4, <1>5, FS_AddElement
<1>7. /\ Cardinality(LoansOf(m)') \in Nat
      /\ Cardinality(LoansOf(m)') <= Cardinality(LoansOf(m)) + 1
  BY <1>4, <1>6, FS_Subset, FS_CardinalityType
<1>8. Cardinality(LoansOf(m)) + Cardinality(Uncounted(p)) + 2 <= allowed[p] + Cardinality(IssueDesks)
  BY <1>1 DEF Room
<1> QED
  BY <1>5, <1>7, <1>8

\* effective_borrow_limit: however many desks lend and whatever happens to the
\* limits meanwhile, a loan takes its member over the limit by the other lending
\* desks at most; where one desk lends, the limit holds.
THEOREM NobodyOverTheLimit == Spec => WithinBorrowLimit
<1>1. LimitInv /\ [Next]_vars => LimitInv'
  BY NextLimit
<1>2. LimitInv /\ [Next]_vars =>
        [\A p \in Requests, m \in Members :
           LendsTo(p, m) => Cardinality(LoansOf(m)') <= allowed[p] + Cardinality(IssueDesks) - 1]_vars
  BY RoomIsEnough
<1> QED
  BY InitLimit, <1>1, <1>2, PTL DEF Spec, WithinBorrowLimit

-----------------------------------------------------------------------------
(***************************************************************************)
(* Fines.  A PATCH writes the whole fine as it was fetched, waived and all;*)
(* that it brings no debt back rests on a waived fine staying unpayable.   *)
(***************************************************************************)
WithFine(q) == pc[q] \in {"waive", "patch"}
Settled(charge) == charge \in {None, "cancelled"}
FinesInv ==
  /\ fines \in Seq(Fine)
  /\ \A f \in DOMAIN fines : fines[f].loan \in DOMAIN loans
  /\ \A q \in Requests : WithFine(q) =>
       /\ seen[q].fine \in DOMAIN fines /\ seen[q].row \in Fine
       /\ seen[q].row.waived => Settled(fines[seen[q].fine].charge)
  /\ WaivedOwesNothing

\* Loans are never removed.
LEMMA LoansStay ==
  ASSUME Shape, [Next]_vars
  PROVE  DOMAIN loans \subseteq DOMAIN loans'
<1>1. ASSUME NEW p \in Requests, LoanStep(p) PROVE DOMAIN loans \subseteq DOMAIN loans'
  BY <1>1, LentOne, ReturnedOne, RenewedOne DEF LoanStep, FetchMember, IssueLock, FetchLoan, ReturnLock
<1>2. ASSUME (\E p \in Requests : FineStep(p) \/ HoldStep(p) \/ Abort(p)) \/ Others PROVE loans' = loans
  BY <1>2, NoConcern
<1>3. (\E p \in Requests : CatalogueStep(p)) \/ (\E b \in Books : DeleteBook(b)) => loans' = loans
  BY DEF CatalogueStep, DeleteBook, FetchBook, EditBook
<1>4. CASE UNCHANGED vars
  BY <1>4 DEF vars
<1>5. QED
  BY <1>1, <1>2, <1>3, <1>4 DEF Next, DeskNext

\* A fine that keeps its loan, and stays settled once it is, or a new one that
\* is not waived.
LEMMA FinesKept ==
  ASSUME FinesInv, DOMAIN loans \subseteq DOMAIN loans', fines' \in Seq(Fine),
         \A f \in DOMAIN fines : /\ f \in DOMAIN fines' /\ fines'[f].loan = fines[f].loan
                                 /\ Settled(fines[f].charge) => Settled(fines'[f].charge)
                                 /\ fines'[f].waived => fines[f].waived \/ Settled(fines'[f].charge),
         \A f \in DOMAIN fines' \ DOMAIN fines : fines'[f].loan \in DOMAIN loans' /\ ~fines'[f].waived,
         \A q \in Requests : WithFine(q)' =>
           \/ Same(q)
           \/ /\ seen'[q].fine \in DOMAIN fines /\ seen'[q].row \in Fine
              /\ seen'[q].row.waived => Settled(fines[seen'[q].fine].charge)
  PROVE  FinesInv'
<1>1. \A f \in DOMAIN fines' : fines'[f].loan \in DOMAIN loans'
  BY DEF FinesInv
<1>2. WaivedOwesNothing'
  BY DEF FinesInv, WaivedOwesNothing, Settled
<1>3. ASSUME NEW q \in Requests, WithFine(q)'
      PROVE  /\ seen'[q].fine \in DOMAIN fines' /\ seen'[q].row \in Fine
             /\ seen'[q].row.waived => Settled(fines'[seen'[q].fine].charge)
  <2>1. /\ seen'[q].fine \in DOMAIN fines /\ seen'[q].row \in Fine
        /\ seen'[q].row.waived => Settled(fines[seen'[q].fine].charge)
    BY <1>3 DEF FinesInv, Same, WithFine
  <2>2. QED
    BY <2>1
<1>4. QED
  BY <1>1, <1>2, <1>3 DEF FinesInv

\* Steps that do nothing about fines.
LEMMA NoFine ==
  ASSUME FinesInv, DOMAIN loans \subseteq DOMAIN loans', UNCHANGED fines,
         \A q \in Requests : WithFine(q)' => Same(q)
  PROVE  FinesInv'
<1>1. /\ fines' \in Seq(Fine) /\ DOMAIN fines' = DOMAIN fines
      /\ \A f \in DOMAIN fines : fines'[f] = fines[f]
  BY DEF FinesInv
<1>2. QED
  BY <1>1, FinesKept

\* One fine is changed.
LEMMA FineChanged ==
  ASSUME FinesInv, DOMAIN loans \subseteq DOMAIN loans', NEW i \in DOMAIN fines,
         NEW new \in Fine, fines' = [fines EXCEPT ![i] = new], new.loan = fines[i].loan,
         Settled(fines[i].charge) => Settled(new.charge), new.waived => fines[i].waived \/ Settled(new.charge),
         \A q \in Requests : WithFine(q)' => Same(q)
  PROVE  FinesInv'
<1>1. DOMAIN fines = 1..Len(fines)
  BY LenProperties DEF FinesInv
<1>2. fines' \in Seq(Fine) /\ DOMAIN fines' = DOMAIN fines
  BY <1>1, ExceptSeq, LenProperties DEF FinesInv
<1>3. \A f \in DOMAIN fines : fines'[f] = IF f = i THEN new ELSE fines[f]
  OBVIOUS
<1>4. QED
  BY <1>2, <1>3, FinesKept

\* Taking back adds a fine that is not waived, or none.
LEMMA ReturnFine ==
  ASSUME Shape, FinesInv, NEW p \in Requests, ReturnCommit(p), DOMAIN loans \subseteq DOMAIN loans'
  PROVE  FinesInv'
<1>1. \A q \in Requests : WithFine(q)' => Same(q)
  <2>1. Fetched(p, "idle", None) /\ "idle" \in Steps
    BY DEF ReturnCommit, Done, Steps
  <2>2. QED
    BY <2>1, OneMoves DEF WithFine
<1>2. CASE UNCHANGED fines
  BY <1>1, <1>2, NoFine
<1>3. CASE fines' # fines
  <2> DEFINE new == NewFine(seen[p].loan, seen[p].row)
  <2>1. DaysOverdue(seen[p].row) > 0 /\ fines' = Append(fines, new)
    BY <1>3 DEF ReturnCommit
  <2>2. seen[p].loan \in DOMAIN loans /\ DOMAIN loans = 1..Len(loans) /\ seen[p].row \in Loan /\ today \in Nat
    BY LenProperties DEF Shape, ReturnCommit, HasLoan
  <2>3. DaysOverdue(seen[p].row) \in Nat \ {0}
    BY <2>1, <2>2 DEF DaysOverdue, Loan
  <2>4. new \in Fine /\ new.loan = seen[p].loan /\ ~new.waived
    BY <2>2, <2>3 DEF NewFine, Fine
  <2> HIDE DEF new
  <2>5. /\ fines' \in Seq(Fine) /\ Len(fines') = Len(fines) + 1
        /\ \A f \in 1..Len(fines) : fines'[f] = fines[f]
        /\ fines'[Len(fines) + 1] = new
    BY <2>1, <2>4, AppendProperties DEF FinesInv
  <2>6. DOMAIN fines = 1..Len(fines) /\ DOMAIN fines' = 1..(Len(fines) + 1) /\ Len(fines) \in Nat
    BY <2>5, LenProperties DEF FinesInv
  <2>7. \A f \in DOMAIN fines' \ DOMAIN fines : fines'[f] = new
    BY <2>5, <2>6
  <2>8. \A f \in DOMAIN fines : f \in DOMAIN fines' /\ fines'[f] = fines[f]
    BY <2>5, <2>6
  <2>9. QED
    BY <1>1, <2>2, <2>4, <2>5, <2>7, <2>8, FinesKept
<1>4. QED
  BY <1>2, <1>3

\* Every step keeps waived fines settled.
LEMMA NextFines ==
  ASSUME Shape, FinesInv, [Next]_vars
  PROVE  FinesInv'
<1>0. DOMAIN loans \subseteq DOMAIN loans'
  BY LoansStay
<1>9. \A i \in DOMAIN fines : fines[i] \in Fine
  BY LenProperties, ElementOfSeq DEF FinesInv
<1>1. ASSUME NEW p \in Requests, NEW step \in Steps \ {"waive", "patch"}, NEW object,
             Fetched(p, step, object), UNCHANGED fines
      PROVE  FinesInv'
  BY <1>0, <1>1, NoFine, OneMoves DEF WithFine
<1>2. ASSUME NEW p \in Requests, NEW i \in DOMAIN fines, NEW step \in {"waive", "patch"}, FetchFine(p, step, i)
      PROVE  FinesInv'
  <2>1. step \in Steps /\ Fetched(p, step, [fine |-> i, row |-> fines[i]]) /\ UNCHANGED <<fines, loans>>
    BY <1>2 DEF FetchFine, Steps
  <2>2. /\ seen'[p] = [fine |-> i, row |-> fines[i]]
        /\ \A q \in Requests \ {p} : Same(q)
    BY <2>1, OneMoves
  <2>3. fines[i].waived => Settled(fines[i].charge)
    BY DEF FinesInv, WaivedOwesNothing, Settled
  <2>4. \A q \in Requests : \/ Same(q)
                            \/ /\ seen'[q].fine \in DOMAIN fines /\ seen'[q].row \in Fine
                               /\ seen'[q].row.waived => Settled(fines[seen'[q].fine].charge)
    BY <1>9, <2>2, <2>3
  <2>5. fines' \in Seq(Fine) /\ DOMAIN fines' = DOMAIN fines /\ \A f \in DOMAIN fines : fines'[f] = fines[f]
    BY <2>1 DEF FinesInv
  <2>6. QED
    BY <1>0, <2>4, <2>5, FinesKept
<1>3. ASSUME NEW p \in Requests, WaiveFine(p) PROVE FinesInv'
  <2> DEFINE i == seen[p].fine
             new == [fines[i] EXCEPT !.waived = TRUE,
                                     !.charge = IF fines[i].charge = None THEN None ELSE "cancelled"]
  <2>1. Fetched(p, "idle", None) /\ "idle" \in Steps \ {"waive", "patch"} /\ i \in DOMAIN fines
    BY <1>3 DEF WaiveFine, Done, Steps, FinesInv, WithFine
  <2>2. CASE UNCHANGED fines
    BY <1>1, <2>1, <2>2
  <2>3. CASE fines' = Waived(i)
    <3>1. fines' = [fines EXCEPT ![i] = new]
      BY <2>1, <2>3 DEF Waived
    <3>2. fines[i] \in Fine
      BY <1>9, <2>1
    <3>3. new \in Fine /\ new.loan = fines[i].loan /\ Settled(new.charge)
      BY <3>2 DEF Fine, Settled
    <3> HIDE DEF new
    <3>4. \A q \in Requests : WithFine(q)' => Same(q)
      BY <2>1, OneMoves DEF WithFine
    <3>5. QED
      BY <1>0, <2>1, <3>1, <3>3, <3>4, FineChanged
  <2>4. QED
    BY <1>3, <2>2, <2>3 DEF WaiveFine
<1>4. ASSUME NEW p \in Requests, NEW paid \in BOOLEAN, PatchFine(p, paid) PROVE FinesInv'
  <2> DEFINE i == seen[p].fine
             new == [fines[i] EXCEPT !.paid = paid, !.waived = seen[p].row.waived]
  <2>1. /\ Fetched(p, "idle", None) /\ "idle" \in Steps \ {"waive", "patch"} /\ i \in DOMAIN fines
        /\ seen[p].row \in Fine
        /\ seen[p].row.waived => Settled(fines[i].charge)
    BY <1>4 DEF PatchFine, Done, Steps, FinesInv, WithFine
  <2>2. CASE UNCHANGED fines
    BY <1>1, <2>1, <2>2
  <2>3. CASE fines' # fines
    <3>1. fines' = [fines EXCEPT ![i] = new]
      BY <1>4, <2>1, <2>3 DEF PatchFine
    <3>2. fines[i] \in Fine
      BY <1>9, <2>1
    <3>0. seen[p].row.waived \in BOOLEAN
      BY <2>1 DEF Fine
    <3>3. new \in Fine /\ new.loan = fines[i].loan /\ new.charge = fines[i].charge /\ new.waived = seen[p].row.waived
      BY <3>0, <3>2 DEF Fine
    <3> HIDE DEF new
    <3>6. new.waived => Settled(new.charge)
      BY <2>1, <3>3
    <3>4. \A q \in Requests : WithFine(q)' => Same(q)
      BY <2>1, OneMoves DEF WithFine
    <3>5. QED
      BY <1>0, <2>1, <3>1, <3>3, <3>4, <3>6, FineChanged
  <2>4. QED
    BY <2>2, <2>3
<1>5. ASSUME NEW i \in DOMAIN fines, SettleCharge(i) PROVE FinesInv'
  <2> DEFINE new == [fines[i] EXCEPT !.charge = "paid"]
  <2>1. fines' = [fines EXCEPT ![i] = new] /\ fines[i].charge = "open" /\ UNCHANGED <<pc, seen, loans>>
    BY <1>5 DEF SettleCharge
  <2>2. fines[i] \in Fine
    BY <1>9
  <2>3. new \in Fine /\ new.loan = fines[i].loan /\ new.waived = fines[i].waived
    BY <2>2 DEF Fine
  <2>4. ~Settled(fines[i].charge)
    BY <2>1, NoneAssumption DEF Settled
  <2> HIDE DEF new
  <2>5. QED
    BY <1>0, <2>1, <2>3, <2>4, FineChanged DEF Same
<1>6. CASE UNCHANGED vars
  BY <1>0, <1>6, NoFine DEF vars, Same
<1>7. ASSUME NEW p \in Requests, LoanStep(p), ~ReturnCommit(p) PROVE FinesInv'
  <2>1. UNCHANGED fines /\ \E step \in Steps \ {"waive", "patch"} : \E object : Fetched(p, step, object)
    BY <1>7 DEF LoanStep, FetchMember, IssueLock, IssueCommit, FetchLoan, ReturnLock, Renew, Done, Steps
  <2>2. QED
    BY <1>1, <2>1
<1>8. ASSUME NEW p \in Requests, HoldStep(p) \/ Abort(p) \/ CatalogueStep(p) PROVE FinesInv'
  <2>1. /\ UNCHANGED fines
        /\ \/ \E step \in Steps \ {"waive", "patch"} : \E object : Fetched(p, step, object)
           \/ UNCHANGED <<pc, seen>>
    BY <1>8 DEF HoldStep, Abort, CatalogueStep, CheckHold, PlaceHold, CancelHold, FetchBook, EditBook, Done, Steps
  <2>2. QED
    BY <1>0, <1>1, <2>1, NoFine DEF Same
<1>10. CASE NextDay \/ (\E m \in Members, n \in Limits : EditMember(m, n)) \/ (\E b \in Books : DeleteBook(b))
  BY <1>0, <1>10, NoFine DEF NextDay, EditMember, DeleteBook, Same
<1>11. QED
  BY <1>0, <1>2, <1>3, <1>4, <1>5, <1>6, <1>7, <1>8, <1>10, ReturnFine DEF Next, DeskNext, FineStep, Others
-----------------------------------------------------------------------------
\* Nothing is lent, returned or fined at first.
LEMMA InitFines == Init => FinesInv
<1>1. Init => fines \in Seq(Fine) /\ DOMAIN fines = {}
  <2>1. <<>> \in Seq(Fine) /\ DOMAIN <<>> = 1..0
    BY EmptySeq, LenProperties
  <2>2. QED
    BY <2>1 DEF Init
<1>2. QED
  BY <1>1 DEF Init, FinesInv, WaivedOwesNothing, WithFine

\* FineViewSet.perform_update, waive_fine: a waived fine is not owed at the fee
\* counter, though a PATCH writes back the waived flag it fetched earlier.
THEOREM WaivedIsNotOwed == Spec => []WaivedOwesNothing
<1> DEFINE I == Shape /\ FinesInv
<1>1. Init => I
  BY InitShape, InitFines
<1>2. I /\ [Next]_vars => I'
  BY NextShape, NextFines
<1>3. I => WaivedOwesNothing
  BY DEF FinesInv
<1> HIDE DEF I
<1>4. QED
  BY <1>1, <1>2, <1>3, PTL DEF Spec

-----------------------------------------------------------------------------
(***************************************************************************)
(* Holds.  A hold keeps its place; one looked up under the lock of its book*)
(* stays the first of those that still wait, whoever gives up or joins.    *)
(***************************************************************************)
FirstWaiting(i, b) ==
  /\ i \in DOMAIN holds /\ holds[i].book = b
  /\ \A j \in Waiting(b) : i <= j
HoldsInv ==
  /\ holds \in Seq(Hold)
  /\ \A q \in Requests :
       /\ pc[q] = "hold" => seen[q].book \in Books /\ seen[q].member \in Members
       /\ Returning(q) /\ seen[q].next # None => FirstWaiting(seen[q].next, seen[q].book)

\* The first waiting hold of a book, when there is one.
LEMMA OldestIsFirst ==
  ASSUME HoldsInv, NEW b
  PROVE  OldestWaiting(b) # None => FirstWaiting(OldestWaiting(b), b)
<1>1. SUFFICES ASSUME Waiting(b) # {} PROVE FirstWaiting(Min(Waiting(b)), b)
  BY DEF OldestWaiting
<1>2. DOMAIN holds = 1..Len(holds) /\ Len(holds) \in Nat
  BY LenProperties DEF HoldsInv
<1> DEFINE W == Waiting(b)
<1>3. W \subseteq Nat /\ W \subseteq DOMAIN holds
  BY <1>2 DEF Waiting
<1>4. IsFiniteSet(W)
  <2>1. IsFiniteSet(DOMAIN holds)
    BY <1>2, FS_Interval
  <2> HIDE DEF W
  <2>2. QED
    BY <1>3, <2>1, FS_Subset
<1>5. Min(W) \in W /\ \A y \in W : Min(W) <= y
  <2>1. W # {} /\ \A x \in W : x \in Int
    BY <1>1, <1>3
  <2> HIDE DEF W
  <2>2. QED
    BY <1>4, <2>1, LeastOf
<1>6. QED
  BY <1>3, <1>5 DEF FirstWaiting, Waiting

\* Holds that keep their book and do not begin to wait again, and new ones
\* behind them.
LEMMA HoldsKept ==
  ASSUME HoldsInv, holds' \in Seq(Hold),
         \A i \in DOMAIN holds : /\ i \in DOMAIN holds' /\ holds'[i].book = holds[i].book
                                 /\ holds'[i].status = "waiting" => holds[i].status = "waiting",
         \A q \in Requests : pc'[q] \in {"hold", "returning"} =>
           \/ Same(q)
           \/ /\ pc'[q] = "hold" => seen'[q].book \in Books /\ seen'[q].member \in Members
              /\ pc'[q] = "returning" /\ seen'[q].next # None => FirstWaiting(seen'[q].next, seen'[q].book)
  PROVE  HoldsInv'
<1>1. /\ DOMAIN holds = 1..Len(holds) /\ Len(holds) \in Nat
      /\ DOMAIN holds' = 1..Len(holds') /\ Len(holds') \in Nat
  BY LenProperties DEF HoldsInv
<1>3. ASSUME NEW q \in Requests, pc'[q] = "returning", seen'[q].next # None
      PROVE  FirstWaiting(seen'[q].next, seen'[q].book)
  BY <1>3 DEF HoldsInv, Same, Returning
<1>4. ASSUME NEW q \in Requests, pc'[q] = "returning", seen'[q].next # None
      PROVE  FirstWaiting(seen[q].next, seen[q].book)'
  <2> DEFINE i == seen'[q].next
             b == seen'[q].book
  <2>1. /\ i \in DOMAIN holds /\ holds[i].book = b
        /\ \A j \in DOMAIN holds : holds[j].book = b /\ holds[j].status = "waiting" => i <= j
    BY <1>3, <1>4 DEF FirstWaiting, Waiting
  <2> HIDE DEF i, b
  <2>2. ASSUME NEW j \in DOMAIN holds', holds'[j].book = b, holds'[j].status = "waiting"
        PROVE  i <= j
    <3>1. CASE j \in DOMAIN holds
      BY <2>1, <2>2, <3>1
    <3>2. CASE j \notin DOMAIN holds
      BY <1>1, <2>1, <3>2
    <3>3. QED
      BY <3>1, <3>2
  <2>3. i \in DOMAIN holds' /\ holds'[i].book = b
    BY <2>1
  <2>4. QED
    BY <2>2, <2>3 DEF FirstWaiting, Waiting, i, b
<1>5. ASSUME NEW q \in Requests, pc'[q] = "hold"
      PROVE  seen'[q].book \in Books /\ seen'[q].member \in Members
  BY <1>5 DEF HoldsInv, Same
<1>6. QED
  BY <1>4, <1>5 DEF HoldsInv, Returning

\* One hold gets another status.
LEMMA HoldChanged ==
  ASSUME HoldsInv, NEW i \in DOMAIN holds, NEW status \in {"ready", "cancelled"},
         holds' = [holds EXCEPT ![i].status = status]
  PROVE  /\ holds' \in Seq(Hold) /\ DOMAIN holds' = DOMAIN holds
         /\ \A j \in DOMAIN holds : /\ j \in DOMAIN holds' /\ holds'[j].book = holds[j].book
                                    /\ holds'[j].status = "waiting" => holds[j].status = "waiting"
                                    /\ j # i => holds'[j] = holds[j]
<1>0. DOMAIN holds = 1..Len(holds) /\ \A j \in DOMAIN holds : holds[j] \in Hold
  BY LenProperties, ElementOfSeq DEF HoldsInv
<1> DEFINE new == [holds[i] EXCEPT !.status = status]
<1>1. holds' = [holds EXCEPT ![i] = new]
  OBVIOUS
<1>2. new \in Hold /\ new.book = holds[i].book /\ new.status # "waiting"
  BY <1>0 DEF Hold
<1> HIDE DEF new
<1>3. /\ holds' \in Seq(Hold) /\ Len(holds') = Len(holds)
      /\ \A j \in 1..Len(holds) : holds'[j] = IF j = i THEN new ELSE holds[j]
  BY <1>0, <1>1, <1>2, ExceptSeq DEF HoldsInv
<1>4. DOMAIN holds' = DOMAIN holds
  BY <1>0, <1>3, LenProperties
<1>5. QED
  BY <1>0, <1>2, <1>3, <1>4

\* Every step leaves the hold that was looked up in front.
LEMMA NextHolds ==
  ASSUME Shape, HoldsInv, [Next]_vars
  PROVE  HoldsInv'
<1> DEFINE Keeps == \A i \in DOMAIN holds :
                      /\ i \in DOMAIN holds' /\ holds'[i].book = holds[i].book
                      /\ holds'[i].status = "waiting" => holds[i].status = "waiting"
<1>1. UNCHANGED holds => holds' \in Seq(Hold) /\ Keeps
  BY DEF HoldsInv
<1>2. ASSUME NEW p \in Requests, NEW step \in Steps \ {"hold", "returning"}, NEW object,
             Fetched(p, step, object), holds' \in Seq(Hold), Keeps
      PROVE  HoldsInv'
  <2>1. pc'[p] = step /\ \A q \in Requests \ {p} : Same(q)
    BY <1>2, OneMoves
  <2>2. \A q \in Requests : pc'[q] \in {"hold", "returning"} => Same(q)
    BY <2>1
  <2>3. QED
    BY <1>2, <2>2, HoldsKept
<1>3. ASSUME NEW p \in Requests, ReturnCommit(p) PROVE HoldsInv'
  <2>1. Fetched(p, "idle", None) /\ "idle" \in Steps \ {"hold", "returning"}
    BY <1>3 DEF ReturnCommit, Done, Steps
  <2>2. CASE UNCHANGED holds
    BY <1>1, <1>2, <2>1, <2>2
  <2>3. CASE seen[p].next # None /\ holds' = [holds EXCEPT ![seen[p].next].status = "ready"]
    <3>0. seen[p].next \in DOMAIN holds
      BY <1>3, <2>3 DEF ReturnCommit, HoldsInv, Returning, FirstWaiting
    <3>1. holds' \in Seq(Hold) /\ Keeps
      BY <2>3, <3>0, HoldChanged
    <3>2. QED
      BY <1>2, <2>1, <3>1
  <2>4. QED
    BY <1>3, <2>2, <2>3 DEF ReturnCommit
<1>4. ASSUME NEW p \in Requests, ReturnLock(p) PROVE HoldsInv'
  <2>1. UNCHANGED holds
    BY <1>4 DEF ReturnLock
  <2>2. CASE Done(p)
    BY <1>1, <1>2, <2>1, <2>2 DEF Done, Steps
  <2>3. ASSUME NEW object, Fetched(p, "returning", object), object.next = OldestWaiting(object.book)
        PROVE  HoldsInv'
    <3>1. pc'[p] = "returning" /\ seen'[p] = object /\ \A q \in Requests \ {p} : Same(q)
      BY <2>3, OneMoves DEF Steps
    <3>2. object.next # None => FirstWaiting(object.next, object.book)
      BY <2>3, OldestIsFirst
    <3>3. \A q \in Requests : pc'[q] \in {"hold", "returning"} =>
           \/ Same(q)
           \/ /\ pc'[q] = "hold" => seen'[q].book \in Books /\ seen'[q].member \in Members
              /\ pc'[q] = "returning" /\ seen'[q].next # None => FirstWaiting(seen'[q].next, seen'[q].book)
      BY <3>1, <3>2
    <3>4. QED
      BY <1>1, <2>1, <3>3, HoldsKept
  <2>4. QED
    BY <1>4, <2>2, <2>3 DEF ReturnLock
<1>5. ASSUME NEW p \in Requests, NEW b \in Books, NEW m \in Members, CheckHold(p, b, m) PROVE HoldsInv'
  <2> DEFINE object == [book |-> b, member |-> m]
  <2>1. Fetched(p, "hold", object) /\ "hold" \in Steps /\ UNCHANGED holds
    BY <1>5 DEF CheckHold, Steps
  <2>2. object.book \in Books /\ object.member \in Members
    OBVIOUS
  <2> HIDE DEF object
  <2>3. pc'[p] = "hold" /\ seen'[p] = object /\ \A q \in Requests \ {p} : Same(q)
    BY <2>1, OneMoves
  <2>4. QED
    BY <1>1, <2>1, <2>2, <2>3, HoldsKept
<1>6. ASSUME NEW p \in Requests, PlaceHold(p) PROVE HoldsInv'
  <2>1. Fetched(p, "idle", None) /\ "idle" \in Steps \ {"hold", "returning"}
    BY <1>6 DEF PlaceHold, Done, Steps
  <2>2. CASE UNCHANGED holds
    BY <1>1, <1>2, <2>1, <2>2
  <2>3. CASE holds' # holds
    <3> DEFINE new == [book |-> seen[p].book, member |-> seen[p].member, status |-> "waiting"]
    <3>1. holds' = Append(holds, new) /\ new \in Hold
      BY <1>6, <2>3 DEF PlaceHold, HoldsInv, Hold
    <3> HIDE DEF new
    <3>2. /\ holds' \in Seq(Hold) /\ Len(holds') = Len(holds) + 1
          /\ \A i \in 1..Len(holds) : holds'[i] = holds[i]
      BY <3>1, AppendProperties DEF HoldsInv
    <3>3. DOMAIN holds = 1..Len(holds) /\ DOMAIN holds' = 1..(Len(holds) + 1) /\ Len(holds) \in Nat
      BY <3>2, LenProperties DEF HoldsInv
    <3>4. Keeps
      BY <3>2, <3>3
    <3>5. QED
      BY <1>2, <2>1, <3>2, <3>4
  <2>4. QED
    BY <2>2, <2>3
<1>7. ASSUME NEW p \in Requests, NEW i \in DOMAIN holds, CancelHold(p, i) PROVE HoldsInv'
  <2>1. holds' \in Seq(Hold) /\ Keeps
    BY <1>7, HoldChanged DEF CancelHold
  <2>2. \A q \in Requests : Same(q)
    BY <1>7 DEF CancelHold, Same
  <2>3. QED
    BY <2>1, <2>2, HoldsKept
<1>8. ASSUME NEW p \in Requests, LoanStep(p), ~ReturnCommit(p), ~ReturnLock(p) PROVE HoldsInv'
  <2>1. UNCHANGED holds /\ \E step \in Steps \ {"hold", "returning"} : \E object : Fetched(p, step, object)
    BY <1>8 DEF LoanStep, FetchMember, IssueLock, IssueCommit, FetchLoan, Renew, Done, Steps
  <2>2. QED
    BY <1>1, <1>2, <2>1
<1>9. ASSUME NEW p \in Requests, FineStep(p) \/ Abort(p) \/ CatalogueStep(p) PROVE HoldsInv'
  <2>1. UNCHANGED holds /\ \E step \in Steps \ {"hold", "returning"} : \E object : Fetched(p, step, object)
    BY <1>9 DEF FineStep, Abort, CatalogueStep, FetchFine, WaiveFine, PatchFine, FetchBook, EditBook, Done, Steps
  <2>2. QED
    BY <1>1, <1>2, <2>1
<1>10. CASE Others \/ (\E b \in Books : DeleteBook(b)) \/ UNCHANGED vars
  <2>1. UNCHANGED <<holds, pc, seen>>
    BY <1>10 DEF Others, SettleCharge, EditMember, NextDay, DeleteBook, vars
  <2>2. QED
    BY <1>1, <2>1, HoldsKept DEF Same
<1>11. QED
  BY <1>3, <1>4, <1>5, <1>6, <1>7, <1>8, <1>9, <1>10 DEF Next, DeskNext, HoldStep
-----------------------------------------------------------------------------
\* Nobody waits for a book at first.
LEMMA InitHolds == Init => HoldsInv
<1>1. Init => holds \in Seq(Hold) /\ \A q \in Requests : pc[q] = "idle"
  BY EmptySeq DEF Init
<1>2. QED
  BY <1>1 DEF HoldsInv, Returning

\* A hold that goes ready is the one that was looked up.
LEMMA ReadyIsFirst ==
  ASSUME HoldsInv, [Next]_vars, NEW i \in DOMAIN holds, holds[i].status # "ready", holds'[i].status = "ready"
  PROVE  \A j \in Waiting(holds[i].book) : i <= j
<1>1. holds' # holds
  OBVIOUS
<1>2. ASSUME NEW p \in Requests, ReturnCommit(p) PROVE \A j \in Waiting(holds[i].book) : i <= j
  <2>1. seen[p].next # None /\ holds' = [holds EXCEPT ![seen[p].next].status = "ready"]
    BY <1>1, <1>2 DEF ReturnCommit
  <2>2. FirstWaiting(seen[p].next, seen[p].book)
    BY <1>2, <2>1 DEF ReturnCommit, HoldsInv, Returning
  <2>3. seen[p].next \in DOMAIN holds
    BY <2>2 DEF FirstWaiting
  <2>4. i = seen[p].next
    BY <2>1, <2>3, HoldChanged
  <2>5. QED
    BY <2>2, <2>4 DEF FirstWaiting
<1>3. ASSUME NEW p \in Requests, PlaceHold(p) PROVE FALSE
  <2> DEFINE new == [book |-> seen[p].book, member |-> seen[p].member, status |-> "waiting"]
  <2>1. holds' = Append(holds, new) /\ new \in Hold
    BY <1>1, <1>3 DEF PlaceHold, HoldsInv, Hold
  <2> HIDE DEF new
  <2>2. holds'[i] = holds[i]
    BY <2>1, AppendProperties, LenProperties DEF HoldsInv
  <2>3. QED
    BY <2>2
<1>4. ASSUME NEW p \in Requests, NEW j \in DOMAIN holds, CancelHold(p, j) PROVE FALSE
  <2>1. holds' = [holds EXCEPT ![j].status = "cancelled"]
    BY <1>4 DEF CancelHold
  <2>2. i = j
    BY <2>1, HoldChanged
  <2>3. holds'[i].status = "cancelled"
    <3>1. holds[i] \in Hold
      BY LenProperties, ElementOfSeq DEF HoldsInv
    <3>2. QED
      BY <2>1, <2>2, <3>1 DEF Hold
  <2>4. QED
    BY <2>3
<1>5. ASSUME NEW p \in Requests, LoanStep(p) \/ FineStep(p) \/ Abort(p) \/ CatalogueStep(p), ~ReturnCommit(p)
      PROVE  FALSE
  BY <1>1, <1>5 DEF LoanStep, FetchMember, IssueLock, IssueCommit, FetchLoan, ReturnLock, Renew, FineStep, FetchFine, WaiveFine,
    PatchFine, Abort, CatalogueStep, FetchBook, EditBook
<1>6. ASSUME NEW p \in Requests, NEW b \in Books, NEW m \in Members, CheckHold(p, b, m) PROVE FALSE
  BY <1>1, <1>6 DEF CheckHold
<1>7. Others \/ (\E b \in Books : DeleteBook(b)) \/ UNCHANGED vars => FALSE
  BY <1>1 DEF Others, SettleCharge, EditMember, NextDay, DeleteBook, vars
<1>8. QED
  BY <1>2, <1>3, <1>4, <1>5, <1>6, <1>7 DEF Next, DeskNext, HoldStep

\* return_book: the copy that comes back goes to whoever waits longest, though
\* holds are placed and given up while the book is being returned.
THEOREM NobodyJumpsTheQueue == Spec => OldestHoldFirst
<1> DEFINE I == Shape /\ HoldsInv
           Ready == \A i \in DOMAIN holds : holds[i].status # "ready" /\ holds'[i].status = "ready" =>
                      \A j \in Waiting(holds[i].book) : i <= j
<1>1. Init => I
  BY InitShape, InitHolds
<1>2. I /\ [Next]_vars => I'
  BY NextShape, NextHolds
<1>3. I /\ [Next]_vars => [Ready]_vars
  BY ReadyIsFirst
<1> HIDE DEF I, Ready
<1>4. Spec => [][Ready]_vars
  BY <1>1, <1>2, <1>3, PTL DEF Spec
<1>5. QED
  BY <1>4 DEF OldestHoldFirst, Ready

-----------------------------------------------------------------------------
(***************************************************************************)
(* The copies of a book, whatever is done to it: the CHECK constraints     *)
(* never fail at a desk, and a desk works from a number that it may write. *)
(***************************************************************************)
CopiesTyped ==
  /\ today \in 0..MaxDay
  /\ \A b \in Books : /\ book[b].total \in Copies /\ book[b].deleted \in BOOLEAN
                      /\ book[b].available \in 0..book[b].total
  /\ \A p \in Requests :
       /\ Issuing(p) => seen[p].available \in 1..book[seen[p].book].total
       /\ Returning(p) => seen[p].available \in Nat

\* A step after which the desks at work read what they read before, of books
\* that have as many copies as they had.
LEMMA CopiesTypeKept ==
  ASSUME Shape, CopiesTyped, today' \in 0..MaxDay,
         \A b \in Books : /\ book'[b].total \in Copies /\ book'[b].deleted \in BOOLEAN
                          /\ book'[b].available \in 0..book'[b].total,
         \A q \in Requests :
           \/ ~Issuing(q)' /\ ~Returning(q)'
           \/ Same(q) /\ book'[seen[q].book].total = book[seen[q].book].total
           \/ /\ Issuing(q)' => seen'[q].available \in 1..book'[seen'[q].book].total
              /\ Returning(q)' => seen'[q].available \in Nat
  PROVE  CopiesTyped'
<1>1. ASSUME NEW q \in Requests
      PROVE  /\ Issuing(q)' => seen'[q].available \in 1..book'[seen'[q].book].total
             /\ Returning(q)' => seen'[q].available \in Nat
  BY DEF CopiesTyped, Same, Issuing, Lending, Returning
<1>2. QED
  BY <1>1 DEF CopiesTyped

\* The book a desk works on is a book.
LEMMA BookAtWork ==
  ASSUME Shape, NEW q \in Requests, Issuing(q) \/ Returning(q)
  PROVE  seen[q].book \in Books
<1>1. CASE Issuing(q)
  BY <1>1 DEF Shape, Issuing, Lending
<1>2. CASE Returning(q)
  BY <1>2, LenProperties, ElementOfSeq DEF Shape, Returning, HasLoan, Loan
<1>3. QED
  BY <1>1, <1>2

\* One book gets other numbers, the same total and no worse.
LEMMA CopiesChanged ==
  ASSUME Shape, CopiesTyped, UNCHANGED today, NEW p \in Requests, Fetched(p, "idle", None),
         NEW b \in Books, NEW n \in 0..book[b].total, book' = [book EXCEPT ![b].available = n]
  PROVE  CopiesTyped'
<1>1. ~Issuing(p)' /\ ~Returning(p)' /\ \A q \in Requests \ {p} : Same(q)
  BY OneMoves DEF Steps, Issuing, Lending, Returning
<1>2. \A c \in Books : /\ book'[c].total = book[c].total /\ book'[c].deleted = book[c].deleted
                       /\ book'[c].available = IF c = b THEN n ELSE book[c].available
  BY DEF Shape, BookRow
<1>3. \A c \in Books : /\ book'[c].total \in Copies /\ book'[c].deleted \in BOOLEAN
                       /\ book'[c].available \in 0..book'[c].total
  BY <1>2 DEF CopiesTyped
<1>4. ASSUME NEW q \in Requests, Issuing(q)' \/ Returning(q)'
      PROVE  Same(q) /\ book'[seen[q].book].total = book[seen[q].book].total
  <2>1. Same(q)
    BY <1>1, <1>4
  <2>2. seen[q].book \in Books
    BY <1>4, <2>1, BookAtWork DEF Same, Issuing, Lending, Returning
  <2>3. QED
    BY <1>2, <2>1, <2>2
<1>5. today' \in 0..MaxDay
  BY DEF CopiesTyped
<1>6. QED
  BY <1>3, <1>4, <1>5, CopiesTypeKept

\* Every step keeps the numbers of copies within bounds ...
LEMMA NextCopiesTyped ==
  ASSUME Shape, CopiesTyped, [Next]_vars
  PROVE  CopiesTyped'
<1> DEFINE Kept == \A b \in Books : /\ book'[b].total \in Copies /\ book'[b].deleted \in BOOLEAN
                                    /\ book'[b].available \in 0..book'[b].total
<1>1. UNCHANGED book => Kept
  BY DEF CopiesTyped
<1>2. UNCHANGED today => today' \in 0..MaxDay
  BY DEF CopiesTyped
<1>3. ASSUME NEW p \in Requests, NEW step \in Steps \ {"issuing", "returning"}, NEW object,
             Fetched(p, step, object), UNCHANGED <<today, book>>
      PROVE  CopiesTyped'
  <2>1. pc'[p] = step /\ \A q \in Requests \ {p} : Same(q)
    BY <1>3, OneMoves
  <2>2. \A q \in Requests : (~Issuing(q)' /\ ~Returning(q)') \/ Same(q)
    BY <2>1 DEF Issuing, Lending, Returning
  <2>3. QED
    BY <1>1, <1>2, <1>3, <2>2, CopiesTypeKept
<1>15. ASSUME NEW p \in Requests, NEW b \in Books, NEW m \in Members, FetchMember(p, b, m) PROVE CopiesTyped'
  BY <1>3, <1>15 DEF FetchMember, Steps
<1>4. ASSUME NEW p \in Requests, IssueLock(p) PROVE CopiesTyped'
  <2> DEFINE b == seen[p].book
             object == [book |-> b, member |-> seen[p].member, available |-> book[b].available]
  <2>1. /\ Fetched(p, "issuing", object) /\ UNCHANGED <<today, book>> /\ book[b].available >= 1
        /\ b \in Books
    BY <1>4 DEF IssueLock, Shape, Lending
  <2>2. object.available \in 1..book[object.book].total
    BY <2>1, NumbersAssumption DEF CopiesTyped
  <2> HIDE DEF object
  <2>3. pc'[p] = "issuing" /\ seen'[p] = object /\ \A q \in Requests \ {p} : Same(q)
    BY <2>1, OneMoves DEF Steps
  <2>4. \A q \in Requests :
           \/ Same(q) /\ book'[seen[q].book].total = book[seen[q].book].total
           \/ /\ Issuing(q)' => seen'[q].available \in 1..book'[seen'[q].book].total
              /\ Returning(q)' => seen'[q].available \in Nat
    BY <2>1, <2>2, <2>3 DEF Issuing, Lending, Returning
  <2>5. QED
    BY <1>1, <1>2, <2>1, <2>4, CopiesTypeKept
<1>5. ASSUME NEW p \in Requests, ReturnLock(p) PROVE CopiesTyped'
  <2>1. UNCHANGED <<today, book>>
    BY <1>5 DEF ReturnLock
  <2>2. CASE Done(p)
    BY <1>3, <2>1, <2>2 DEF Done, Steps
  <2>3. ASSUME NEW object, Fetched(p, "returning", object), object.available = book[object.book].available,
               object.book \in Books
        PROVE  CopiesTyped'
    <3>1. pc'[p] = "returning" /\ seen'[p] = object /\ \A q \in Requests \ {p} : Same(q)
      BY <2>3, OneMoves DEF Steps
    <3>2. object.available \in Nat
      BY <2>3, NumbersAssumption DEF CopiesTyped
    <3>3. \A q \in Requests :
           \/ Same(q) /\ book'[seen[q].book].total = book[seen[q].book].total
           \/ /\ Issuing(q)' => seen'[q].available \in 1..book'[seen'[q].book].total
              /\ Returning(q)' => seen'[q].available \in Nat
      BY <2>1, <3>1, <3>2 DEF Issuing, Lending, Returning
    <3>4. QED
      BY <1>1, <1>2, <2>1, <3>3, CopiesTypeKept
  <2>4. seen[p].row.book \in Books
    BY <1>5 DEF ReturnLock, Shape, HasLoan, Loan
  <2>5. QED
    BY <1>5, <2>2, <2>3, <2>4 DEF ReturnLock
<1>6. ASSUME NEW p \in Requests, IssueCommit(p) PROVE CopiesTyped'
  <2> DEFINE b == seen[p].book
             n == seen[p].available - 1
  <2>1. Issuing(p) /\ UNCHANGED today /\ Fetched(p, "idle", None) /\ book' = [book EXCEPT ![b].available = n]
    BY <1>6 DEF IssueCommit, Issuing, Lending, Done
  <2>2. b \in Books
    BY <2>1, BookAtWork
  <2>3. n \in 0..book[b].total
    BY <2>1, <2>2, NumbersAssumption DEF CopiesTyped
  <2> HIDE DEF b, n
  <2>4. QED
    BY <2>1, <2>2, <2>3, CopiesChanged
<1>7. ASSUME NEW p \in Requests, ReturnCommit(p) PROVE CopiesTyped'
  <2> DEFINE b == seen[p].book
             n == Freed(seen[p].available, book[b].total)
  <2>1. Returning(p) /\ UNCHANGED today /\ Fetched(p, "idle", None) /\ book' = [book EXCEPT ![b].available = n]
    BY <1>7 DEF ReturnCommit, Returning, Done
  <2>2. b \in Books /\ seen[p].available \in Nat
    BY <2>1, BookAtWork DEF CopiesTyped
  <2>3. book[b].total \in Nat
    BY <2>2, NumbersAssumption DEF CopiesTyped
  <2>4. n \in 0..book[b].total
    <3> DEFINE x == seen[p].available + 1
               y == book[b].total
    <3>1. x \in Nat /\ y \in Nat /\ n = Min({x, y})
      BY <2>2, <2>3 DEF Freed
    <3> HIDE DEF x, y, n
    <3>2. \E z \in {x, y} : \A w \in {x, y} : z <= w
      BY <3>1
    <3>3. n \in {x, y} /\ n <= y
      BY <3>1, <3>2 DEF Min
    <3>4. QED
      BY <3>1, <3>3 DEF y
  <2> HIDE DEF b, n
  <2>5. QED
    BY <2>1, <2>2, <2>4, CopiesChanged
<1>8. ASSUME NEW p \in Requests, NEW total \in Copies, EditBook(p, total) PROVE CopiesTyped'
  <2>1. pc[p] = "edit" /\ BookFree(p, seen[p].book) /\ Fetched(p, "idle", None) /\ UNCHANGED today
    BY <1>8 DEF EditBook, Done
  <2>2. CASE UNCHANGED book
    BY <1>3, <2>1, <2>2 DEF Steps
  <2>3. CASE book' # book
    <3> DEFINE new == [total |-> total, available |-> Shifted(seen[p].row, total), deleted |-> FALSE]
    <3>1. book' = [book EXCEPT ![seen[p].book] = new] /\ Shifted(seen[p].row, total) \in 0..total
      BY <1>8, <2>3 DEF EditBook
    <3>2. new.total \in Copies /\ new.deleted \in BOOLEAN /\ new.available \in 0..new.total
      BY <3>1
    <3> HIDE DEF new
    <3>3. Kept
      BY <3>1, <3>2 DEF CopiesTyped, Shape
    <3>4. ~Issuing(p)' /\ ~Returning(p)' /\ \A q \in Requests \ {p} : Same(q)
      BY <2>1, OneMoves DEF Steps, Issuing, Lending, Returning
    <3>5. ASSUME NEW q \in Requests, Issuing(q)' \/ Returning(q)'
          PROVE  Same(q) /\ book'[seen[q].book].total = book[seen[q].book].total
      <4>1. q # p /\ Same(q)
        BY <3>4, <3>5
      <4>2. Issuing(q) \/ Returning(q)
        BY <3>5, <4>1 DEF Same, Issuing, Lending, Returning
      <4>3. seen[q].book # seen[p].book
        BY <2>1, <4>1, <4>2 DEF BookFree, Issuing, Lending, Returning
      <4>4. seen[q].book \in Books
        BY <4>2, BookAtWork
      <4>5. QED
        BY <3>1, <4>1, <4>3, <4>4 DEF Shape
    <3>6. QED
      BY <1>2, <2>1, <3>3, <3>5, CopiesTypeKept
  <2>4. QED
    BY <2>2, <2>3
<1>9. ASSUME NEW b \in Books, DeleteBook(b) PROVE CopiesTyped'
  <2>1. book' = [book EXCEPT ![b].deleted = TRUE] /\ UNCHANGED <<today, pc, seen>>
    BY <1>9 DEF DeleteBook
  <2>2. \A c \in Books : /\ book'[c].total = book[c].total /\ book'[c].available = book[c].available
                         /\ book'[c].deleted = IF c = b THEN TRUE ELSE book[c].deleted
    BY <2>1 DEF Shape, BookRow
  <2>3. Kept
    BY <2>2 DEF CopiesTyped
  <2>4. \A q \in Requests : Same(q) /\ (Issuing(q)' \/ Returning(q)' => Issuing(q) \/ Returning(q))
    BY <2>1 DEF Same, Issuing, Lending, Returning
  <2>5. \A q \in Requests : (~Issuing(q)' /\ ~Returning(q)')
                            \/ (Same(q) /\ book'[seen[q].book].total = book[seen[q].book].total)
    BY <2>2, <2>4, BookAtWork
  <2>6. QED
    BY <1>2, <2>1, <2>3, <2>5, CopiesTypeKept
<1>10. CASE NextDay
  <2>1. today' \in 0..MaxDay /\ UNCHANGED <<book, pc, seen>>
    BY <1>10, NumbersAssumption DEF NextDay, CopiesTyped
  <2>2. QED
    BY <1>1, <2>1, CopiesTypeKept DEF Same
<1>11. ASSUME NEW p \in Requests,
              FineStep(p) \/ Abort(p) \/ (\E b \in Books : FetchBook(p, b))
              \/ (\E i \in DOMAIN loans, step \in {"return", "renew"} : FetchLoan(p, step, i)) \/ Renew(p)
       PROVE  CopiesTyped'
  <2>1. /\ UNCHANGED <<today, book>>
        /\ \E step \in Steps \ {"issuing", "returning"} : \E object : Fetched(p, step, object)
    BY <1>11 DEF FineStep, FetchFine, WaiveFine, PatchFine, Abort, FetchBook, FetchLoan, Renew, Done, Steps
  <2>2. QED
    BY <1>3, <2>1
<1>12. ASSUME NEW p \in Requests, HoldStep(p) PROVE CopiesTyped'
  <2>1. /\ UNCHANGED <<today, book>>
        /\ \/ \E step \in Steps \ {"issuing", "returning"} : \E object : Fetched(p, step, object)
           \/ UNCHANGED <<pc, seen>>
    BY <1>12 DEF HoldStep, CheckHold, PlaceHold, CancelHold, Done, Steps
  <2>2. QED
    BY <1>1, <1>2, <1>3, <2>1, CopiesTypeKept DEF Same
<1>13. ASSUME \/ \E i \in DOMAIN fines : SettleCharge(i)
              \/ \E m \in Members, n \in Limits : EditMember(m, n)
              \/ UNCHANGED vars
       PROVE  CopiesTyped'
  <2>1. UNCHANGED <<today, book, pc, seen>>
    BY <1>13 DEF SettleCharge, EditMember, vars
  <2>2. QED
    BY <1>1, <1>2, <2>1, CopiesTypeKept DEF Same
<1>14. QED
  BY <1>4, <1>5, <1>6, <1>7, <1>8, <1>9, <1>10, <1>11, <1>12, <1>13, <1>15
     DEF Next, DeskNext, LoanStep, CatalogueStep, Others

\* ... in which they are at first.
LEMMA InitCopiesTyped == Init => CopiesTyped
<1> SUFFICES ASSUME Init PROVE CopiesTyped
  OBVIOUS
<1>1. today \in 0..MaxDay
  BY NumbersAssumption DEF Init
<1>2. ASSUME NEW b \in Books
      PROVE  /\ book[b].total \in Copies /\ book[b].deleted \in BOOLEAN
             /\ book[b].available \in 0..book[b].total
  <2>1. PICK n \in Copies \ {0} : book[b] = [total |-> n, available |-> n, deleted |-> FALSE]
    BY DEF Init
  <2>2. QED
    BY <2>1, NumbersAssumption
<1>3. \A p \in Requests : ~Issuing(p) /\ ~Returning(p)
  BY DEF Init, Issuing, Lending, Returning
<1>4. QED
  BY <1>1, <1>2, <1>3 DEF CopiesTyped

\* The tables of the library keep their declared shapes and pass the CHECK
\* constraints of their models, whoever lends, takes back, waives and edits.
THEOREM RowsWellFormed == Spec => []TypeOK
<1> DEFINE I == Shape /\ FinesInv /\ HoldsInv /\ CopiesTyped /\ LimitsTyped
<1>1. Init => I
  BY InitShape, InitFines, InitHolds, InitCopiesTyped DEF Init, LimitsTyped
<1>2. I /\ [Next]_vars => I'
  BY NextShape, NextFines, NextHolds, NextCopiesTyped, NextLimitsTyped
<1>3. I => TypeOK
  <2> SUFFICES ASSUME I PROVE TypeOK
    OBVIOUS
  <2>1. \A i \in DOMAIN loans : loans[i] \in Loan
    BY LenProperties, ElementOfSeq DEF Shape
  <2>2. \A i \in DOMAIN fines : fines[i] \in Fine /\ fines[i].loan \in DOMAIN loans
    BY LenProperties, ElementOfSeq DEF FinesInv
  <2>3. \A i \in DOMAIN holds : holds[i] \in Hold
    BY LenProperties, ElementOfSeq DEF HoldsInv
  <2>4. QED
    BY <2>1, <2>2, <2>3 DEF TypeOK, CopiesTyped, LimitsTyped, Shape
<1> HIDE DEF I
<1>4. QED
  BY <1>1, <1>2, <1>3, PTL DEF Spec
-----------------------------------------------------------------------------
(***************************************************************************)
(* One desk that takes back and renews finds the loan as it fetched it, so *)
(* it closes a loan once and counts the days it was late from its due date.*)
(***************************************************************************)
AsFetched ==
  \A p \in Requests : HasLoan(p) =>
    /\ seen[p].row = loans[seen[p].loan]
    /\ Returning(p) => Open(seen[p].loan)
FinedInv == Shape /\ AtTheDesks /\ FinesInv /\ AsFetched /\ FinedWhenOverdue

\* A loan settled by the fines there are.
Fined(i) ==
  IF ~Open(i) /\ loans[i].returned > loans[i].due
    THEN \E f \in DOMAIN fines : /\ fines[f].loan = i /\ fines[f].amount = loans[i].returned - loans[i].due
                                 /\ \A g \in DOMAIN fines : fines[g].loan = i => g = f
    ELSE \A f \in DOMAIN fines : fines[f].loan # i

AllFined == \A i \in DOMAIN loans : Fined(i)

\* FinedWhenOverdue, one loan at a time.
LEMMA FinedOneByOne == FinedWhenOverdue <=> AllFined
<1>1. ASSUME NEW i \in DOMAIN loans
      PROVE  Fined(i) <=> IF ~Open(i) /\ loans[i].returned > loans[i].due
                            THEN \E f \in FinesFor(i) : /\ FinesFor(i) = {f}
                                                        /\ fines[f].amount = loans[i].returned - loans[i].due
                            ELSE FinesFor(i) = {}
  <2>1. FinesFor(i) = {} <=> \A f \in DOMAIN fines : fines[f].loan # i
    BY DEF FinesFor
  <2>2. ASSUME NEW f
        PROVE  f \in FinesFor(i) /\ FinesFor(i) = {f} <=>
                 f \in DOMAIN fines /\ fines[f].loan = i /\ \A g \in DOMAIN fines : fines[g].loan = i => g = f
    BY DEF FinesFor
  <2>3. QED
    BY <2>1, <2>2 DEF Fined
<1>2. QED
  BY <1>1 DEF FinedWhenOverdue, AllFined

\* Fines that keep their loan and amount, and loans that stay as they are.
LEMMA FinedKept ==
  ASSUME FinesInv, NEW i \in DOMAIN loans, Fined(i), loans'[i] = loans[i],
         \A f \in DOMAIN fines : /\ f \in DOMAIN fines' /\ fines'[f].loan = fines[f].loan
                                 /\ fines'[f].amount = fines[f].amount,
         \A f \in DOMAIN fines' \ DOMAIN fines : fines'[f].loan # i
  PROVE  Fined(i)'
<1>1. Open(i)' <=> Open(i)
  BY DEF Open
<1>2. CASE ~Open(i) /\ loans[i].returned > loans[i].due
  <2>1. PICK f \in DOMAIN fines : /\ fines[f].loan = i /\ fines[f].amount = loans[i].returned - loans[i].due
                                  /\ \A g \in DOMAIN fines : fines[g].loan = i => g = f
    BY <1>2 DEF Fined
  <2>2. /\ f \in DOMAIN fines' /\ fines'[f].loan = i /\ fines'[f].amount = loans'[i].returned - loans'[i].due
        /\ \A g \in DOMAIN fines' : fines'[g].loan = i => g = f
    BY <2>1
  <2>3. QED
    BY <1>1, <1>2, <2>2 DEF Fined
<1>3. CASE ~(~Open(i) /\ loans[i].returned > loans[i].due)
  <2>1. \A f \in DOMAIN fines : fines[f].loan # i
    BY <1>3 DEF Fined
  <2>2. \A f \in DOMAIN fines' : fines'[f].loan # i
    BY <2>1
  <2>3. QED
    BY <1>1, <1>3, <2>2 DEF Fined
<1>4. QED
  BY <1>2, <1>3

\* What is done about fines changes neither the loan nor the amount of any.
LEMMA AmountsStay ==
  ASSUME Shape, FinesInv, [Next]_vars, ~\E p \in Requests : ReturnCommit(p)
  PROVE  /\ DOMAIN fines' = DOMAIN fines
         /\ \A f \in DOMAIN fines : fines'[f].loan = fines[f].loan /\ fines'[f].amount = fines[f].amount
<1> DEFINE Stay == /\ DOMAIN fines' = DOMAIN fines
                   /\ \A f \in DOMAIN fines : fines'[f].loan = fines[f].loan /\ fines'[f].amount = fines[f].amount
<1>1. \A i \in DOMAIN fines : fines[i] \in Fine
  BY LenProperties, ElementOfSeq DEF FinesInv
<1>2. ASSUME NEW i \in DOMAIN fines, NEW new, fines' = [fines EXCEPT ![i] = new],
             new.loan = fines[i].loan, new.amount = fines[i].amount
      PROVE  Stay
  BY <1>2
<1>3. ASSUME NEW p \in Requests, WaiveFine(p) PROVE Stay
  <2> DEFINE i == seen[p].fine
             new == [fines[i] EXCEPT !.waived = TRUE,
                                     !.charge = IF fines[i].charge = None THEN None ELSE "cancelled"]
  <2>1. i \in DOMAIN fines
    BY <1>3 DEF WaiveFine, FinesInv, WithFine
  <2>2. CASE UNCHANGED fines
    BY <2>2
  <2>3. CASE fines' = Waived(i)
    <3>1. fines' = [fines EXCEPT ![i] = new]
      BY <2>1, <2>3 DEF Waived
    <3>2. fines[i] \in Fine
      BY <1>1, <2>1
    <3>3. new.loan = fines[i].loan /\ new.amount = fines[i].amount
      BY <3>2 DEF Fine
    <3> HIDE DEF new
    <3>4. QED
      BY <1>2, <2>1, <3>1, <3>3
  <2>4. QED
    BY <1>3, <2>2, <2>3 DEF WaiveFine
<1>4. ASSUME NEW p \in Requests, NEW paid \in BOOLEAN, PatchFine(p, paid) PROVE Stay
  <2> DEFINE i == seen[p].fine
             new == [fines[i] EXCEPT !.paid = paid, !.waived = seen[p].row.waived]
  <2>1. i \in DOMAIN fines
    BY <1>4 DEF PatchFine, FinesInv, WithFine
  <2>2. CASE UNCHANGED fines
    BY <2>2
  <2>3. CASE fines' # fines
    <3>1. fines' = [fines EXCEPT ![i] = new]
      BY <1>4, <2>1, <2>3 DEF PatchFine
    <3>2. fines[i] \in Fine
      BY <1>1, <2>1
    <3>3. new.loan = fines[i].loan /\ new.amount = fines[i].amount
      BY <3>2 DEF Fine
    <3> HIDE DEF new
    <3>4. QED
      BY <1>2, <2>1, <3>1, <3>3
  <2>4. QED
    BY <2>2, <2>3
<1>5. ASSUME NEW i \in DOMAIN fines, SettleCharge(i) PROVE Stay
  <2> DEFINE new == [fines[i] EXCEPT !.charge = "paid"]
  <2>1. fines' = [fines EXCEPT ![i] = new]
    BY <1>5 DEF SettleCharge
  <2>2. new.loan = fines[i].loan /\ new.amount = fines[i].amount
    BY <1>1 DEF Fine
  <2> HIDE DEF new
  <2>3. QED
    BY <1>2, <2>1, <2>2
<1>6. CASE UNCHANGED fines
  BY <1>6
<1>7. ASSUME NEW p \in Requests, LoanStep(p) \/ HoldStep(p) \/ Abort(p) \/ CatalogueStep(p) PROVE UNCHANGED fines
  BY <1>7 DEF LoanStep, FetchMember, IssueLock, IssueCommit, FetchLoan, ReturnLock, Renew, HoldStep, Abort, CatalogueStep,
    CheckHold, PlaceHold, CancelHold, FetchBook, EditBook
<1>8. ASSUME NEW p \in Requests, NEW i, NEW step, FetchFine(p, step, i) PROVE UNCHANGED fines
  BY <1>8 DEF FetchFine
<1>9. NextDay \/ (\E m \in Members, n \in Limits : EditMember(m, n)) \/ (\E b \in Books : DeleteBook(b))
        \/ UNCHANGED vars => UNCHANGED fines
  BY DEF NextDay, EditMember, DeleteBook, vars
<1>10. QED
  BY <1>3, <1>4, <1>5, <1>6, <1>7, <1>8, <1>9 DEF Next, DeskNext, FineStep, Others

-----------------------------------------------------------------------------
\* A loan that stays open or is new owes nothing.
LEMMA OpenOwesNothing ==
  ASSUME FinesInv, NEW i, loans'[i].returned = None, UNCHANGED fines,
         i \notin DOMAIN loans \/ (Open(i) /\ Fined(i))
  PROVE  Fined(i)'
<1>1. \A f \in DOMAIN fines : fines[f].loan # i
  BY DEF FinesInv, Fined
<1>2. QED
  BY <1>1 DEF Fined, Open

\* A request that moves without touching loans or their fines.
LEMMA QuietForFined ==
  ASSUME FinedInv, Shape', FinesInv', UNCHANGED loans,
         /\ DOMAIN fines' = DOMAIN fines
         /\ \A f \in DOMAIN fines : fines'[f].loan = fines[f].loan /\ fines'[f].amount = fines[f].amount,
         \A q \in Requests :
           \/ ~Lending(q)' /\ ~HasLoan(q)'
           \/ Same(q)
           \/ /\ Lending(q)' => q \in IssueDesks
              /\ HasLoan(q)' => /\ q \in ReturnDesks /\ seen'[q].row = loans[seen'[q].loan]
                                /\ Returning(q)' => loans[seen'[q].loan].returned = None
  PROVE  FinedInv'
<1>1. AtTheDesks'
  BY DEF FinedInv, AtTheDesks, Same, Issuing, Lending, HasLoan
<1>2. AsFetched'
  <2>1. ASSUME NEW q \in Requests, HasLoan(q)'
        PROVE  /\ seen'[q].row = loans'[seen'[q].loan]
               /\ Returning(q)' => loans'[seen'[q].loan].returned = None
    BY <2>1 DEF FinedInv, AsFetched, Same, HasLoan, Returning, Open
  <2>2. QED
    BY <2>1 DEF AsFetched, Open
<1>3. \A i \in DOMAIN loans : Fined(i)'
  BY FinedKept, FinedOneByOne DEF FinedInv, AllFined
<1>4. FinedWhenOverdue'
  <2>1. FinedWhenOverdue' <=> AllFined'
    BY FinedOneByOne, PTL
  <2>2. QED
    BY <1>3, <2>1 DEF AllFined
<1>5. QED
  BY <1>1, <1>2, <1>4 DEF FinedInv

\* A copy that is lent is a new loan, of which nothing is owed.
LEMMA LendingFined ==
  ASSUME FinedInv, Shape', FinesInv', NEW p \in Requests, IssueCommit(p)
  PROVE  FinedInv'
<1>1. /\ \A i \in DOMAIN loans : i \in DOMAIN loans' /\ loans'[i] = loans[i]
      /\ DOMAIN loans' = (DOMAIN loans) \cup {Len(loans) + 1}
      /\ Len(loans) + 1 \notin DOMAIN loans
      /\ loans'[Len(loans) + 1].returned = None
  BY LentOne DEF FinedInv
<1>2. UNCHANGED fines /\ Fetched(p, "idle", None)
  BY DEF IssueCommit, Done
<1>3. ~Lending(p)' /\ ~HasLoan(p)' /\ \A q \in Requests \ {p} : Same(q)
  BY <1>2, OneMoves DEF FinedInv, Steps, Issuing, Lending, HasLoan
<1>4. AtTheDesks'
  BY <1>3 DEF FinedInv, AtTheDesks, Same, Issuing, Lending, HasLoan
<1>5. AsFetched'
  <2>1. ASSUME NEW q \in Requests, HasLoan(q)'
        PROVE  /\ seen'[q].row = loans'[seen'[q].loan]
               /\ Returning(q)' => loans'[seen'[q].loan].returned = None
    <3>1. Same(q) /\ HasLoan(q)
      BY <1>3, <2>1 DEF Same, HasLoan
    <3>2. seen[q].loan \in DOMAIN loans
      BY <3>1 DEF FinedInv, Shape
    <3>3. QED
      BY <1>1, <3>1, <3>2 DEF FinedInv, AsFetched, Same, Returning, Open
  <2>2. QED
    BY <2>1 DEF AsFetched, Open
<1>6. ASSUME NEW i \in DOMAIN loans' PROVE Fined(i)'
  <2>1. CASE i \in DOMAIN loans
    <3>1. Fined(i) /\ loans'[i] = loans[i] /\ FinesInv
      BY <1>1, <2>1, FinedOneByOne DEF FinedInv, AllFined
    <3>2. QED
      BY <1>2, <2>1, <3>1, FinedKept
  <2>2. CASE i \notin DOMAIN loans
    BY <1>1, <1>2, <2>2, OpenOwesNothing DEF FinedInv
  <2>3. QED
    BY <2>1, <2>2
<1>7. FinedWhenOverdue'
  <2>1. FinedWhenOverdue' <=> AllFined'
    BY FinedOneByOne, PTL
  <2>2. QED
    BY <1>6, <2>1 DEF AllFined
<1>8. QED
  BY <1>4, <1>5, <1>7 DEF FinedInv

\* The one desk that takes back ends; nobody else has a loan in hand.
LEMMA DeskIsDone ==
  ASSUME OneReturnDesk, FinedInv, NEW p \in Requests, HasLoan(p), Fetched(p, "idle", None)
  PROVE  /\ AtTheDesks' /\ AsFetched'
         /\ seen[p].loan \in DOMAIN loans /\ seen[p].row \in Loan
         /\ seen[p].row = loans[seen[p].loan]
<1>1. pc'[p] = "idle" /\ \A q \in Requests \ {p} : Same(q)
  BY OneMoves DEF FinedInv, Steps
<1>2. \A q \in Requests : ~HasLoan(q)'
  BY <1>1 DEF FinedInv, AtTheDesks, OneReturnDesk, Same, HasLoan
<1>3. \A q \in Requests : Lending(q)' => q \in IssueDesks
  BY <1>1 DEF FinedInv, AtTheDesks, Same, Issuing, Lending
<1>4. AtTheDesks'
  BY <1>2, <1>3 DEF AtTheDesks
<1>5. AsFetched'
  BY <1>2 DEF AsFetched
<1>6. QED
  BY <1>4, <1>5 DEF FinedInv, Shape, AsFetched

\* Renewing moves the due date of an open loan, of which nothing is owed.
LEMMA RenewingFined ==
  ASSUME OneReturnDesk, FinedInv, Shape', FinesInv', NEW p \in Requests, Renew(p)
  PROVE  FinedInv'
<1> DEFINE l == seen[p].loan
<1>1. HasLoan(p) /\ Fetched(p, "idle", None) /\ UNCHANGED fines
  BY DEF Renew, Done, HasLoan
<1>2. AtTheDesks' /\ AsFetched' /\ l \in DOMAIN loans /\ seen[p].row = loans[l]
  BY <1>1, DeskIsDone
<1>3. /\ DOMAIN loans' = DOMAIN loans
      /\ \A i \in DOMAIN loans : loans'[i].returned = loans[i].returned
  BY RenewedOne DEF FinedInv
<1>4. loans' = loans \/ Open(l)
  BY <1>2 DEF Renew, Closed, Open
<1>5. \A i \in (DOMAIN loans) \ {l} : loans'[i] = loans[i]
  BY DEF Renew
<1>6. ASSUME NEW i \in DOMAIN loans' PROVE Fined(i)'
  <2>1. Fined(i) /\ FinesInv /\ i \in DOMAIN loans
    BY <1>3, FinedOneByOne DEF FinedInv, AllFined
  <2>2. CASE loans'[i] = loans[i]
    BY <1>1, <2>1, <2>2, FinedKept
  <2>3. CASE loans'[i] # loans[i]
    <3>1. Open(i) /\ loans'[i].returned = None
      BY <1>3, <1>4, <1>5, <2>1, <2>3 DEF Open
    <3>2. QED
      BY <1>1, <2>1, <3>1, OpenOwesNothing
  <2>4. QED
    BY <2>2, <2>3
<1>7. FinedWhenOverdue'
  <2>1. FinedWhenOverdue' <=> AllFined'
    BY FinedOneByOne, PTL
  <2>2. QED
    BY <1>6, <2>1 DEF AllFined
<1>8. QED
  BY <1>2, <1>7 DEF FinedInv

\* Taking back fines the loan when it is late, and no other one.
LEMMA ReturningFined ==
  ASSUME OneReturnDesk, FinedInv, Shape', FinesInv', NEW p \in Requests, ReturnCommit(p)
  PROVE  FinedInv'
<1> DEFINE l == seen[p].loan
           new == NewFine(l, seen[p].row)
<1>1. HasLoan(p) /\ Returning(p) /\ Fetched(p, "idle", None)
  BY DEF ReturnCommit, Done, HasLoan, Returning
<1>2. AtTheDesks' /\ AsFetched' /\ l \in DOMAIN loans /\ seen[p].row \in Loan /\ seen[p].row = loans[l]
  BY <1>1, DeskIsDone
<1>3. Open(l) /\ Fined(l)
  BY <1>1, <1>2, FinedOneByOne DEF FinedInv, AsFetched, AllFined
<1>4. \A f \in DOMAIN fines : fines[f].loan # l
  BY <1>3 DEF Fined
<1>5. /\ DOMAIN loans' = DOMAIN loans
      /\ \A i \in (DOMAIN loans) \ {l} : loans'[i] = loans[i]
      /\ loans'[l].returned = today /\ today \in Nat
  BY ReturnedOne DEF FinedInv, Shape
<1>6. loans'[l].due = loans[l].due /\ loans[l].due \in Nat
  <2>1. loans' = [loans EXCEPT ![l].returned = today]
    BY DEF ReturnCommit
  <2>2. loans[l] \in Loan
    BY <1>2
  <2>3. QED
    BY <1>2, <2>1, <2>2 DEF Loan
<1>7. DaysOverdue(seen[p].row) = today - loans[l].due
  BY <1>2 DEF DaysOverdue
<1>8. loans'[l].returned # None
  BY <1>5, NoneAssumption
<1>9. CASE DaysOverdue(seen[p].row) > 0
  <2>1. fines' = Append(fines, new) /\ new.loan = l /\ new.amount = today - loans[l].due
    BY <1>7, <1>9 DEF ReturnCommit, NewFine
  <2> HIDE DEF new
  <2>2. Len(fines') = Len(fines) + 1 /\ DOMAIN fines' = 1..Len(fines') /\ DOMAIN fines = 1..Len(fines)
        /\ Len(fines) \in Nat
    <3>1. fines \in Seq(Fine) /\ fines' \in Seq(Fine)
      BY DEF FinedInv, FinesInv
    <3>2. Len(fines') = Len(fines) + 1
      BY <2>1, <3>1
    <3>3. QED
      BY <3>1, <3>2, LenProperties
  <2>3. /\ \A f \in DOMAIN fines : f \in DOMAIN fines' /\ fines'[f] = fines[f]
        /\ fines'[Len(fines) + 1] = new
    <3>1. fines \in Seq(Fine)
      BY DEF FinedInv, FinesInv
    <3>2. QED
      BY <2>1, <2>2, <3>1
  <2>4. \A f \in DOMAIN fines' \ DOMAIN fines : f = Len(fines) + 1
    BY <2>2
  <2>5. ASSUME NEW i \in DOMAIN loans' PROVE Fined(i)'
    <3>1. CASE i = l
      <4>1. Len(fines) + 1 \in DOMAIN fines'
        BY <2>2
      <4>2. \A g \in DOMAIN fines' : fines'[g].loan = l => g = Len(fines) + 1
        BY <1>4, <2>3, <2>4
      <4>3. loans'[l].returned > loans'[l].due
        BY <1>5, <1>6, <1>7, <1>9
      <4>4. fines'[Len(fines) + 1].loan = l /\ fines'[Len(fines) + 1].amount = loans'[l].returned - loans'[l].due
        BY <1>5, <1>6, <2>1, <2>3
      <4>5. QED
        BY <1>8, <3>1, <4>1, <4>2, <4>3, <4>4 DEF Fined, Open
    <3>2. CASE i # l
      <4>1. Fined(i) /\ FinesInv /\ i \in DOMAIN loans /\ loans'[i] = loans[i]
        BY <1>5, <3>2, FinedOneByOne DEF FinedInv, AllFined
      <4>2. \A f \in DOMAIN fines' \ DOMAIN fines : fines'[f].loan # i
        BY <2>1, <2>3, <2>4, <3>2
      <4>3. QED
        BY <2>3, <4>1, <4>2, FinedKept
    <3>3. QED
      BY <3>1, <3>2
  <2>6. FinedWhenOverdue' <=> AllFined'
    BY FinedOneByOne, PTL
  <2>7. QED
    BY <1>2, <2>5, <2>6 DEF AllFined, FinedInv
<1>10. CASE ~(DaysOverdue(seen[p].row) > 0)
  <2>1. UNCHANGED fines
    BY <1>10 DEF ReturnCommit
  <2>2. ASSUME NEW i \in DOMAIN loans' PROVE Fined(i)'
    <3>1. CASE i = l
      <4>1. ~(loans'[l].returned > loans'[l].due)
        BY <1>5, <1>6, <1>7, <1>10
      <4>2. QED
        BY <1>4, <2>1, <3>1, <4>1 DEF Fined
    <3>2. CASE i # l
      <4>1. Fined(i) /\ FinesInv /\ i \in DOMAIN loans /\ loans'[i] = loans[i]
        BY <1>5, <3>2, FinedOneByOne DEF FinedInv, AllFined
      <4>2. QED
        BY <2>1, <4>1, FinedKept
    <3>3. QED
      BY <3>1, <3>2
  <2>3. FinedWhenOverdue' <=> AllFined'
    BY FinedOneByOne, PTL
  <2>4. QED
    BY <1>2, <2>2, <2>3 DEF AllFined, FinedInv
<1>11. QED
  BY <1>9, <1>10

\* Every step leaves each loan fined once, or not, as it should be.
LEMMA NextFined ==
  ASSUME OneReturnDesk, FinedInv, [Next]_vars
  PROVE  FinedInv'
<1>1. Shape' /\ FinesInv'
  BY NextShape, NextFines DEF FinedInv
<1>2. CASE \E p \in Requests : ReturnCommit(p) \/ Renew(p) \/ IssueCommit(p)
  BY <1>1, <1>2, ReturningFined, RenewingFined, LendingFined
<1>3. CASE ~\E p \in Requests : ReturnCommit(p) \/ Renew(p) \/ IssueCommit(p)
  <2>1. /\ DOMAIN fines' = DOMAIN fines
        /\ \A f \in DOMAIN fines : fines'[f].loan = fines[f].loan /\ fines'[f].amount = fines[f].amount
    BY <1>3, AmountsStay DEF FinedInv
  <2>2. ASSUME NEW p \in Requests, NEW step \in Steps, NEW object, Fetched(p, step, object), UNCHANGED loans,
               step \in {"issue", "issuing"} => p \in IssueDesks,
               step \in {"return", "returning", "renew"} =>
                 p \in ReturnDesks /\ object.row = loans[object.loan],
               step = "returning" => loans[object.loan].returned = None
        PROVE  FinedInv'
    <3>1. pc'[p] = step /\ seen'[p] = object /\ \A q \in Requests \ {p} : Same(q)
      BY <2>2, OneMoves DEF FinedInv
    <3>2. ASSUME NEW q \in Requests
          PROVE  \/ Same(q)
                 \/ /\ Lending(q)' => q \in IssueDesks
                    /\ HasLoan(q)' => /\ q \in ReturnDesks /\ seen'[q].row = loans[seen'[q].loan]
                                      /\ Returning(q)' => loans[seen'[q].loan].returned = None
      BY <2>2, <3>1 DEF Issuing, Lending, HasLoan, Returning
    <3>3. QED
      BY <1>1, <2>1, <2>2, <3>2, QuietForFined
  <2>3. ASSUME NEW p \in Requests, IssueLock(p) PROVE FinedInv'
    <3>1. p \in IssueDesks
      BY <2>3 DEF IssueLock, Lending, FinedInv, AtTheDesks
    <3>2. QED
      BY <2>2, <2>3, <3>1 DEF IssueLock, Steps
  <2>9. ASSUME NEW p \in Requests, p \in IssueDesks, NEW b \in Books, NEW m \in Members, FetchMember(p, b, m)
        PROVE  FinedInv'
    BY <2>2, <2>9 DEF FetchMember, Steps
  <2>4. ASSUME NEW p \in Requests, p \in ReturnDesks, NEW i \in DOMAIN loans, NEW step \in {"return", "renew"},
               FetchLoan(p, step, i)
        PROVE  FinedInv'
    <3> DEFINE object == [loan |-> i, row |-> loans[i]]
    <3>1. Fetched(p, step, object) /\ UNCHANGED loans /\ step \in Steps \ {"issuing", "returning"}
      BY <2>4 DEF FetchLoan, Steps
    <3>2. object.loan = i /\ object.row = loans[i]
      OBVIOUS
    <3> HIDE DEF object
    <3>3. QED
      BY <2>2, <2>4, <3>1, <3>2
  <2>5. ASSUME NEW p \in Requests, ReturnLock(p) PROVE FinedInv'
    <3> DEFINE row == seen[p].row
               object == [loan |-> seen[p].loan, row |-> row, book |-> row.book,
                          available |-> book[row.book].available, next |-> OldestWaiting(row.book)]
    <3>1. HasLoan(p) /\ UNCHANGED loans
      BY <2>5 DEF ReturnLock, HasLoan
    <3>2. p \in ReturnDesks /\ row = loans[seen[p].loan]
      BY <3>1 DEF FinedInv, AtTheDesks, AsFetched
    <3>3. CASE Done(p)
      BY <2>2, <3>1, <3>3 DEF Done, Steps
    <3>4. CASE ~Closed(row) /\ Fetched(p, "returning", object)
      <4>1. object.loan = seen[p].loan /\ object.row = row /\ "returning" \in Steps
        BY DEF Steps
      <4>2. loans[seen[p].loan].returned = None
        BY <3>2, <3>4 DEF Closed
      <4> HIDE DEF object
      <4>3. QED
        BY <2>2, <3>1, <3>2, <3>4, <4>1, <4>2
    <3>5. QED
      BY <2>5, <3>3, <3>4 DEF ReturnLock
  <2>6. ASSUME NEW p \in Requests, FineStep(p) \/ HoldStep(p) \/ Abort(p) \/ CatalogueStep(p) PROVE FinedInv'
    <3>1. /\ UNCHANGED loans
          /\ \/ \E step \in Steps \ {"issue", "issuing", "return", "returning", "renew"} : \E object : Fetched(p, step, object)
             \/ UNCHANGED <<pc, seen>>
      BY <2>6 DEF FineStep, FetchFine, WaiveFine, PatchFine, HoldStep, CheckHold, PlaceHold, CancelHold, Abort,
        CatalogueStep, FetchBook, EditBook, Done, Steps
    <3>2. CASE UNCHANGED <<pc, seen>>
      BY <1>1, <2>1, <3>1, <3>2, QuietForFined DEF Same
    <3>3. QED
      BY <2>2, <3>1, <3>2
  <2>7. CASE Others \/ (\E b \in Books : DeleteBook(b)) \/ UNCHANGED vars
    <3>1. UNCHANGED <<loans, pc, seen>>
      BY <2>7 DEF Others, SettleCharge, EditMember, NextDay, DeleteBook, vars
    <3>2. QED
      BY <1>1, <2>1, <3>1, QuietForFined DEF Same
  <2>8. QED
    BY <1>3, <2>3, <2>4, <2>5, <2>6, <2>7, <2>9 DEF Next, DeskNext, LoanStep
<1>4. QED
  BY <1>2, <1>3

\* At first there is no loan to be fined.
LEMMA InitFined == Init => FinedInv
<1>1. Init => \A p \in Requests : ~Issuing(p) /\ ~Lending(p) /\ ~HasLoan(p)
  BY DEF Init, Issuing, Lending, HasLoan
<1>2. Init => DOMAIN loans = {}
  <2>1. DOMAIN <<>> = 1..0
    BY EmptySeq, LenProperties
  <2>2. QED
    BY <2>1 DEF Init
<1>3. Init => AtTheDesks /\ AsFetched /\ FinedWhenOverdue
  BY <1>1, <1>2 DEF AtTheDesks, AsFetched, FinedWhenOverdue
<1>4. QED
  BY <1>3, InitShape, InitFines DEF FinedInv

\* return_book: a loan that came back late is fined once, for the days it was
\* late, and one that came back in time is not, as long as one desk takes books
\* back: the loan is not locked, and a second desk would fine it again.
THEOREM LateLoansFinedOnce ==
  ASSUME OneReturnDesk
  PROVE  Spec => []FinedWhenOverdue
<1>1. FinedInv /\ [Next]_vars => FinedInv'
  BY NextFined
<1>2. FinedInv => FinedWhenOverdue
  BY DEF FinedInv
<1>3. QED
  BY InitFined, <1>1, <1>2, PTL DEF Spec
=============================================================================
