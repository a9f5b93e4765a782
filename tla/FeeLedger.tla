----------------------------- MODULE FeeLedger -----------------------------
(***************************************************************************)
(* The fees ledger of one branch (apps/fees): charges, concessions,        *)
(* receipts with gap-free numbers, refunds.                                *)
(*                                                                         *)
(* The database runs at READ COMMITTED and every write path of             *)
(* apps/fees/services.py is one transaction.  A request therefore takes    *)
(* one step per statement that can interleave with another transaction:    *)
(* the snapshot a locking SELECT starts from, the moment its row locks are *)
(* granted, each later read, and the commit, where all its writes appear   *)
(* at once.  Row locks are what a request `holds' until it finishes.  A    *)
(* request may abort at any step (error, killed worker): its writes are    *)
(* rolled back and its locks released.                                     *)
(*                                                                         *)
(* Abstractions.  A student has one fee head and one academic year, so the *)
(* rows _recompute_discounts visits are the student's live charges.  Row   *)
(* locks of one SELECT are granted together.  Money is in whole units.     *)
(***************************************************************************)
EXTENDS Integers, Sequences, FiniteSets, FiniteSetsExt

CONSTANTS
  Requests,     \* transactions that may be in flight at the same time
  Students,
  Charges,      \* rows the charge table may come to hold, 1..n by due date
  Owner,        \* Owner[c]: the student row c is for
  Source,       \* Source[c]: its (source_type, source_id), or NoKey
  NoKey,        \* a blank source_id: manual adjustments are not idempotent
  Amount,       \* Amount[c]: what row c asks for; negative for a credit note
  Concessions,
  Grantee,      \* Grantee[k]: the student concession k is for
  Reduction,    \* Reduction[k][c]: what k takes off charge c
  Years,        \* financial years, each with its receipt counter
  Pays,         \* amounts a caller may hand over
  MaxLines,     \* bound: lines in one collect or refund request
  MaxReceipts,  \* bound: receipts ever started
  None

ASSUME ChargesAssumption ==
  /\ Charges \subseteq Nat /\ IsFiniteSet(Charges)
  /\ Owner \in [Charges -> Students]
  /\ Amount \in [Charges -> Int]
  /\ \A c \in Charges : Amount[c] < 0 => Source[c] = NoKey
ASSUME ConcessionAssumption ==
  /\ IsFiniteSet(Concessions)
  /\ Grantee \in [Concessions -> Students]
  /\ Reduction \in [Concessions -> [Charges -> Nat]]
ASSUME BoundAssumption ==
  Pays \subseteq Nat /\ MaxLines \in Nat /\ MaxReceipts \in Nat

VARIABLES
  status,       \* Charge rows: "none", "live", "cancelled" (cancelled_at set)
  discount,     \* Charge.discount
  concession,   \* Concession.status
  receipts,     \* Receipt rows with their lines, in the order they committed
  refunded,     \* refunded[c]: total of the RefundLine rows of c
  counter,      \* ReceiptCounter.last_number per year
  pc,           \* where each request is in its transaction
  txn,          \* what each open transaction has read, locked and will write
  overtaken     \* history: <<p, c>> when what p read of c is no longer so

vars == <<status, discount, concession, receipts, refunded, counter, pc, txn, overtaken>>

Live == {c \in Charges : status[c] = "live"}
LiveOf(s) == {c \in Live : Owner[c] = s}
Approved == {k \in Concessions : concession[k] = "approved"}

(***************************************************************************)
(* Balances, always computed from the rows (apps/fees/selectors.py).       *)
(***************************************************************************)
Received(c) ==
  LET live == {i \in DOMAIN receipts : ~receipts[i].cancelled}
  IN  SumFunctionOnSet([i \in DOMAIN receipts |-> receipts[i].paid[c]], live)
Paid(c) == Received(c) - refunded[c]
Outstanding(c) == Amount[c] - discount[c] - Received(c)

NoTxn == [student |-> None, lines |-> <<>>, alloc |-> <<>>, year |-> None, number |-> 0,
          rows |-> {}, holds |-> {}, cancels |-> {}, inserts |-> {},
          approves |-> {}, approved |-> {}, disc |-> <<>>, asked |-> 0,
          due |-> <<>>]

Begin(p, step, fields) ==
  /\ pc' = [pc EXCEPT ![p] = step]
  /\ txn' = [txn EXCEPT ![p] = fields]
\* Fault: the transaction ends but its locks and reads linger.
FinishWithoutRelease(p) == Begin(p, "idle", txn[p])
Finish(p) == Begin(p, "idle", NoTxn)

\* Fault: a plain SELECT where the code has FOR UPDATE.
Unlocked(p, rows) == TRUE
\* A row lock is granted when no other open transaction has the row locked.
Free(p, rows) == \A q \in Requests \ {p} : txn[q].holds \cap rows = {}

tables == <<status, discount, concession, receipts, refunded, counter>>

-----------------------------------------------------------------------------
(***************************************************************************)
(* collect and refund.                                                     *)
(***************************************************************************)
\* Lines are looked at one by one, so the order they come in makes no difference.
InOrder(lines) == \A i, j \in DOMAIN lines : i < j => lines[i][1] <= lines[j][1]
LineSeqs == UNION {{ls \in [1..n -> Live \X Pays] : InOrder(ls)} : n \in 1..MaxLines}

PerCharge(lines, c) ==
  SumFunctionOnSet([i \in DOMAIN lines |-> lines[i][2]], {i \in DOMAIN lines : lines[i][1] = c})
Allocation(lines) == [c \in Charges |-> PerCharge(lines, c)]

\* Fault: the charges are walked from the newest due date down.
NewestFirst(amount, due) ==
  LET newer(c) == {d \in DOMAIN due : d > c /\ due[d] > 0}
      left(c)  == Max({0, amount - SumFunctionOnSet(due, newer(c))})
  IN  [c \in Charges |-> IF c \in DOMAIN due THEN Min({Max({0, due[c]}), left(c)}) ELSE 0]
\* `amount' without lines: the oldest dues first, each up to what it owes.
Older(c, due) == {d \in DOMAIN due : d < c /\ due[d] > 0}
OldestFirst(amount, due) ==
  LET Left(c) == Max({0, amount - SumFunctionOnSet(due, Older(c, due))})
  IN  [c \in Charges |-> IF c \in DOMAIN due
                           THEN Min({Max({0, due[c]}), Left(c)}) ELSE 0]
TotalOf(alloc) == SumFunctionOnSet(alloc, Charges)

InFlight == {q \in Requests : pc[q] \in {"collect", "number", "numbered"}}

\* The request arrives; the locking SELECT takes its snapshot of the
\* student's live charges.
CollectBegin(p) ==
  /\ pc[p] = "idle"
  /\ Len(receipts) + Cardinality(InFlight) < MaxReceipts
  /\ \E s \in Students, y \in Years, ls \in LineSeqs \cup {<<>>}, a \in Pays \cup {0} :
       /\ (ls = <<>>) # (a = 0)      \* lines or an amount, not both
       /\ Begin(p, "collect", [NoTxn EXCEPT !.student = s, !.year = y, !.rows = LiveOf(s),
                                            !.lines = ls, !.asked = a])
  /\ UNCHANGED tables

\* Fault: a line is checked for its sign but not against the balance.
AnyPositiveLine(lines, due) ==
  /\ lines # <<>>
  /\ \A i \in DOMAIN lines : lines[i][1] \in DOMAIN due /\ lines[i][2] > 0
\* Each line on its own against the balances just read.
LinesAcceptable(lines, due) ==
  /\ lines # <<>>
  /\ \A i \in DOMAIN lines :
       /\ lines[i][1] \in DOMAIN due
       /\ lines[i][2] > 0
       /\ lines[i][2] <= due[lines[i][1]]

\* The locks are granted; balances are read in a second statement, and the
\* lines are checked or computed.  A conflict rolls back.
CollectLock(p) ==
  LET t      == txn[p]
      locked == t.rows \cap Live
      due    == [c \in LiveOf(t.student) |-> Outstanding(c)]
      alloc  == IF t.asked > 0 THEN OldestFirst(t.asked, due) ELSE Allocation(t.lines)
      accept == IF t.asked > 0 THEN TotalOf(alloc) = t.asked ELSE LinesAcceptable(t.lines, due)
  IN  /\ pc[p] = "collect"
      /\ Free(p, locked)
      /\ IF accept
           THEN Begin(p, "number", [t EXCEPT !.holds = locked, !.rows = {}, !.alloc = alloc,
                                             !.due = due])
           ELSE Finish(p)
      /\ UNCHANGED tables

\* Fault: the counter row is read without its lock.
CounterUnlocked(p, y) == TRUE
\* get_or_create, then SELECT ... FOR UPDATE on the counter of that year.
CounterFree(p, y) ==
  \A q \in Requests \ {p} : ~(pc[q] = "numbered" /\ txn[q].year = y)
CollectNumber(p) ==
  /\ pc[p] = "number"
  /\ CounterFree(p, txn[p].year)
  /\ Begin(p, "numbered", [txn[p] EXCEPT !.number = counter[txn[p].year] + 1])
  /\ UNCHANGED tables

CollectCommit(p) ==
  LET t == txn[p]
  IN  /\ pc[p] = "numbered"
      /\ t.alloc \in [Charges -> Nat]          \* fees_receipt_line_positive
      /\ counter' = [counter EXCEPT ![t.year] = t.number]
      /\ receipts' = Append(receipts, [year |-> t.year, number |-> t.number,
                                       student |-> t.student, paid |-> t.alloc,
                                       cancelled |-> FALSE])
      /\ Finish(p)
      /\ UNCHANGED <<status, discount, concession, refunded>>

RefundBegin(p) ==
  /\ pc[p] = "idle"
  /\ \E s \in Students, ls \in LineSeqs :
       Begin(p, "refund", [NoTxn EXCEPT !.student = s, !.rows = LiveOf(s), !.lines = ls])
  /\ UNCHANGED tables

RefundLock(p) ==
  LET t      == txn[p]
      locked == t.rows \cap Live
      paid   == [c \in LiveOf(t.student) |-> Paid(c)]
  IN  /\ pc[p] = "refund"
      /\ Free(p, locked)
      /\ IF LinesAcceptable(t.lines, paid)
           THEN Begin(p, "refunding", [t EXCEPT !.holds = locked, !.rows = {},
                                                !.alloc = Allocation(t.lines)])
           ELSE Finish(p)
      /\ UNCHANGED tables

RefundCommit(p) ==
  /\ pc[p] = "refunding"
  /\ txn[p].alloc \in [Charges -> Nat]       \* fees_refund_line_positive
  /\ refunded' = [c \in Charges |-> refunded[c] + txn[p].alloc[c]]
  /\ Finish(p)
  /\ UNCHANGED <<status, discount, concession, receipts, counter>>

\* Fault: cancelling clears the lines of the receipt.
Cleared(i) == [receipts EXCEPT ![i].cancelled = TRUE, ![i].paid = [c \in Charges |-> 0]]
Marked(i) == [receipts EXCEPT ![i].cancelled = TRUE]
\* Only the receipt's own row is locked, read and written, so the whole
\* transaction is one step.
CancelReceipt(p, i) ==
  /\ pc[p] = "idle"
  /\ ~receipts[i].cancelled
  /\ receipts' = Marked(i)
  /\ UNCHANGED <<status, discount, concession, refunded, counter, pc, txn>>

-----------------------------------------------------------------------------
(***************************************************************************)
(* post_charge, cancel_charge, cancel_future_charges, decide_concession.   *)
(* All but cancel_future_charges end in _recompute_discounts.              *)
(***************************************************************************)
LiveWithKey(k) == {c \in Live : Source[c] = k}
Inserting == UNION {txn[q].inserts : q \in Requests}

\* The unlocked look for a charge already posted under the key; when there is
\* one it is returned and nothing changes.
PostFind(p) ==
  /\ pc[p] = "idle"
  /\ \E c \in Charges :
       /\ status[c] = "none" /\ c \notin Inserting
       /\ Source[c] # NoKey => LiveWithKey(Source[c]) = {}
       /\ Begin(p, "insert", [NoTxn EXCEPT !.student = Owner[c], !.inserts = {c}])
  /\ UNCHANGED tables

\* Fault: the unique constraint is declared without the database index.
NoIndex(p, k) == TRUE
\* The INSERT.  The partial unique index makes it wait for a transaction that is
\* adding or removing a row with the same key, and fail when a committed live
\* one exists: then the winner's charge is fetched and returned.
IndexFree(p, k) ==
  \A q \in Requests \ {p} : pc[q] \in {"recompute", "write"} =>
    \A d \in txn[q].inserts \cup txn[q].cancels : Source[d] # k
PostInsert(p) ==
  /\ pc[p] = "insert"
  /\ \E c \in txn[p].inserts :
       LET k == Source[c]
       IN  /\ k # NoKey => IndexFree(p, k)
           /\ IF k # NoKey /\ LiveWithKey(k) # {}
                THEN Finish(p)
                ELSE Begin(p, "recompute", [txn[p] EXCEPT !.holds = {c}, !.approved = Approved])
  /\ UNCHANGED tables

\* The locking SELECT of cancel_charge (one row) and cancel_future_charges
\* (the student's rows of one source): what each charge has received is
\* computed from this statement's snapshot, before the locks are granted.
\* Fault: the payments of a charge are not looked at.
PaidOrNot(rows) == rows
Unpaid(rows) == {c \in rows : Received(c) = 0}
CancelBegin(p) ==
  /\ pc[p] = "idle"
  /\ \/ \E c \in Unpaid(Live) :
          Begin(p, "cancel", [NoTxn EXCEPT !.student = Owner[c], !.rows = {c}, !.cancels = {c}])
     \/ \E s \in Students : \E rows \in SUBSET LiveOf(s) :
          /\ Unpaid(rows) # {}
          /\ Begin(p, "cancel_future", [NoTxn EXCEPT !.student = s, !.rows = rows,
                                                     !.cancels = Unpaid(rows)])
  /\ UNCHANGED tables

\* A row cancelled while the statement waited is dropped by the re-check.
CancelLock(p) ==
  LET t      == txn[p]
      locked == t.rows \cap Live
      doomed == t.cancels \cap Live
      next   == IF pc[p] = "cancel" THEN "recompute" ELSE "write"
  IN  /\ pc[p] \in {"cancel", "cancel_future"}
      /\ Free(p, locked)
      /\ IF doomed = {} THEN Finish(p)
         ELSE Begin(p, next, [t EXCEPT !.holds = locked, !.rows = {}, !.cancels = doomed,
                                       !.approved = Approved])
      /\ UNCHANGED tables

ConcessionFree(p, k) == \A q \in Requests \ {p} : k \notin txn[q].approves
Reject(p, k) ==
  /\ pc[p] = "idle"
  /\ ConcessionFree(p, k) /\ concession[k] = "pending"
  /\ concession' = [concession EXCEPT ![k] = "rejected"]
  /\ UNCHANGED <<status, discount, receipts, refunded, counter, pc, txn>>
Approve(p, k) ==
  /\ pc[p] = "idle"
  /\ ConcessionFree(p, k) /\ concession[k] = "pending"
  /\ Begin(p, "recompute", [NoTxn EXCEPT !.student = Grantee[k], !.approves = {k},
                                         !.approved = Approved \cup {k}])
  /\ UNCHANGED tables

\* What the approved concessions of a student take off a charge.
Reductions(c, s, approved) ==
  SumFunctionOnSet([k \in Concessions |-> Reduction[k][c]], {k \in approved : Grantee[k] = s})
\* Fault: the ceiling is the amount, whatever was already received.
DiscountUpToAmount(c, s, approved) ==
  Min({Reductions(c, s, approved), Max({0, Amount[c]})})
\* _recompute_discounts: reads without locks, sees the transaction's own
\* writes, and keeps the discounts that are to change.
NewDiscount(c, s, approved) ==
  Min({Reductions(c, s, approved), Max({0, Amount[c] - Received(c)})})
RecomputeRead(p) ==
  LET t    == txn[p]
      mine == (LiveOf(t.student) \ t.cancels) \cup t.inserts
      new  == [c \in {d \in mine : Amount[d] > 0} |-> NewDiscount(c, t.student, t.approved)]
  IN  /\ pc[p] = "recompute"
      /\ Begin(p, "write", [t EXCEPT !.disc =
             [c \in {d \in DOMAIN new : new[d] # discount[d]} |-> new[c]]])
      /\ UNCHANGED tables

\* The UPDATEs wait for the rows they touch; then everything commits.
WriteCommit(p) ==
  LET t == txn[p]
  IN  /\ pc[p] = "write"
      /\ Free(p, DOMAIN t.disc)
      /\ \A c \in DOMAIN t.disc : t.disc[c] \in Nat   \* fees_discount_nonneg
      /\ status' = [c \in Charges |-> CASE c \in t.cancels -> "cancelled"
                                        [] c \in t.inserts -> "live"
                                        [] OTHER           -> status[c]]
      /\ discount' = [c \in Charges |-> IF c \in DOMAIN t.disc THEN t.disc[c] ELSE discount[c]]
      /\ concession' = [k \in Concessions |-> IF k \in t.approves THEN "approved" ELSE concession[k]]
      /\ Finish(p)
      /\ UNCHANGED <<receipts, refunded, counter>>

\* Any open transaction may fail: nothing it did remains.
Abort(p) == pc[p] # "idle" /\ Finish(p) /\ UNCHANGED tables

\* A step of p outdates what q read without a lock on what p changes: money
\* comes in on a charge whose new discount q has computed, or goes back while q
\* is about to refund it, unless both of them lock the charge.
Outdates(p, q, c) ==
  \/ /\ pc[q] = "write" /\ c \in DOMAIN txn[q].disc
     /\ Received(c)' > Received(c)
  \/ /\ pc[q] = "refunding" /\ Paid(c)' < Paid(c)
     /\ c \notin txn[p].holds \cap txn[q].holds
Overtaking(p) ==
  overtaken' = {m \in (Requests \ {p}) \X Charges : m \in overtaken \/ Outdates(p, m[1], m[2])}

-----------------------------------------------------------------------------
Init ==
  /\ status \in [Charges -> {"none", "live"}]
  /\ \A c, d \in Live : Source[c] = Source[d] /\ Source[c] # NoKey => c = d
  /\ discount = [c \in Charges |-> 0]
  /\ concession = [k \in Concessions |-> "pending"]
  /\ receipts = <<>>
  /\ refunded = [c \in Charges |-> 0]
  /\ counter = [y \in Years |-> 0]
  /\ pc = [p \in Requests |-> "idle"]
  /\ txn = [p \in Requests |-> NoTxn]
  /\ overtaken = {}

CollectStep(p) == CollectBegin(p) \/ CollectLock(p) \/ CollectNumber(p) \/ CollectCommit(p)
\* Money given back.
ReturnStep(p) ==
  \/ RefundBegin(p) \/ RefundLock(p) \/ RefundCommit(p)
  \/ \E i \in DOMAIN receipts : CancelReceipt(p, i)
\* The billing side: what students owe.
BillingStep(p) ==
  \/ PostFind(p) \/ PostInsert(p)
  \/ CancelBegin(p) \/ CancelLock(p)
  \/ \E k \in Concessions : Approve(p, k) \/ Reject(p, k)
  \/ RecomputeRead(p) \/ WriteCommit(p)
Next ==
  \E p \in Requests :
    (CollectStep(p) \/ ReturnStep(p) \/ BillingStep(p) \/ Abort(p)) /\ Overtaking(p)

\* The same while collections overlap with collections only, any other request
\* is alone from its first step to its last, and no request has two lines for
\* one charge (each is checked as if it were the only one).
Collecting == {"idle", "collect", "number", "numbered"}
OncePerCharge(lines) == \A i, j \in DOMAIN lines : lines[i][1] = lines[j][1] => i = j
OrderlyNext ==
  \E p \in Requests :
    /\ \/ (CollectStep(p) \/ Abort(p)) /\ \A q \in Requests \ {p} : pc[q] \in Collecting
       \/ (ReturnStep(p) \/ BillingStep(p)) /\ \A q \in Requests \ {p} : pc[q] = "idle"
    /\ OncePerCharge(txn'[p].lines) /\ Overtaking(p)

Spec == Init /\ [][Next]_vars
OrderlySpec == Init /\ [][OrderlyNext]_vars

-----------------------------------------------------------------------------
Steps == {"idle", "collect", "number", "numbered", "refund", "refunding", "insert",
          "cancel", "cancel_future", "recompute", "write"}

Receipt == [year : Years, number : Nat, student : Students,
            paid : [Charges -> Nat], cancelled : BOOLEAN]

TxnOK(t) ==
  /\ DOMAIN t = DOMAIN NoTxn
  /\ t.number \in Nat
  /\ t.rows \cup t.holds \cup t.inserts \cup t.cancels \subseteq Charges

\* The tables hold rows of the declared shape, an idle request holds nothing,
\* and only an existing year's counter numbers a receipt of an existing student.
TypeOK ==
  /\ status \in [Charges -> {"none", "live", "cancelled"}]
  /\ discount \in [Charges -> Nat]
  /\ concession \in [Concessions -> {"pending", "approved", "rejected"}]
  /\ receipts \in Seq(Receipt)
  /\ refunded \in [Charges -> Nat]
  /\ counter \in [Years -> Nat]
  /\ pc \in [Requests -> Steps]
  /\ DOMAIN txn = Requests
  /\ \A p \in Requests :
       /\ TxnOK(txn[p])
       /\ pc[p] = "idle" => txn[p] = NoTxn
       /\ pc[p] \in {"collect", "number", "numbered"} =>
            txn[p].year \in Years /\ txn[p].student \in Students

\* "Gap-free numbering" (ReceiptCounter, models.py): in every year the numbers
\* of the receipts on record, cancelled ones included, are exactly 1 up to the
\* counter, each given to one receipt, whatever transactions overlap or abort.
GaplessNumbering ==
  /\ \A i, j \in DOMAIN receipts :
       receipts[i].year = receipts[j].year /\ receipts[i].number = receipts[j].number => i = j
  /\ \A y \in Years :
       1..counter[y] = {receipts[i].number : i \in {j \in DOMAIN receipts : receipts[j].year = y}}

\* The receipts on record are a bound book (ReceiptBook): transactions that
\* overlap, wait or abort only ever add the next receipt or cancel one.
Book == INSTANCE ReceiptBook WITH book <- receipts
ReceiptsAreABook == Book!Spec

\* post_charge is idempotent per (student, source_type, source_id): two posts
\* that both find nothing still leave one live charge.
OneLiveChargePerKey ==
  \A c, d \in Live : Source[c] = Source[d] /\ Source[c] # NoKey => c = d

\* collect never takes more than a charge asks for: what was received on a live
\* charge stays within its amount less its discount.
NoOverCollection == \A c \in Live : Amount[c] > 0 => Outstanding(c) >= 0

\* cancel_charge and cancel_future_charges leave a charge with any payment
\* alone: no money is ever held on a withdrawn charge.
CancelledNeverPaid == \A c \in Charges : status[c] = "cancelled" => Received(c) = 0

Ends(p) == pc[p] # "idle" /\ pc'[p] = "idle"

\* A late concession does not create a credit: a step that raises a discount
\* leaves it within what is not yet received, unless a receipt for the charge
\* committed since the discount was computed (it is computed without a lock).
NoCreditFromConcession ==
  [][\A c \in Charges : discount'[c] > discount[c] =>
       Outstanding(c)' >= 0 \/ \E p \in Requests : Ends(p) /\ <<p, c>> \in overtaken]_vars

\* A refund returns at most what was paid and not yet refunded, whatever other
\* refunds and payments overlap, unless the receipt itself was cancelled (or
\* the charge refunded by one who found it too new to lock) since it was read.
RefundWithinPaid ==
  [][\A c \in Charges : refunded'[c] > refunded[c] =>
       \/ Paid(c)' >= 0
       \/ \E p \in Requests : Ends(p) /\ (<<p, c>> \in overtaken \/ ~OncePerCharge(txn[p].lines))]_vars

\* A payment without lines settles the oldest dues: it reaches a newer charge
\* only after covering every older due in full, and is spent to the last unit.
OldestDuesFirst ==
  \A p \in Requests : pc[p] \in {"number", "numbered"} /\ txn[p].asked > 0 =>
    /\ TotalOf(txn[p].alloc) = txn[p].asked
    /\ \A c, d \in DOMAIN txn[p].due :
         c < d /\ txn[p].due[c] > 0 /\ txn[p].alloc[d] > 0 => txn[p].alloc[c] = txn[p].due[c]
=============================================================================
