-------------------------- MODULE FeeLedgerProofs --------------------------
(***************************************************************************)
(* What holds of the fees ledger for every set of requests, students,      *)
(* charges and years: the tables keep their shape, receipt numbers have no *)
(* gaps, a source key is never billed twice, an amount settles the oldest  *)
(* dues, discounts and refunds stay within what was received unless the    *)
(* request was overtaken, and, while only collections overlap, no charge   *)
(* is paid beyond what it asks for.                                        *)
(***************************************************************************)
EXTENDS FeeLedger, Sums, SequenceTheorems, TLAPS

-----------------------------------------------------------------------------
(***************************************************************************)
(* Type correctness.                                                       *)
(***************************************************************************)

\* Moving a request to another step of its transaction keeps the types, if
\* what the transaction now knows is well typed.
LEMMA BeginTypeOK ==
  ASSUME TypeOK, NEW p \in Requests, NEW step \in Steps, NEW fields,
         Begin(p, step, fields), UNCHANGED tables,
         TxnOK(fields), step = "idle" => fields = NoTxn,
         step \in {"collect", "number", "numbered"} =>
           fields.year \in Years /\ fields.student \in Students
  PROVE  TypeOK'
  BY DEF TypeOK, Begin, tables

\* A request without a transaction is well-formed.
LEMMA NoTxnOK == TxnOK(NoTxn)
  BY DEF TxnOK, NoTxn

\* A request that ends and writes nothing keeps the types.
LEMMA FinishTypeOK ==
  ASSUME TypeOK, NEW p \in Requests, Finish(p), UNCHANGED tables
  PROVE  TypeOK'
  BY BeginTypeOK, NoTxnOK DEF Finish, Steps

\* THEOREM: the tables of the ledger and what every request holds are well-formed.
THEOREM TypeCorrect == Spec => []TypeOK
<1>1. Init => TypeOK
  BY ChargesAssumption, NoTxnOK, EmptySeq DEF Init, TypeOK, NoTxn, Steps
<1>2. TypeOK /\ [Next]_vars => TypeOK'
  <2> SUFFICES ASSUME TypeOK, [Next]_vars PROVE TypeOK'
    OBVIOUS
  <2>1. CASE UNCHANGED vars
    BY <2>1 DEF TypeOK, vars
  <2>2. ASSUME NEW p \in Requests, CollectBegin(p) PROVE TypeOK'
    <3>1. PICK s, y, ls, a :
            s \in Students /\ y \in Years /\
            Begin(p, "collect", [NoTxn EXCEPT !.student = s, !.year = y, !.rows = LiveOf(s),
                                              !.lines = ls, !.asked = a])
      BY <2>2 DEF CollectBegin
    <3> DEFINE f == [NoTxn EXCEPT !.student = s, !.year = y, !.rows = LiveOf(s),
                                  !.lines = ls, !.asked = a]
    <3>2. TxnOK(f) /\ f.year = y /\ f.student = s
      BY DEF TxnOK, NoTxn, LiveOf, Live
    <3>3. QED
      BY <2>2, <3>1, <3>2, BeginTypeOK DEF CollectBegin, Steps
  <2>3. ASSUME NEW p \in Requests, CollectLock(p) PROVE TypeOK'
    <3>1. CASE Finish(p)
      BY <2>3, <3>1, FinishTypeOK DEF CollectLock
    <3>2. CASE ~Finish(p)
      <4>1. PICK alloc, due :
              Begin(p, "number", [txn[p] EXCEPT !.holds = txn[p].rows \cap Live, !.rows = {},
                                                !.alloc = alloc, !.due = due])
        BY <2>3, <3>2 DEF CollectLock
      <4> DEFINE f == [txn[p] EXCEPT !.holds = txn[p].rows \cap Live, !.rows = {},
                                     !.alloc = alloc, !.due = due]
      <4>2. TxnOK(f) /\ f.year = txn[p].year /\ f.student = txn[p].student
        BY DEF TypeOK, TxnOK, NoTxn, Live
      <4>3. QED
        BY <2>3, <4>1, <4>2, BeginTypeOK DEF CollectLock, TypeOK, Steps
    <3>3. QED
      BY <3>1, <3>2
  <2>4. ASSUME NEW p \in Requests, CollectNumber(p) PROVE TypeOK'
    <3> DEFINE f == [txn[p] EXCEPT !.number = counter[txn[p].year] + 1]
    <3>1. TxnOK(f) /\ f.year = txn[p].year /\ f.student = txn[p].student
      BY <2>4 DEF CollectNumber, TypeOK, TxnOK, NoTxn
    <3>2. QED
      BY <2>4, <3>1, BeginTypeOK DEF CollectNumber, TypeOK, Steps
  <2>5. ASSUME NEW p \in Requests, CollectCommit(p) PROVE TypeOK'
    <3>1. [year |-> txn[p].year, number |-> txn[p].number, student |-> txn[p].student,
           paid |-> txn[p].alloc, cancelled |-> FALSE] \in Receipt
      BY <2>5 DEF CollectCommit, TypeOK, TxnOK, Receipt
    <3>2. receipts' \in Seq(Receipt) /\ counter' \in [Years -> Nat]
      BY <2>5, <3>1 DEF CollectCommit, TypeOK, TxnOK
    <3>3. QED
      BY <2>5, <3>2, NoTxnOK DEF CollectCommit, TypeOK, Finish, Begin, Steps
  <2>6. ASSUME NEW p \in Requests, RefundBegin(p) PROVE TypeOK'
    <3>1. PICK s, ls :
            Begin(p, "refund", [NoTxn EXCEPT !.student = s, !.rows = LiveOf(s), !.lines = ls])
      BY <2>6 DEF RefundBegin
    <3> DEFINE f == [NoTxn EXCEPT !.student = s, !.rows = LiveOf(s), !.lines = ls]
    <3>2. TxnOK(f)
      BY DEF TxnOK, NoTxn, LiveOf, Live
    <3>3. QED
      BY <2>6, <3>1, <3>2, BeginTypeOK DEF RefundBegin, Steps
  <2>7. ASSUME NEW p \in Requests, RefundLock(p) PROVE TypeOK'
    <3>1. CASE Finish(p)
      BY <2>7, <3>1, FinishTypeOK DEF RefundLock
    <3>2. CASE ~Finish(p)
      <4>1. PICK alloc :
              Begin(p, "refunding", [txn[p] EXCEPT !.holds = txn[p].rows \cap Live, !.rows = {},
                                                   !.alloc = alloc])
        BY <2>7, <3>2 DEF RefundLock
      <4> DEFINE f == [txn[p] EXCEPT !.holds = txn[p].rows \cap Live, !.rows = {}, !.alloc = alloc]
      <4>2. TxnOK(f)
        BY DEF TypeOK, TxnOK, NoTxn, Live
      <4>3. QED
        BY <2>7, <4>1, <4>2, BeginTypeOK DEF RefundLock, Steps
    <3>3. QED
      BY <3>1, <3>2
  <2>8. ASSUME NEW p \in Requests, RefundCommit(p) PROVE TypeOK'
    <3>1. refunded' \in [Charges -> Nat]
      BY <2>8 DEF RefundCommit, TypeOK
    <3>2. QED
      BY <2>8, <3>1, NoTxnOK DEF RefundCommit, TypeOK, Finish, Begin, Steps
  <2>9. ASSUME NEW p \in Requests, NEW i \in DOMAIN receipts, CancelReceipt(p, i) PROVE TypeOK'
    <3>1. receipts' \in Seq(Receipt)
      <4>1. [receipts[i] EXCEPT !.cancelled = TRUE] \in Receipt
        <5>1. receipts[i] \in Receipt
          BY <2>9, ElementOfSeq, LenProperties DEF TypeOK
        <5>2. QED
          BY <5>1 DEF Receipt
      <4>2. receipts' = [receipts EXCEPT ![i] = [receipts[i] EXCEPT !.cancelled = TRUE]]
        BY <2>9 DEF CancelReceipt, Marked
      <4>3. QED
        BY <2>9, <4>1, <4>2, ExceptSeq DEF TypeOK
    <3>2. QED
      BY <2>9, <3>1 DEF CancelReceipt, TypeOK
  <2>10. ASSUME NEW p \in Requests, PostFind(p) PROVE TypeOK'
    <3>1. PICK c \in Charges :
            Begin(p, "insert", [NoTxn EXCEPT !.student = Owner[c], !.inserts = {c}])
      BY <2>10 DEF PostFind
    <3> DEFINE f == [NoTxn EXCEPT !.student = Owner[c], !.inserts = {c}]
    <3>2. TxnOK(f)
      BY DEF TxnOK, NoTxn
    <3>3. QED
      BY <2>10, <3>1, <3>2, BeginTypeOK DEF PostFind, Steps
  <2>11. ASSUME NEW p \in Requests, PostInsert(p) PROVE TypeOK'
    <3>1. CASE Finish(p)
      BY <2>11, <3>1, FinishTypeOK DEF PostInsert
    <3>2. CASE ~Finish(p)
      <4>1. PICK c \in txn[p].inserts :
              Begin(p, "recompute", [txn[p] EXCEPT !.holds = {c}, !.approved = Approved])
        BY <2>11, <3>2 DEF PostInsert
      <4> DEFINE f == [txn[p] EXCEPT !.holds = {c}, !.approved = Approved]
      <4>2. TxnOK(f)
        BY DEF TypeOK, TxnOK, NoTxn
      <4>3. QED
        BY <2>11, <4>1, <4>2, BeginTypeOK DEF PostInsert, Steps
    <3>3. QED
      BY <3>1, <3>2
  <2>12. ASSUME NEW p \in Requests, CancelBegin(p) PROVE TypeOK'
    <3>1. PICK step, s, rows, doomed :
            /\ step \in {"cancel", "cancel_future"} /\ rows \subseteq Live /\ doomed \subseteq rows
            /\ Begin(p, step, [NoTxn EXCEPT !.student = s, !.rows = rows, !.cancels = doomed])
      BY <2>12 DEF CancelBegin, Unpaid, LiveOf
    <3> DEFINE f == [NoTxn EXCEPT !.student = s, !.rows = rows, !.cancels = doomed]
    <3>2. TxnOK(f)
      BY <3>1 DEF TxnOK, NoTxn, Live
    <3>3. QED
      BY <2>12, <3>1, <3>2, BeginTypeOK DEF CancelBegin, Steps
  <2>13. ASSUME NEW p \in Requests, CancelLock(p) PROVE TypeOK'
    <3>1. CASE Finish(p)
      BY <2>13, <3>1, FinishTypeOK DEF CancelLock
    <3>2. CASE ~Finish(p)
      <4>1. PICK step \in {"recompute", "write"} :
              Begin(p, step, [txn[p] EXCEPT !.holds = txn[p].rows \cap Live, !.rows = {},
                                !.cancels = txn[p].cancels \cap Live, !.approved = Approved])
        BY <2>13, <3>2 DEF CancelLock
      <4> DEFINE f == [txn[p] EXCEPT !.holds = txn[p].rows \cap Live, !.rows = {},
                                !.cancels = txn[p].cancels \cap Live, !.approved = Approved]
      <4>2. TxnOK(f)
        BY DEF TypeOK, TxnOK, NoTxn, Live
      <4>3. QED
        BY <2>13, <4>1, <4>2, BeginTypeOK DEF CancelLock, Steps
    <3>3. QED
      BY <3>1, <3>2
  <2>14. ASSUME NEW p \in Requests, NEW k \in Concessions, Reject(p, k) PROVE TypeOK'
    BY <2>14 DEF Reject, TypeOK
  <2>15. ASSUME NEW p \in Requests, NEW k \in Concessions, Approve(p, k) PROVE TypeOK'
    <3> DEFINE f == [NoTxn EXCEPT !.student = Grantee[k], !.approves = {k},
                                  !.approved = Approved \cup {k}]
    <3>1. TxnOK(f)
      BY DEF TxnOK, NoTxn
    <3>2. QED
      BY <2>15, <3>1, BeginTypeOK DEF Approve, Steps
  <2>16. ASSUME NEW p \in Requests, RecomputeRead(p) PROVE TypeOK'
    <3>1. PICK disc : Begin(p, "write", [txn[p] EXCEPT !.disc = disc])
      BY <2>16 DEF RecomputeRead
    <3>2. TxnOK([txn[p] EXCEPT !.disc = disc])
      BY DEF TypeOK, TxnOK, NoTxn
    <3>3. QED
      BY <2>16, <3>1, <3>2, BeginTypeOK DEF RecomputeRead, Steps
  <2>17. ASSUME NEW p \in Requests, WriteCommit(p) PROVE TypeOK'
    <3>1. /\ status' \in [Charges -> {"none", "live", "cancelled"}]
          /\ discount' \in [Charges -> Nat]
          /\ concession' \in [Concessions -> {"pending", "approved", "rejected"}]
      BY <2>17 DEF WriteCommit, TypeOK
    <3>2. QED
      BY <2>17, <3>1, NoTxnOK DEF WriteCommit, TypeOK, Finish, Begin, Steps
  <2>18. ASSUME NEW p \in Requests, Abort(p) PROVE TypeOK'
    BY <2>18, FinishTypeOK DEF Abort
  <2>19. QED
    BY <2>1, <2>2, <2>3, <2>4, <2>5, <2>6, <2>7, <2>8, <2>9, <2>10, <2>11, <2>12, <2>13,
       <2>14, <2>15, <2>16, <2>17, <2>18
    DEF Next, CollectStep, ReturnStep, BillingStep
<1>3. QED
  BY <1>1, <1>2, PTL DEF Spec
-----------------------------------------------------------------------------
(***************************************************************************)
(* Gap-free receipt numbers.  The counter lock is what makes this hold: a  *)
(* transaction that has taken a number owns the counter of its year until  *)
(* it commits the number or rolls it back, so the number it took is still  *)
(* the next one.                                                           *)
(***************************************************************************)
NumberingInv ==
  /\ GaplessNumbering
  /\ \A p \in Requests : pc[p] = "numbered" => txn[p].number = counter[txn[p].year] + 1
  /\ \A p, q \in Requests :
       pc[p] = "numbered" /\ pc[q] = "numbered" /\ txn[p].year = txn[q].year => p = q

\* Steps that leave the receipts and the counters alone, and put no request
\* into the numbered state.
LEMMA OtherStepsKeepNumbering ==
  ASSUME TypeOK, NumberingInv, UNCHANGED <<receipts, counter>>,
         NEW p \in Requests, NEW step \in Steps \ {"numbered"}, NEW fields,
         Begin(p, step, fields)
  PROVE  NumberingInv'
<1>1. GaplessNumbering'
  BY DEF NumberingInv, GaplessNumbering
<1>2. \A q \in Requests : pc'[q] = "numbered" => pc[q] = "numbered" /\ txn'[q] = txn[q]
  BY DEF Begin, TypeOK
<1>3. QED
  BY <1>1, <1>2 DEF NumberingInv

\* Whoever holds a sequence row has the next number of its year, in every state.
LEMMA NumberingInvariant == Spec => []NumberingInv
<1>1. Init => NumberingInv
  <2> SUFFICES ASSUME Init PROVE NumberingInv
    OBVIOUS
  <2>1. DOMAIN receipts = {} /\ \A y \in Years : counter[y] = 0
    BY DEF Init
  <2>2. GaplessNumbering
    BY <2>1 DEF GaplessNumbering
  <2>3. QED
    BY <2>2 DEF Init, NumberingInv
<1>2. TypeOK /\ NumberingInv /\ [Next]_vars => NumberingInv'
  <2> SUFFICES ASSUME TypeOK, NumberingInv, [Next]_vars PROVE NumberingInv'
    OBVIOUS
  <2>1. CASE UNCHANGED vars
    BY <2>1 DEF vars, NumberingInv, GaplessNumbering
  <2>2. ASSUME NEW p \in Requests, CollectNumber(p) PROVE NumberingInv'
    <3>1. GaplessNumbering'
      BY <2>2 DEF CollectNumber, tables, NumberingInv, GaplessNumbering
    <3>2. txn[p].year \in Years /\ DOMAIN txn[p] = DOMAIN NoTxn
      BY <2>2 DEF CollectNumber, TypeOK, TxnOK
    <3>3. /\ pc'[p] = "numbered" /\ txn'[p].year = txn[p].year
          /\ txn'[p].number = counter[txn[p].year] + 1
          /\ \A q \in Requests \ {p} : pc'[q] = pc[q] /\ txn'[q] = txn[q]
          /\ counter' = counter
      BY <2>2, <3>2 DEF CollectNumber, Begin, TypeOK, NoTxn, tables
    <3>4. \A q \in Requests \ {p} : ~(pc[q] = "numbered" /\ txn[q].year = txn[p].year)
      BY <2>2 DEF CollectNumber, CounterFree
    <3>5. QED
      BY <3>1, <3>3, <3>4 DEF NumberingInv
  <2>3. ASSUME NEW p \in Requests, CollectCommit(p) PROVE NumberingInv'
    <3> DEFINE n == Len(receipts) + 1   y == txn[p].year
    <3>1. y \in Years /\ txn[p].number = counter[y] + 1 /\ counter[y] \in Nat /\ n \in Nat
      BY <2>3, LenProperties DEF CollectCommit, TypeOK, NumberingInv
    <3>2. /\ DOMAIN receipts = 1..Len(receipts) /\ DOMAIN receipts' = 1..n
          /\ \A i \in 1..Len(receipts) : receipts'[i] = receipts[i]
          /\ receipts'[n].year = y /\ receipts'[n].number = txn[p].number
      BY <2>3 DEF CollectCommit, TypeOK
    <3>3. \A x \in Years : counter'[x] = IF x = y THEN counter[y] + 1 ELSE counter[x]
      BY <2>3, <3>1 DEF CollectCommit, TypeOK
    <3>4. \A i \in DOMAIN receipts : receipts[i].year = y => receipts[i].number \in 1..counter[y]
      BY <3>1 DEF NumberingInv, GaplessNumbering
    <3>5. \A i, j \in DOMAIN receipts' :
            receipts'[i].year = receipts'[j].year /\ receipts'[i].number = receipts'[j].number => i = j
      <4>1. \A i \in DOMAIN receipts : receipts[i].year = y => receipts[i].number # txn[p].number
        BY <3>1, <3>4
      <4>2. QED
        BY <3>1, <3>2, <4>1 DEF NumberingInv, GaplessNumbering
    <3>6. ASSUME NEW x \in Years
          PROVE  1..counter'[x] = {receipts'[i].number : i \in {j \in DOMAIN receipts' : receipts'[j].year = x}}
      <4>1. 1..counter[x] = {receipts[i].number : i \in {j \in DOMAIN receipts : receipts[j].year = x}}
        BY DEF NumberingInv, GaplessNumbering
      <4>2. CASE x = y
        <5>1. 1..counter'[x] = (1..counter[x]) \cup {txn[p].number}
          BY <3>1, <3>3, <4>2
        <5>2. {j \in DOMAIN receipts' : receipts'[j].year = x}
                = {j \in DOMAIN receipts : receipts[j].year = x} \cup {n}
          BY <3>1, <3>2, <4>2
        <5>3. QED
          BY <3>1, <3>2, <4>1, <5>1, <5>2
      <4>3. CASE x # y
        <5>1. {j \in DOMAIN receipts' : receipts'[j].year = x}
                = {j \in DOMAIN receipts : receipts[j].year = x}
          BY <3>1, <3>2, <4>3
        <5>2. QED
          BY <3>1, <3>2, <3>3, <4>1, <4>3, <5>1
      <4>4. QED
        BY <4>2, <4>3
    <3>7. \A q \in Requests : pc'[q] = "numbered" => q # p /\ pc[q] = "numbered" /\ txn'[q] = txn[q]
      BY <2>3 DEF CollectCommit, Finish, Begin, TypeOK
    <3>8. \A q \in Requests : pc'[q] = "numbered" => txn'[q].year # y /\ txn[q].year \in Years
      BY <2>3, <3>7 DEF CollectCommit, NumberingInv, TypeOK
    <3>9. \A q \in Requests : pc'[q] = "numbered" => txn'[q].number = counter'[txn'[q].year] + 1
      BY <3>3, <3>7, <3>8 DEF NumberingInv
    <3>10. QED
      BY <3>5, <3>6, <3>7, <3>9 DEF NumberingInv, GaplessNumbering
  <2>4. ASSUME NEW p \in Requests, NEW i \in DOMAIN receipts, CancelReceipt(p, i) PROVE NumberingInv'
    <3>1. /\ DOMAIN receipts' = DOMAIN receipts
          /\ \A j \in DOMAIN receipts :
               receipts'[j].year = receipts[j].year /\ receipts'[j].number = receipts[j].number
      <4>1. \A j \in DOMAIN receipts : receipts[j] \in Receipt
        BY ElementOfSeq, LenProperties DEF TypeOK
      <4>2. receipts' = [receipts EXCEPT ![i] = [receipts[i] EXCEPT !.cancelled = TRUE]]
        BY <2>4 DEF CancelReceipt, Marked
      <4>3. QED
        BY <4>1, <4>2 DEF Receipt
    <3>2. GaplessNumbering'
      <4>1. \A y \in Years :
              /\ counter'[y] = counter[y]
              /\ {j \in DOMAIN receipts' : receipts'[j].year = y} = {j \in DOMAIN receipts : receipts[j].year = y}
        BY <2>4, <3>1 DEF CancelReceipt
      <4>2. \A y \in Years : 1..counter'[y] = {receipts'[j].number : j \in {k \in DOMAIN receipts' : receipts'[k].year = y}}
        BY <3>1, <4>1 DEF NumberingInv, GaplessNumbering
      <4>3. QED
        BY <3>1, <4>2 DEF NumberingInv, GaplessNumbering
    <3>3. QED
      BY <2>4, <3>2 DEF CancelReceipt, NumberingInv
  <2>5. ASSUME NEW p \in Requests, NEW k \in Concessions, Reject(p, k) PROVE NumberingInv'
    BY <2>5 DEF Reject, NumberingInv, GaplessNumbering
  <2>6. ASSUME NEW p \in Requests,
               \/ CollectBegin(p) \/ CollectLock(p) \/ RefundBegin(p) \/ RefundLock(p)
               \/ RefundCommit(p) \/ Abort(p) \/ PostFind(p) \/ PostInsert(p)
               \/ CancelBegin(p) \/ CancelLock(p) \/ (\E k \in Concessions : Approve(p, k))
               \/ RecomputeRead(p) \/ WriteCommit(p)
        PROVE  NumberingInv'
    <3>1. UNCHANGED <<receipts, counter>>
      BY <2>6 DEF CollectBegin, CollectLock, RefundBegin, RefundLock, RefundCommit, Abort, PostFind,
        PostInsert, CancelBegin, CancelLock, Approve, RecomputeRead, WriteCommit, tables
    <3>2. \E step \in Steps \ {"numbered"} : \E fields : Begin(p, step, fields)
      <4>1. CASE CollectBegin(p) \/ RefundBegin(p) \/ PostFind(p) \/ CancelBegin(p)
        BY <4>1 DEF CollectBegin, RefundBegin, PostFind, CancelBegin, Steps
      <4>2. CASE CollectLock(p) \/ RefundLock(p) \/ PostInsert(p)
        BY <4>2 DEF CollectLock, RefundLock, PostInsert, Finish, Steps
      <4>3. CASE CancelLock(p) \/ RecomputeRead(p) \/ (\E k \in Concessions : Approve(p, k))
        BY <4>3 DEF CancelLock, RecomputeRead, Approve, Finish, Steps
      <4>4. CASE RefundCommit(p) \/ WriteCommit(p) \/ Abort(p)
        BY <4>4 DEF RefundCommit, WriteCommit, Abort, Finish, Steps
      <4>5. QED
        BY <2>6, <4>1, <4>2, <4>3, <4>4
    <3>3. QED
      BY <3>1, <3>2, OtherStepsKeepNumbering
  <2>7. QED
    BY <2>1, <2>2, <2>3, <2>4, <2>5, <2>6 DEF Next, CollectStep, ReturnStep, BillingStep
<1>3. QED
  BY <1>1, <1>2, TypeCorrect, PTL DEF Spec

\* THEOREM: the receipts of a year are numbered 1, 2, 3, ... (next_receipt_no).
THEOREM NumbersHaveNoGaps == Spec => []GaplessNumbering
<1>1. NumberingInv => GaplessNumbering
  BY DEF NumberingInv
<1>2. QED
  BY <1>1, NumberingInvariant, PTL

-----------------------------------------------------------------------------
(***************************************************************************)
(* The refinement: a commit writes the next receipt of the book, a         *)
(* cancellation marks one, and every other step stutters.                  *)
(***************************************************************************)
LEMMA CommitIssues ==
  ASSUME TypeOK, NumberingInv, NEW p \in Requests, CollectCommit(p)
  PROVE  Book!Issue
<1> DEFINE n == Len(receipts) + 1
           r == [year |-> txn[p].year, number |-> txn[p].number, student |-> txn[p].student,
                 paid |-> txn[p].alloc, cancelled |-> FALSE]
<1>1. receipts \in Seq(Receipt) /\ receipts' = Append(receipts, r)
  BY DEF CollectCommit, TypeOK
<1>2. Len(receipts') = n /\ receipts'[n] = r
  BY <1>1
<1>3. r.year \in Years /\ r.number = counter[r.year] + 1 /\ counter[r.year] \in Nat
  BY DEF CollectCommit, TypeOK, NumberingInv
<1>4. Book!Numbers(r.year) = 1..counter[r.year]
  BY <1>3 DEF Book!Numbers, NumberingInv, GaplessNumbering
<1>5. Book!NextNumber(r)
  BY <1>3, <1>4 DEF Book!NextNumber
<1>6. QED
  BY <1>1, <1>2, <1>5 DEF Book!Issue

\* Cancelling a receipt is a cancellation of the book.
LEMMA CancellationMarks ==
  ASSUME NEW p \in Requests, NEW i \in DOMAIN receipts, CancelReceipt(p, i)
  PROVE  Book!Cancel
  BY DEF CancelReceipt, Marked, Book!Cancel

\* Every other step but a commit leaves the book alone.
LEMMA OtherStepsStutter ==
  ASSUME NEW p \in Requests,
         \/ CollectBegin(p) \/ CollectLock(p) \/ CollectNumber(p) \/ RefundBegin(p) \/ RefundLock(p)
         \/ RefundCommit(p) \/ Abort(p) \/ BillingStep(p)
  PROVE  UNCHANGED receipts
  BY DEF CollectBegin, CollectLock, CollectNumber, RefundBegin, RefundLock, RefundCommit, Abort,
    BillingStep, PostFind, PostInsert, CancelBegin, CancelLock, Approve, Reject, RecomputeRead,
    WriteCommit, tables

\* The ledger implements the receipt book: whatever overlaps or aborts, the
\* receipts on record only grow by the next number of a year or get cancelled.
THEOREM LedgerImplementsBook == Spec => ReceiptsAreABook
<1>1. Init => Book!Init
  BY DEF Init, Book!Init
<1>2. TypeOK /\ NumberingInv /\ [Next]_vars => [Book!Next]_receipts
  <2> SUFFICES ASSUME TypeOK, NumberingInv, [Next]_vars PROVE [Book!Next]_receipts
    OBVIOUS
  <2>1. CASE UNCHANGED vars
    BY <2>1 DEF vars
  <2>2. CASE Next
    BY <2>2, CommitIssues, CancellationMarks, OtherStepsStutter DEF Next, CollectStep, ReturnStep, Book!Next
  <2>3. QED
    BY <2>1, <2>2
<1>3. QED
  BY <1>1, <1>2, TypeCorrect, NumberingInvariant, PTL DEF Spec, ReceiptsAreABook, Book!Spec
-----------------------------------------------------------------------------
(***************************************************************************)
(* Idempotent posting.  Between its INSERT and its commit a transaction    *)
(* owns its key: no live charge has it and no other transaction inserts it.*)
(***************************************************************************)
Inserted(p) == IF pc[p] \in {"recompute", "write"} THEN txn[p].inserts ELSE {}
KeyInv ==
  /\ OneLiveChargePerKey
  /\ \A p \in Requests : \A c, d \in txn[p].inserts : c = d
  /\ \A p \in Requests : pc[p] \in {"cancel", "cancel_future"} => txn[p].inserts = {}
  /\ \A p \in Requests : \A c \in Inserted(p) : Source[c] # NoKey =>
       /\ LiveWithKey(Source[c]) = {}
       /\ \A q \in Requests \ {p} : \A d \in Inserted(q) : Source[d] # Source[c]

\* Steps that write no charge and begin or end no insertion.
LEMMA OtherStepsKeepKeys ==
  ASSUME TypeOK, KeyInv, status' = status,
         NEW p \in Requests, NEW step \in Steps, NEW fields, Begin(p, step, fields),
         \A c, d \in fields.inserts : c = d,
         step \in {"recompute", "write"} => fields.inserts \subseteq Inserted(p),
         step \in {"cancel", "cancel_future"} => fields.inserts = {}
  PROVE  KeyInv'
<1>1. Live' = Live
  BY DEF Live
<1>2. /\ pc'[p] = step /\ txn'[p] = fields
      /\ \A q \in Requests \ {p} : pc'[q] = pc[q] /\ txn'[q] = txn[q]
  BY DEF Begin, TypeOK
<1>3. \A q \in Requests : Inserted(q)' \subseteq Inserted(q)
  BY <1>2 DEF Inserted
<1>4. OneLiveChargePerKey'
  BY <1>1 DEF KeyInv, OneLiveChargePerKey
<1>5. \A q \in Requests : \A c \in Inserted(q)' : Source[c] # NoKey =>
        /\ LiveWithKey(Source[c])' = {}
        /\ \A r \in Requests \ {q} : \A d \in Inserted(r)' : Source[d] # Source[c]
  BY <1>1, <1>3 DEF KeyInv, LiveWithKey
<1>6. QED
  BY <1>2, <1>4, <1>5 DEF KeyInv

\* THEOREM: a key of post_charge has one live charge at most.
THEOREM KeysAreBilledOnce == Spec => []OneLiveChargePerKey
<1>1. Init => KeyInv
  BY DEF Init, KeyInv, OneLiveChargePerKey, Inserted, NoTxn, Live
<1>2. TypeOK /\ KeyInv /\ [Next]_vars => KeyInv'
  <2> SUFFICES ASSUME TypeOK, KeyInv, [Next]_vars PROVE KeyInv'
    OBVIOUS
  <2>1. CASE UNCHANGED vars
    BY <2>1 DEF vars, KeyInv, OneLiveChargePerKey, Inserted, LiveWithKey, Live
  <2>2. ASSUME NEW p \in Requests, PostInsert(p) PROVE KeyInv'
    <3>1. status' = status
      BY <2>2 DEF PostInsert, tables
    <3>2. CASE Finish(p)
      BY <3>1, <3>2, OtherStepsKeepKeys DEF Finish, NoTxn, Steps
    <3>3. CASE ~Finish(p)
      <4>1. PICK c \in txn[p].inserts :
              /\ Source[c] # NoKey => IndexFree(p, Source[c]) /\ LiveWithKey(Source[c]) = {}
              /\ Begin(p, "recompute", [txn[p] EXCEPT !.holds = {c}, !.approved = Approved])
        BY <2>2, <3>3 DEF PostInsert
      <4>2. /\ pc'[p] = "recompute" /\ txn'[p].inserts = txn[p].inserts
            /\ \A q \in Requests \ {p} : pc'[q] = pc[q] /\ txn'[q] = txn[q]
        BY <4>1 DEF Begin, TypeOK, TxnOK, NoTxn
      <4>3. Inserted(p)' = {c} /\ \A q \in Requests \ {p} : Inserted(q)' = Inserted(q)
        BY <4>1, <4>2 DEF Inserted, KeyInv
      <4>4. Live' = Live
        BY <3>1 DEF Live
      <4>5. Source[c] # NoKey => \A q \in Requests \ {p} : \A d \in Inserted(q) : Source[d] # Source[c]
        BY <4>1 DEF IndexFree, Inserted
      <4>6. \A q \in Requests : \A e \in Inserted(q)' : Source[e] # NoKey =>
              /\ LiveWithKey(Source[e])' = {}
              /\ \A r \in Requests \ {q} : \A d \in Inserted(r)' : Source[d] # Source[e]
        BY <4>1, <4>3, <4>4, <4>5 DEF KeyInv, LiveWithKey
      <4>7. OneLiveChargePerKey'
        BY <4>4 DEF KeyInv, OneLiveChargePerKey
      <4>8. QED
        BY <4>2, <4>6, <4>7 DEF KeyInv
    <3>4. QED
      BY <3>2, <3>3
  <2>3. ASSUME NEW p \in Requests, WriteCommit(p) PROVE KeyInv'
    <3>1. Live' \subseteq Live \cup Inserted(p)
      BY <2>3 DEF WriteCommit, Live, Inserted
    <3>2. /\ pc'[p] = "idle" /\ txn'[p] = NoTxn
          /\ \A q \in Requests \ {p} : pc'[q] = pc[q] /\ txn'[q] = txn[q]
      BY <2>3 DEF WriteCommit, Finish, Begin, TypeOK
    <3>3. OneLiveChargePerKey'
      <4> SUFFICES ASSUME NEW c \in Live', NEW d \in Live', Source[c] = Source[d], Source[c] # NoKey
                   PROVE  c = d
        BY DEF OneLiveChargePerKey
      <4>1. CASE c \in Live /\ d \in Live
        BY <4>1 DEF KeyInv, OneLiveChargePerKey
      <4>2. CASE c \in Inserted(p) /\ d \in Inserted(p)
        BY <4>2 DEF KeyInv, Inserted
      <4>3. CASE c \in Inserted(p) /\ d \in Live
        BY <4>3 DEF KeyInv, LiveWithKey
      <4>4. CASE d \in Inserted(p) /\ c \in Live
        BY <4>4 DEF KeyInv, LiveWithKey
      <4>5. QED
        BY <3>1, <4>1, <4>2, <4>3, <4>4
    <3>4. \A q \in Requests : Inserted(q)' = IF q = p THEN {} ELSE Inserted(q)
      BY <3>2 DEF Inserted
    <3>5. ASSUME NEW q \in Requests, NEW c \in Inserted(q)', Source[c] # NoKey
          PROVE  /\ LiveWithKey(Source[c])' = {}
                 /\ \A r \in Requests \ {q} : \A d \in Inserted(r)' : Source[d] # Source[c]
      <4>1. q # p /\ c \in Inserted(q)
        BY <3>4, <3>5
      <4>2. LiveWithKey(Source[c]) = {} /\ \A d \in Inserted(p) : Source[d] # Source[c]
        BY <3>5, <4>1 DEF KeyInv
      <4>3. QED
        BY <3>1, <3>4, <3>5, <4>1, <4>2 DEF KeyInv, LiveWithKey
    <3>6. /\ \A q \in Requests : \A c, d \in txn'[q].inserts : c = d
          /\ \A q \in Requests : pc'[q] \in {"cancel", "cancel_future"} => txn'[q].inserts = {}
      BY <3>2 DEF KeyInv, NoTxn
    <3>7. QED
      BY <3>3, <3>5, <3>6 DEF KeyInv
  <2>4. ASSUME NEW p \in Requests, NEW i \in DOMAIN receipts, CancelReceipt(p, i) PROVE KeyInv'
    BY <2>4 DEF CancelReceipt, KeyInv, OneLiveChargePerKey, Inserted, LiveWithKey, Live
  <2>5. ASSUME NEW p \in Requests, NEW k \in Concessions, Reject(p, k) PROVE KeyInv'
    BY <2>5 DEF Reject, KeyInv, OneLiveChargePerKey, Inserted, LiveWithKey, Live
  <2>6. ASSUME NEW p \in Requests, PostFind(p) PROVE KeyInv'
    <3>1. PICK c : Begin(p, "insert", [NoTxn EXCEPT !.student = Owner[c], !.inserts = {c}])
      BY <2>6 DEF PostFind
    <3>2. [NoTxn EXCEPT !.student = Owner[c], !.inserts = {c}].inserts = {c}
      BY DEF NoTxn
    <3>3. QED
      BY <2>6, <3>1, <3>2, OtherStepsKeepKeys DEF PostFind, tables, Steps
  <2>7. ASSUME NEW p \in Requests,
               CollectCommit(p) \/ RefundCommit(p) \/ Abort(p)
        PROVE  KeyInv'
    BY <2>7, OtherStepsKeepKeys DEF CollectCommit, RefundCommit, Abort, tables, Finish, NoTxn, Steps
  <2>8. ASSUME NEW p \in Requests, CollectLock(p) \/ RefundLock(p) \/ CollectNumber(p) PROVE KeyInv'
    <3>1. status' = status
      BY <2>8 DEF CollectLock, RefundLock, CollectNumber, tables
    <3>2. CASE Finish(p)
      BY <3>1, <3>2, OtherStepsKeepKeys DEF Finish, NoTxn, Steps
    <3>3. \A c, d \in txn[p].inserts : c = d
      BY DEF KeyInv
    <3> DEFINE quiet == Steps \ {"recompute", "write", "cancel", "cancel_future"}
    <3>9. {"number", "refunding", "numbered"} \subseteq quiet
      BY DEF Steps
    <3>10. ASSUME NEW step \in quiet, NEW fields, Begin(p, step, fields), fields.inserts = txn[p].inserts
           PROVE  KeyInv'
      BY <3>1, <3>3, <3>10, OtherStepsKeepKeys
    <3>4. CASE CollectLock(p) /\ ~Finish(p)
      <4>1. PICK a, b : Begin(p, "number", [txn[p] EXCEPT !.holds = txn[p].rows \cap Live, !.rows = {},
                                                          !.alloc = a, !.due = b])
        BY <3>4 DEF CollectLock
      <4> DEFINE f == [txn[p] EXCEPT !.holds = txn[p].rows \cap Live, !.rows = {}, !.alloc = a, !.due = b]
      <4>2. f.inserts = txn[p].inserts
        BY DEF TypeOK, TxnOK, NoTxn
      <4>3. QED
        BY <3>9, <3>10, <4>1, <4>2
    <3>5. CASE RefundLock(p) /\ ~Finish(p)
      <4>1. PICK a : Begin(p, "refunding", [txn[p] EXCEPT !.holds = txn[p].rows \cap Live, !.rows = {},
                                                          !.alloc = a])
        BY <3>5 DEF RefundLock
      <4> DEFINE f == [txn[p] EXCEPT !.holds = txn[p].rows \cap Live, !.rows = {}, !.alloc = a]
      <4>2. f.inserts = txn[p].inserts
        BY DEF TypeOK, TxnOK, NoTxn
      <4>3. QED
        BY <3>9, <3>10, <4>1, <4>2
    <3>6. CASE CollectNumber(p)
      <4> DEFINE f == [txn[p] EXCEPT !.number = counter[txn[p].year] + 1]
      <4>1. f.inserts = txn[p].inserts
        BY DEF TypeOK, TxnOK, NoTxn
      <4>2. QED
        BY <3>6, <3>9, <3>10, <4>1 DEF CollectNumber
    <3>7. QED
      BY <2>8, <3>2, <3>4, <3>5, <3>6
  <2>9. ASSUME NEW p \in Requests,
               \/ CollectBegin(p) \/ RefundBegin(p) \/ CancelBegin(p)
               \/ (\E k \in Concessions : Approve(p, k))
        PROVE  KeyInv'
    <3>1. PICK step, fields :
            /\ Begin(p, step, fields) /\ step \in Steps
            /\ fields.inserts = {} /\ status' = status
      <4>1. ASSUME NEW a, NEW b, NEW c, NEW d, NEW e
            PROVE  /\ [NoTxn EXCEPT !.student = a, !.year = b, !.rows = c, !.lines = d, !.asked = e].inserts = {}
                   /\ [NoTxn EXCEPT !.student = a, !.rows = b, !.lines = c].inserts = {}
                   /\ [NoTxn EXCEPT !.student = a, !.rows = b, !.cancels = c].inserts = {}
                   /\ [NoTxn EXCEPT !.student = a, !.approves = b, !.approved = c].inserts = {}
        BY DEF NoTxn
      <4>2. QED
        BY <2>9, <4>1 DEF CollectBegin, RefundBegin, CancelBegin, Approve, Steps, tables
    <3>2. QED
      BY <3>1, OtherStepsKeepKeys
  <2>10. ASSUME NEW p \in Requests, CancelLock(p) \/ RecomputeRead(p) PROVE KeyInv'
    <3>1. status' = status
      BY <2>10 DEF CancelLock, RecomputeRead, tables
    <3>2. CASE Finish(p)
      BY <3>1, <3>2, OtherStepsKeepKeys DEF Finish, NoTxn, Steps
    <3>3. \A c, d \in txn[p].inserts : c = d
      BY DEF KeyInv
    <3>4. txn[p].inserts \subseteq Inserted(p)
      BY <2>10 DEF CancelLock, RecomputeRead, Inserted, KeyInv
    <3>8. ASSUME NEW step \in {"recompute", "write"}, NEW fields, Begin(p, step, fields),
                 fields.inserts = txn[p].inserts
          PROVE  KeyInv'
      <4>1. step \in Steps /\ step \notin {"cancel", "cancel_future"}
        BY DEF Steps
      <4>2. QED
        BY <3>1, <3>3, <3>4, <3>8, <4>1, OtherStepsKeepKeys
    <3>5. CASE CancelLock(p) /\ ~Finish(p)
      <4>1. PICK step \in {"recompute", "write"} :
              Begin(p, step, [txn[p] EXCEPT !.holds = txn[p].rows \cap Live, !.rows = {},
                                !.cancels = txn[p].cancels \cap Live, !.approved = Approved])
        BY <3>5 DEF CancelLock
      <4> DEFINE f == [txn[p] EXCEPT !.holds = txn[p].rows \cap Live, !.rows = {},
                                !.cancels = txn[p].cancels \cap Live, !.approved = Approved]
      <4>2. f.inserts = txn[p].inserts
        BY DEF TypeOK, TxnOK, NoTxn
      <4>3. QED
        BY <3>8, <4>1, <4>2
    <3>6. CASE RecomputeRead(p)
      <4>1. PICK disc : Begin(p, "write", [txn[p] EXCEPT !.disc = disc])
        BY <3>6 DEF RecomputeRead
      <4> DEFINE f == [txn[p] EXCEPT !.disc = disc]
      <4>2. f.inserts = txn[p].inserts
        BY DEF TypeOK, TxnOK, NoTxn
      <4>3. QED
        BY <3>8, <4>1, <4>2
    <3>7. QED
      BY <2>10, <3>2, <3>5, <3>6
  <2>11. QED
    BY <2>1, <2>2, <2>3, <2>4, <2>5, <2>6, <2>7, <2>8, <2>9, <2>10 DEF Next, CollectStep, ReturnStep, BillingStep
<1>3. KeyInv => OneLiveChargePerKey
  BY DEF KeyInv
<1>4. QED
  BY <1>1, <1>2, <1>3, TypeCorrect, PTL DEF Spec
-----------------------------------------------------------------------------
(***************************************************************************)
(* What the sums of the ledger come to.                                    *)
(***************************************************************************)

\* The greater and the smaller of two numbers.
LEMMA OfTwo ==
  \A a, b \in Int :
    /\ Max({a, b}) = IF a >= b THEN a ELSE b
    /\ Min({a, b}) = IF a <= b THEN a ELSE b
<1> SUFFICES ASSUME NEW a \in Int, NEW b \in Int
             PROVE  /\ Max({a, b}) = IF a >= b THEN a ELSE b
                    /\ Min({a, b}) = IF a <= b THEN a ELSE b
  OBVIOUS
<1>1. \E x \in {a, b} : \A y \in {a, b} : x >= y
  OBVIOUS
<1>2. \E x \in {a, b} : \A y \in {a, b} : x <= y
  OBVIOUS
<1>3. QED
  BY <1>1, <1>2 DEF Max, Min

\* The receipts on record.
LEMMA ReceiptsOnRecord ==
  ASSUME TypeOK
  PROVE  /\ DOMAIN receipts = 1..Len(receipts) /\ Len(receipts) \in Nat
         /\ \A i \in DOMAIN receipts : receipts[i] \in Receipt
         /\ \A S \in SUBSET DOMAIN receipts : IsFiniteSet(S)
<1>1. DOMAIN receipts = 1..Len(receipts) /\ Len(receipts) \in Nat
  BY LenProperties DEF TypeOK
<1>2. \A i \in DOMAIN receipts : receipts[i] \in Receipt
  BY <1>1, ElementOfSeq DEF TypeOK
<1>3. IsFiniteSet(DOMAIN receipts)
  BY <1>1, FS_Interval
<1>4. QED
  BY <1>1, <1>2, <1>3, FS_Subset

\* What the receipts on record paid towards a charge.
LEMMA ReceivedIsNat ==
  ASSUME TypeOK, NEW c \in Charges
  PROVE  Received(c) \in Nat
<1> DEFINE paid == [i \in DOMAIN receipts |-> receipts[i].paid[c]]
           live == {i \in DOMAIN receipts : ~receipts[i].cancelled}
<1>2. IsFiniteSet(live)
  BY ReceiptsOnRecord
<1>3. AddsNat(paid, live)
  BY ReceiptsOnRecord DEF AddsNat, Receipt
<1>4. SumFunctionOnSet(paid, live) \in Nat
  BY <1>2, <1>3, SumIsNat
<1>5. QED
  BY <1>4 DEF Received

\* A receipt counts from the moment it is on record ...
LEMMA ReceivedAfterCommit ==
  ASSUME TypeOK, NEW r \in Receipt, ~r.cancelled, receipts' = Append(receipts, r), NEW c \in Charges
  PROVE  Received(c)' = Received(c) + r.paid[c]
<1> DEFINE paid == [i \in DOMAIN receipts |-> receipts[i].paid[c]]
           live == {i \in DOMAIN receipts : ~receipts[i].cancelled}
           paid2 == [i \in DOMAIN receipts' |-> receipts'[i].paid[c]]
           n == Len(receipts) + 1
<1>1. DOMAIN receipts = 1..Len(receipts) /\ Len(receipts) \in Nat
  BY ReceiptsOnRecord
<1>2. /\ DOMAIN receipts' = 1..n /\ receipts'[n] = r
      /\ \A i \in 1..Len(receipts) : receipts'[i] = receipts[i]
  BY AppendProperties DEF TypeOK
<1>3. {i \in DOMAIN receipts' : ~receipts'[i].cancelled} = live \cup {n}
  BY <1>1, <1>2
<1>4. IsFiniteSet(live) /\ n \notin live
  BY <1>1, ReceiptsOnRecord
<1>5. AddsInt(paid, live) /\ \A i \in live : paid[i] = paid2[i]
  BY <1>1, <1>2, ReceiptsOnRecord DEF AddsInt, Receipt
<1>6. AddsInt(paid2, live \cup {n}) /\ paid2[n] = r.paid[c]
  BY <1>1, <1>2, <1>5 DEF AddsInt, Receipt
<1> HIDE DEF paid, paid2, live, n
<1>7. SumFunctionOnSet(paid, live) = SumFunctionOnSet(paid2, live)
  BY <1>4, <1>5, SumEqual
<1>8. SumFunctionOnSet(paid2, live \cup {n}) = paid2[n] + SumFunctionOnSet(paid2, live)
  BY <1>4, <1>6, SumAdd
<1>9. SumFunctionOnSet(paid, live) \in Int /\ paid2[n] \in Int
  BY <1>4, <1>5, <1>6, SumIsInt DEF AddsInt
<1>10. Received(c) = SumFunctionOnSet(paid, live) /\ Received(c)' = SumFunctionOnSet(paid2, live \cup {n})
  BY <1>3 DEF Received, paid, paid2, live
<1>11. QED
  BY <1>6, <1>7, <1>8, <1>9, <1>10

\* ... and not any more once it is cancelled.
LEMMA ReceivedAfterCancel ==
  ASSUME TypeOK, TypeOK', NEW j \in DOMAIN receipts, receipts' = Marked(j), NEW c \in Charges
  PROVE  Received(c)' <= Received(c)
<1> DEFINE paid == [i \in DOMAIN receipts |-> receipts[i].paid[c]]
           live == {i \in DOMAIN receipts : ~receipts[i].cancelled}
           paid2 == [i \in DOMAIN receipts' |-> receipts'[i].paid[c]]
           live2 == {i \in DOMAIN receipts' : ~receipts'[i].cancelled}
<1>2. \A i \in DOMAIN receipts : receipts[i] \in Receipt
  BY ReceiptsOnRecord
<1>3. /\ DOMAIN receipts' = DOMAIN receipts
      /\ \A i \in DOMAIN receipts : receipts'[i].paid = receipts[i].paid
      /\ \A i \in DOMAIN receipts : ~receipts'[i].cancelled => ~receipts[i].cancelled
  BY <1>2 DEF Marked, Receipt
<1>4. paid2 = paid /\ live2 \in SUBSET live
  BY <1>3
<1>5. IsFiniteSet(live) /\ AddsNat(paid, live)
  BY <1>2, ReceiptsOnRecord DEF AddsNat, Receipt
<1>6. SumFunctionOnSet(paid, live2) <= SumFunctionOnSet(paid, live)
  <2> HIDE DEF paid, live, live2
  <2>1. QED
    BY <1>4, <1>5, SumOfPart
<1>7. QED
  BY <1>4, <1>6 DEF Received

\* The lines of a request.
LineSeq == Seq(Charges \X Nat)

\* What is allocated to a charge is what its line says.
LEMMA AllocationOfLines ==
  ASSUME NEW lines \in LineSeq, OncePerCharge(lines), NEW c \in Charges
  PROVE  /\ Allocation(lines)[c] \in Nat
         /\ Allocation(lines)[c] > 0 =>
              \E i \in DOMAIN lines : lines[i][1] = c /\ lines[i][2] = Allocation(lines)[c]
<1> DEFINE f == [i \in DOMAIN lines |-> lines[i][2]]
           on == {i \in DOMAIN lines : lines[i][1] = c}
<1>1. \A i \in DOMAIN lines : f[i] \in Nat
  BY ElementOfSeq, LenProperties DEF LineSeq
<1>2. Allocation(lines)[c] = SumFunctionOnSet(f, on)
  BY DEF Allocation, PerCharge
<1>3. CASE on = {}
  BY <1>2, <1>3, SumEmpty
<1>4. CASE on # {}
  <2>1. PICK i \in DOMAIN lines : on = {i} /\ lines[i][1] = c
    BY <1>4 DEF OncePerCharge
  <2>2. IsFiniteSet(on) /\ i \in on /\ on \ {i} = {}
    BY <2>1, FS_Singleton
  <2>6. AddsInt(f, on)
    BY <1>1 DEF AddsInt
  <2> HIDE DEF f, on
  <2>3. SumFunctionOnSet(f, on) = f[i] + SumFunctionOnSet(f, {})
    BY <2>2, <2>6, SumTakeOut
  <2>4. SumFunctionOnSet(f, on) = f[i]
    BY <1>1, <2>3, SumEmpty
  <2>5. QED
    BY <1>1, <1>2, <2>1, <2>4 DEF f
<1>5. QED
  BY <1>3, <1>4

\* What an amount without lines goes to: nothing is paid beyond what is due ...
LEMMA OldestFirstWithinDue ==
  ASSUME NEW a \in Nat, NEW R \in SUBSET Charges, NEW due \in [R -> Int], NEW c \in Charges
  PROVE  /\ OldestFirst(a, due)[c] \in Nat
         /\ OldestFirst(a, due)[c] > 0 => c \in R /\ OldestFirst(a, due)[c] <= due[c]
<1> DEFINE s == SumFunctionOnSet(due, Older(c, due))
<1>1. s \in Int
  <2>1. IsFiniteSet(Older(c, due)) /\ AddsInt(due, Older(c, due))
    BY ChargesAssumption, FS_Subset DEF Older, AddsInt
  <2>2. QED
    BY <2>1, SumIsInt
<1>2. OldestFirst(a, due)[c] = IF c \in R THEN Min({Max({0, due[c]}), Max({0, a - s})}) ELSE 0
  BY DEF OldestFirst
<1> HIDE DEF s
<1>3. CASE c \in R
  <2> DEFINE m == Max({0, due[c]})
             k == Max({0, a - s})
  <2>1. due[c] \in Int /\ a - s \in Int
    BY <1>1, <1>3
  <2>2. m \in Nat /\ m \in {0, due[c]} /\ k \in Nat
    BY <2>1, OfTwo
  <2>3. OldestFirst(a, due)[c] = Min({m, k})
    BY <1>2, <1>3
  <2> HIDE DEF m, k
  <2>4. OldestFirst(a, due)[c] \in {m, k} /\ OldestFirst(a, due)[c] <= m
    BY <2>2, <2>3, OfTwo
  <2>5. QED
    BY <1>3, <2>1, <2>2, <2>4
<1>4. QED
  BY <1>2, <1>3

\* ... and nothing goes to a charge while an older due is not covered.
LEMMA OldestFirstInOrder ==
  ASSUME NEW a \in Nat, NEW R \in SUBSET Charges, NEW due \in [R -> Int],
         NEW c \in R, NEW d \in R, c < d, due[c] > 0, OldestFirst(a, due)[d] > 0
  PROVE  OldestFirst(a, due)[c] = due[c]
<1> DEFINE s(x) == SumFunctionOnSet(due, Older(x, due))
<1>1. \A x \in R : /\ IsFiniteSet(Older(x, due)) /\ Older(x, due) \subseteq R
                   /\ AddsNat(due, Older(x, due)) /\ AddsInt(due, Older(x, due))
  <2>1. IsFiniteSet(R)
    BY ChargesAssumption, FS_Subset
  <2>2. \A x \in R : Older(x, due) \in SUBSET R /\ AddsNat(due, Older(x, due)) /\ AddsInt(due, Older(x, due))
    BY DEF Older, AddsInt, AddsNat
  <2>3. QED
    BY <2>1, <2>2, FS_Subset
<1>2. s(c) \in Nat /\ s(d) \in Nat
  BY <1>1, SumIsNat
<1>3. \A x \in R : OldestFirst(a, due)[x] = Min({Max({0, due[x]}), Max({0, a - s(x)})})
  BY DEF OldestFirst
<1>4. s(c) + due[c] <= s(d)
  <2> DEFINE u == Older(c, due) \cup {c}
  <2>1. u \in SUBSET Older(d, due) /\ c \notin Older(c, due)
    <3>1. R \subseteq Nat /\ DOMAIN due = R
      BY ChargesAssumption
    <3>2. c \in Older(d, due) /\ c \notin Older(c, due)
      BY <3>1 DEF Older
    <3>3. ASSUME NEW x \in Older(c, due) PROVE x \in Older(d, due)
      <4>1. x \in R /\ x < c /\ due[x] > 0
        BY <3>1 DEF Older
      <4>2. x < d
        BY <3>1, <4>1
      <4>3. QED
        BY <3>1, <4>1, <4>2 DEF Older
    <3>4. QED
      BY <3>2, <3>3
  <2>2. AddsInt(due, u)
    BY <1>1 DEF AddsInt
  <2>3. SumFunctionOnSet(due, u) = due[c] + s(c)
    BY <1>1, <2>1, <2>2, SumAdd
  <2>4. SumFunctionOnSet(due, u) <= s(d)
    <3> HIDE DEF u
    <3>1. QED
      BY <1>1, <2>1, SumOfPart
  <2>5. QED
    BY <1>2, <2>3, <2>4
<1> HIDE DEF s
<1>5. a - s(d) > 0
  <2> DEFINE m == Max({0, due[d]})
             k == Max({0, a - s(d)})
  <2>1. due[d] \in Int /\ a - s(d) \in Int
    BY <1>2
  <2>2. m \in Nat /\ k \in {0, a - s(d)} /\ k \in Nat
    BY <2>1, OfTwo
  <2>3. Min({m, k}) > 0
    BY <1>3
  <2> HIDE DEF m, k
  <2>5. m \in Int /\ k \in Int
    BY <2>2
  <2>6. Min({m, k}) = IF m <= k THEN m ELSE k
    BY <2>5, OfTwo
  <2>4. k > 0
    BY <2>2, <2>3, <2>6
  <2>7. QED
    BY <2>1, <2>2, <2>4
<1>6. Max({0, due[c]}) = due[c] /\ Max({0, a - s(c)}) >= due[c] /\ Max({0, a - s(c)}) \in Int
  <2>1. due[c] \in Int /\ a - s(c) \in Int
    BY <1>2
  <2>2. Max({0, due[c]}) \in {0, due[c]} /\ Max({0, due[c]}) >= due[c]
        /\ Max({0, a - s(c)}) \in {0, a - s(c)} /\ Max({0, a - s(c)}) >= a - s(c)
    BY <2>1, OfTwo
  <2>3. QED
    BY <1>2, <1>4, <1>5, <2>1, <2>2
<1>7. QED
  BY <1>3, <1>6, OfTwo

\* A discount takes off no more than is not yet received.
LEMMA DiscountWithinReceived ==
  ASSUME TypeOK, NEW c \in Charges, NEW s, NEW approved \in SUBSET Concessions,
         Received(c) <= Amount[c]
  PROVE  NewDiscount(c, s, approved) <= Amount[c] - Received(c)
<1> DEFINE f == [k \in Concessions |-> Reduction[k][c]]
           on == {k \in approved : Grantee[k] = s}
<1>1. IsFiniteSet(on) /\ AddsInt(f, on)
  BY ConcessionAssumption, FS_Subset DEF AddsInt
<1>2. Reductions(c, s, approved) \in Int
  <2>1. SumFunctionOnSet(f, on) \in Int
    BY <1>1, SumIsInt
  <2>2. QED
    BY <2>1 DEF Reductions
<1>3. Amount[c] - Received(c) \in Nat
  BY ReceivedIsNat, ChargesAssumption
<1>4. Max({0, Amount[c] - Received(c)}) = Amount[c] - Received(c)
  BY <1>3, OfTwo
<1> DEFINE r == Reductions(c, s, approved)
           m == Amount[c] - Received(c)
<1>5. NewDiscount(c, s, approved) = Min({r, m})
  BY <1>4 DEF NewDiscount
<1>6. r \in Int /\ m \in Nat
  BY <1>2, <1>3
<1> HIDE DEF r, m
<1>7. Min({r, m}) <= m
  BY <1>6, OfTwo
<1>8. QED
  BY <1>5, <1>7 DEF m
-----------------------------------------------------------------------------
(***************************************************************************)
(* The money.  While collections overlap, the row locks are what keeps a   *)
(* balance that was read true until the receipt commits: a transaction on  *)
(* its way to a receipt holds every charge it pays, no other transaction   *)
(* holds it, and what it will pay is still outstanding.  Every other       *)
(* request is alone, so what it read cannot change under it.               *)
(***************************************************************************)
Alone == \A p, q \in Requests : p # q /\ pc[p] \notin Collecting => pc[q] = "idle"
HoldsApart == \A p, q \in Requests : p # q => txn[p].holds \cap txn[q].holds = {}
LinesOnce(p) == txn[p].lines \in LineSeq /\ OncePerCharge(txn[p].lines)
RowsRead(p) ==
  /\ txn[p].rows = LiveOf(txn[p].student) /\ txn[p].holds = {}
  /\ txn[p].asked \in Nat
  /\ txn[p].asked = 0 => LinesOnce(p)
DuesReserved(p) ==
  /\ txn[p].alloc \in [Charges -> Nat]
  /\ \A c \in Charges : txn[p].alloc[c] > 0 =>
       c \in txn[p].holds /\ c \in Live /\ txn[p].alloc[c] <= Outstanding(c)
CollectInv ==
  /\ Alone /\ HoldsApart
  /\ \A p \in Requests :
       /\ pc[p] = "collect" => RowsRead(p)
       /\ pc[p] \in {"number", "numbered"} => DuesReserved(p)

OnlyLivePaid == \A c \in Charges \ Live : Received(c) = 0
Covered(c, d) == Amount[c] > 0 => d <= Amount[c] - Received(c)
ReadsHold(p) ==
  /\ pc[p] = "refund" => LinesOnce(p)
  /\ pc[p] = "refunding" =>
       \A c \in Charges : txn[p].alloc[c] > 0 => txn[p].alloc[c] <= Paid(c)
  /\ pc[p] \in {"insert", "cancel", "cancel_future", "recompute", "write"} =>
       \A c \in txn[p].cancels : Received(c) = 0
  /\ pc[p] \in {"cancel", "cancel_future"} => txn[p].inserts = {} /\ DOMAIN txn[p].disc = {}
  /\ pc[p] = "recompute" => txn[p].approved \subseteq Concessions
  /\ pc[p] = "write" =>
       /\ \A c \in DOMAIN txn[p].disc : c \in Charges /\ Amount[c] > 0 /\ Covered(c, txn[p].disc[c])
       /\ \A c \in txn[p].inserts \ DOMAIN txn[p].disc : Covered(c, discount[c])
MoneyInv ==
  /\ CollectInv /\ NoOverCollection /\ OnlyLivePaid
  /\ \A p \in Requests : ReadsHold(p)

\* Orderly requests are requests.
LEMMA OrderlyImpliesSpec == OrderlySpec => Spec
<1>1. OrderlyNext => Next
  BY DEF OrderlyNext, Next
<1>2. QED
  BY <1>1, PTL DEF OrderlySpec, Spec

\* A step of one request leaves the others where they are; a step of a
\* collection stays within a collection.
LEMMA OthersStay ==
  ASSUME TypeOK, NEW p \in Requests, CollectStep(p) \/ ReturnStep(p) \/ BillingStep(p) \/ Abort(p)
  PROVE  /\ \A q \in Requests \ {p} : pc'[q] = pc[q] /\ txn'[q] = txn[q]
         /\ CollectStep(p) \/ Abort(p) => pc'[p] \in Collecting
<1>1. ASSUME NEW step, NEW fields, Begin(p, step, fields)
      PROVE  /\ \A q \in Requests \ {p} : pc'[q] = pc[q] /\ txn'[q] = txn[q]
             /\ pc'[p] = step
  BY <1>1 DEF Begin, TypeOK
<1>2. CASE CollectStep(p) \/ Abort(p)
  <2>1. \E step \in Collecting : \E fields : Begin(p, step, fields)
    BY <1>2 DEF CollectStep, Abort, CollectBegin, CollectLock, CollectNumber, CollectCommit, Finish, Collecting
  <2>2. QED
    BY <1>1, <2>1
<1>3. CASE ReturnStep(p) \/ BillingStep(p)
  <2>1. (\E step, fields : Begin(p, step, fields)) \/ UNCHANGED <<pc, txn>>
    BY <1>3 DEF ReturnStep, BillingStep, RefundBegin, RefundLock, RefundCommit, CancelReceipt, PostFind,
      PostInsert, CancelBegin, CancelLock, Approve, Reject, RecomputeRead, WriteCommit, Finish
  <2>2. ~(CollectStep(p) \/ Abort(p)) \/ (CollectStep(p) \/ Abort(p))
    OBVIOUS
  <2>3. QED
    BY <1>1, <1>2, <2>1, <2>2
<1>4. QED
  BY <1>2, <1>3

\* Balances read from unchanged tables are unchanged.
LEMMA TablesStay ==
  ASSUME MoneyInv, UNCHANGED tables
  PROVE  /\ Live' = Live /\ \A s : LiveOf(s)' = LiveOf(s)
         /\ \A c : /\ Received(c)' = Received(c) /\ Paid(c)' = Paid(c)
                   /\ Outstanding(c)' = Outstanding(c)
         /\ NoOverCollection' /\ OnlyLivePaid'
<1>1. Live' = Live /\ \A s : LiveOf(s)' = LiveOf(s)
  BY DEF tables, Live, LiveOf
<1>2. \A c : Received(c)' = Received(c)
  BY DEF tables, Received
<1>3. \A c : Paid(c)' = Paid(c) /\ Outstanding(c)' = Outstanding(c)
  BY <1>2 DEF tables, Paid, Outstanding
<1>4. QED
  BY <1>1, <1>2, <1>3 DEF MoneyInv, NoOverCollection, OnlyLivePaid

\* A collection takes a step that writes nothing: what remains to show is that
\* it read the rows, or reserved the dues, itself.
LEMMA CollectingKeeps ==
  ASSUME TypeOK, MoneyInv, UNCHANGED tables, NEW p \in Requests,
         NEW step \in Collecting, NEW fields, Begin(p, step, fields),
         \A q \in Requests \ {p} : pc[q] \in Collecting,
         \A q \in Requests \ {p} : fields.holds \cap txn[q].holds = {},
         step = "collect" => RowsRead(p)',
         step \in {"number", "numbered"} => DuesReserved(p)'
  PROVE  MoneyInv'
<1>1. /\ pc'[p] = step /\ txn'[p] = fields
      /\ \A q \in Requests \ {p} : pc'[q] = pc[q] /\ txn'[q] = txn[q]
  BY DEF Begin, TypeOK
<1>2. \A q \in Requests : pc'[q] \in Collecting
  BY <1>1
<1>3. Alone' /\ HoldsApart'
  BY <1>1, <1>2 DEF MoneyInv, CollectInv, Alone, HoldsApart
<1>4. ASSUME NEW q \in Requests \ {p}
      PROVE  /\ pc'[q] = "collect" => RowsRead(q)'
             /\ pc'[q] \in {"number", "numbered"} => DuesReserved(q)'
  <2>1. RowsRead(q) => RowsRead(q)'
    BY <1>1, TablesStay DEF RowsRead, LinesOnce
  <2>2. DuesReserved(q) => DuesReserved(q)'
    BY <1>1, TablesStay DEF DuesReserved
  <2>3. QED
    BY <1>1, <2>1, <2>2 DEF MoneyInv, CollectInv
<1>5. \A q \in Requests : ReadsHold(q)'
  BY <1>2 DEF ReadsHold, Collecting
<1>6. QED
  BY <1>1, <1>3, <1>4, <1>5, TablesStay DEF MoneyInv, CollectInv

\* A request that is alone: what remains to show is what it read itself.
LEMMA AloneKeeps ==
  ASSUME TypeOK, NEW p \in Requests, \A q \in Requests \ {p} : pc[q] = "idle",
         \A q \in Requests \ {p} : pc'[q] = pc[q] /\ txn'[q] = txn[q],
         pc'[p] \notin {"collect", "number", "numbered"},
         NoOverCollection', OnlyLivePaid', ReadsHold(p)'
  PROVE  MoneyInv'
<1>1. \A q \in Requests \ {p} : pc'[q] = "idle" /\ txn'[q].holds = {}
  BY DEF TypeOK, NoTxn
<1>2. Alone' /\ HoldsApart'
  BY <1>1 DEF Alone, HoldsApart, Collecting
<1>3. \A q \in Requests \ {p} : ReadsHold(q)'
  BY <1>1 DEF ReadsHold
<1>4. QED
  BY <1>1, <1>2, <1>3 DEF MoneyInv, CollectInv

\* The balances are numbers.
LEMMA BalancesAreInt ==
  ASSUME TypeOK, NEW c \in Charges
  PROVE  Outstanding(c) \in Int /\ Paid(c) \in Int /\ Received(c) \in Nat
  BY ReceivedIsNat, ChargesAssumption DEF Outstanding, Paid, TypeOK

\* The lines a request may come with.
LEMMA LineSeqsAreLines == LineSeqs \subseteq LineSeq
<1> SUFFICES ASSUME NEW n \in 1..MaxLines, NEW ls \in [1..n -> Live \X Pays]
             PROVE  ls \in LineSeq
  BY DEF LineSeqs
<1>1. n \in Nat /\ Live \X Pays \subseteq Charges \X Nat
  <2>1. n \in Nat
    BY BoundAssumption
  <2>2. Live \subseteq Charges /\ Pays \subseteq Nat
    BY BoundAssumption DEF Live
  <2>3. QED
    BY <2>1, <2>2
<1>2. ls \in Seq(Live \X Pays)
  BY <1>1
<1>3. QED
  BY <1>1, <1>2, SeqMonotonic DEF LineSeq

\* The rows a collection will lock are all the live charges of the student ...
LEMMA CollectBeginKeeps ==
  ASSUME TypeOK, MoneyInv, NEW p \in Requests, CollectBegin(p), OncePerCharge(txn'[p].lines),
         \A q \in Requests \ {p} : pc[q] \in Collecting
  PROVE  MoneyInv'
<1>1. PICK s \in Students, y \in Years, ls \in LineSeqs \cup {<<>>}, a \in Pays \cup {0} :
        /\ (ls = <<>>) # (a = 0)
        /\ Begin(p, "collect", [NoTxn EXCEPT !.student = s, !.year = y, !.rows = LiveOf(s),
                                             !.lines = ls, !.asked = a])
  BY DEF CollectBegin
<1> DEFINE f == [NoTxn EXCEPT !.student = s, !.year = y, !.rows = LiveOf(s), !.lines = ls, !.asked = a]
<1>2. /\ f.student = s /\ f.rows = LiveOf(s) /\ f.lines = ls /\ f.asked = a /\ f.holds = {}
  BY DEF NoTxn
<1>3. txn'[p] = f
  BY <1>1 DEF Begin, TypeOK
<1>4. a \in Nat /\ (a = 0 => ls \in LineSeq)
  BY <1>1, LineSeqsAreLines, BoundAssumption
<1>5. RowsRead(p)'
  <2>1. LiveOf(s)' = LiveOf(s)
    BY DEF CollectBegin, tables, LiveOf, Live
  <2> HIDE DEF f
  <2>2. QED
    BY <1>2, <1>3, <1>4, <2>1 DEF RowsRead, LinesOnce
<1> HIDE DEF f
<1>6. Begin(p, "collect", f) /\ UNCHANGED tables
  BY <1>1 DEF CollectBegin, f
<1>7. QED
  BY <1>2, <1>5, <1>6, CollectingKeeps DEF Collecting

\* ... so the balances it reads are of charges it holds, ...
LEMMA CollectLockKeeps ==
  ASSUME TypeOK, MoneyInv, NEW p \in Requests, CollectLock(p),
         \A q \in Requests \ {p} : pc[q] \in Collecting
  PROVE  MoneyInv'
<1> DEFINE t == txn[p]
           R == LiveOf(t.student)
           due == [c \in R |-> Outstanding(c)]
           alloc == IF t.asked > 0 THEN OldestFirst(t.asked, due) ELSE Allocation(t.lines)
           f == [t EXCEPT !.holds = R, !.rows = {}, !.alloc = alloc, !.due = due]
<1>1. UNCHANGED tables /\ pc[p] = "collect" /\ RowsRead(p) /\ R \in SUBSET Charges /\ R \subseteq Live
  BY DEF CollectLock, MoneyInv, CollectInv, LiveOf, Live
<1>2. t.rows \cap Live = R
  BY <1>1 DEF RowsRead
<1>3. CASE Finish(p)
  BY <1>1, <1>3, CollectingKeeps DEF Finish, NoTxn, Collecting
<1>4. CASE ~Finish(p)
  <2>1. /\ Begin(p, "number", f) /\ Free(p, R)
        /\ t.asked > 0 \/ LinesAcceptable(t.lines, due)
    BY <1>2, <1>4 DEF CollectLock
  <2>2. due \in [R -> Int]
    BY <1>1, BalancesAreInt
  <2>3. ASSUME NEW c \in Charges
        PROVE  /\ alloc[c] \in Nat
               /\ alloc[c] > 0 => c \in R /\ alloc[c] <= Outstanding(c)
    <3>1. CASE t.asked > 0
      <4>1. t.asked \in Nat /\ alloc = OldestFirst(t.asked, due)
        BY <1>1, <3>1 DEF RowsRead
      <4>2. /\ alloc[c] \in Nat
            /\ alloc[c] > 0 => c \in R /\ alloc[c] <= due[c]
        <5> HIDE DEF due, alloc, R, t
        <5>1. QED
          BY <1>1, <2>2, <4>1, OldestFirstWithinDue
      <4>3. QED
        BY <4>2
    <3>2. CASE ~(t.asked > 0)
      <4>1. LinesOnce(p) /\ alloc = Allocation(t.lines)
        BY <1>1, <3>2 DEF RowsRead
      <4>2. /\ alloc[c] \in Nat
            /\ alloc[c] > 0 => \E i \in DOMAIN t.lines : t.lines[i][1] = c /\ t.lines[i][2] = alloc[c]
        BY <4>1, AllocationOfLines DEF LinesOnce
      <4>3. \A i \in DOMAIN t.lines : t.lines[i][1] \in R /\ t.lines[i][2] <= Outstanding(t.lines[i][1])
        BY <2>1, <3>2 DEF LinesAcceptable
      <4> HIDE DEF alloc, R, t
      <4>4. QED
        BY <4>2, <4>3
    <3>3. QED
      BY <3>1, <3>2
  <2>4. alloc \in [Charges -> Nat]
    <3>1. alloc = [c \in Charges |-> alloc[c]]
      BY DEF OldestFirst, Allocation
    <3> HIDE DEF alloc
    <3>2. QED
      BY <2>3, <3>1
  <2>5. f.holds = R /\ f.alloc = alloc
    <3> HIDE DEF alloc, R, due
    <3>1. QED
      BY DEF TypeOK, TxnOK, NoTxn
  <2>6. txn'[p] = f
    BY <2>1 DEF Begin, TypeOK
  <2> HIDE DEF f
  <2>7. DuesReserved(p)'
    <3> HIDE DEF alloc, R, due
    <3>1. QED
      BY <1>1, <2>3, <2>4, <2>5, <2>6, TablesStay DEF DuesReserved
  <2>8. \A q \in Requests \ {p} : f.holds \cap txn[q].holds = {}
    BY <2>1, <2>5 DEF Free
  <2>9. QED
    BY <1>1, <2>1, <2>7, <2>8, CollectingKeeps DEF Collecting
<1>5. QED
  BY <1>3, <1>4

\* ... and stay so until it commits, or gives up.
LEMMA CollectNumberKeeps ==
  ASSUME TypeOK, MoneyInv, NEW p \in Requests, CollectNumber(p),
         \A q \in Requests \ {p} : pc[q] \in Collecting
  PROVE  MoneyInv'
<1> DEFINE f == [txn[p] EXCEPT !.number = counter[txn[p].year] + 1]
<1>1. UNCHANGED tables /\ Begin(p, "numbered", f) /\ DuesReserved(p)
  BY DEF CollectNumber, MoneyInv, CollectInv
<1>2. f.holds = txn[p].holds /\ f.alloc = txn[p].alloc
  BY DEF TypeOK, TxnOK, NoTxn
<1>3. txn'[p] = f
  BY <1>1 DEF Begin, TypeOK
<1> HIDE DEF f
<1>4. DuesReserved(p)'
  BY <1>1, <1>2, <1>3, TablesStay DEF DuesReserved
<1>5. \A q \in Requests \ {p} : f.holds \cap txn[q].holds = {}
  BY <1>2 DEF MoneyInv, CollectInv, HoldsApart
<1>6. QED
  BY <1>1, <1>4, <1>5, CollectingKeeps DEF Collecting

\* A request that fails lets go of what it had reserved.
LEMMA AbortKeeps ==
  ASSUME TypeOK, MoneyInv, NEW p \in Requests, Abort(p),
         \A q \in Requests \ {p} : pc[q] \in Collecting
  PROVE  MoneyInv'
  BY CollectingKeeps DEF Abort, Finish, NoTxn, Collecting

\* The receipt commits: what it pays was reserved, so no charge is paid beyond
\* what it asks for, and what the others reserved is still outstanding.
LEMMA CollectCommitKeeps ==
  ASSUME TypeOK, MoneyInv, NEW p \in Requests, CollectCommit(p),
         \A q \in Requests \ {p} : pc[q] \in Collecting
  PROVE  MoneyInv'
<1> DEFINE t == txn[p]
           r == [year |-> t.year, number |-> t.number, student |-> t.student,
                 paid |-> t.alloc, cancelled |-> FALSE]
<1>1. /\ receipts' = Append(receipts, r) /\ r \in Receipt /\ ~r.cancelled /\ r.paid = t.alloc
      /\ status' = status /\ discount' = discount /\ refunded' = refunded
  BY DEF CollectCommit, TypeOK, TxnOK, Receipt
<1>2. DuesReserved(p)
  BY DEF CollectCommit, MoneyInv, CollectInv
<1>3. \A c \in Charges : Received(c)' = Received(c) + t.alloc[c] /\ t.alloc[c] \in Nat
  <2> HIDE DEF r, t
  <2>1. QED
    BY <1>1, <1>2, ReceivedAfterCommit DEF DuesReserved, t
<1>4. ASSUME NEW c \in Charges PROVE Outstanding(c)' = Outstanding(c) - t.alloc[c] /\ Outstanding(c) \in Int
  <2>1. Received(c) \in Nat /\ Outstanding(c) \in Int
    BY BalancesAreInt
  <2>2. Amount[c] \in Int /\ discount[c] \in Nat /\ discount'[c] = discount[c]
    BY <1>1, ChargesAssumption DEF TypeOK
  <2>3. Outstanding(c)' = Amount[c] - discount[c] - (Received(c) + t.alloc[c])
    BY <1>3, <2>2 DEF Outstanding
  <2>4. QED
    BY <1>3, <2>1, <2>2, <2>3 DEF Outstanding
<1>5. Live' = Live /\ \A s : LiveOf(s)' = LiveOf(s)
  BY <1>1 DEF Live, LiveOf
<1>6. NoOverCollection'
  BY <1>2, <1>3, <1>4, <1>5 DEF MoneyInv, NoOverCollection, DuesReserved, Live
<1>7. OnlyLivePaid'
  BY <1>2, <1>3, <1>5 DEF MoneyInv, OnlyLivePaid, DuesReserved
<1>8. /\ pc'[p] = "idle" /\ txn'[p].holds = {}
      /\ \A q \in Requests \ {p} : pc'[q] = pc[q] /\ txn'[q] = txn[q]
  BY DEF CollectCommit, Finish, Begin, TypeOK, NoTxn
<1>9. \A q \in Requests : pc'[q] \in Collecting
  BY <1>8 DEF Collecting
<1>10. Alone' /\ HoldsApart'
  BY <1>8, <1>9 DEF MoneyInv, CollectInv, Alone, HoldsApart
<1>11. ASSUME NEW q \in Requests \ {p}, DuesReserved(q) PROVE DuesReserved(q)'
  <2>1. \A c \in Charges : txn[q].alloc[c] > 0 => t.alloc[c] = 0
    BY <1>2, <1>3, <1>11 DEF DuesReserved, MoneyInv, CollectInv, HoldsApart
  <2>2. \A c \in Charges : txn[q].alloc[c] > 0 => Outstanding(c)' = Outstanding(c)
    BY <1>4, <2>1
  <2>3. QED
    BY <1>5, <1>8, <1>11, <2>2 DEF DuesReserved
<1>12. \A q \in Requests \ {p} : RowsRead(q) => RowsRead(q)'
  BY <1>5, <1>8 DEF RowsRead, LinesOnce
<1>13. \A q \in Requests : ReadsHold(q)'
  BY <1>9 DEF ReadsHold, Collecting
<1>14. QED
  BY <1>6, <1>7, <1>8, <1>10, <1>11, <1>12, <1>13 DEF MoneyInv, CollectInv

\* A request that is alone takes a step that writes nothing.
LEMMA AloneReads ==
  ASSUME TypeOK, MoneyInv, UNCHANGED tables, NEW p \in Requests,
         NEW step, step \notin {"collect", "number", "numbered"}, NEW fields, Begin(p, step, fields),
         \A q \in Requests \ {p} : pc[q] = "idle", ReadsHold(p)'
  PROVE  MoneyInv'
<1>1. /\ pc'[p] = step /\ \A q \in Requests \ {p} : pc'[q] = pc[q] /\ txn'[q] = txn[q]
  BY DEF Begin, TypeOK
<1>2. NoOverCollection' /\ OnlyLivePaid'
  BY TablesStay
<1>3. QED
  BY <1>1, <1>2, AloneKeeps

\* ... or gives up.
LEMMA AloneFinishes ==
  ASSUME TypeOK, MoneyInv, UNCHANGED tables, NEW p \in Requests, Finish(p),
         \A q \in Requests \ {p} : pc[q] = "idle"
  PROVE  MoneyInv'
<1>1. pc'[p] = "idle"
  BY DEF Finish, Begin, TypeOK
<1>2. ReadsHold(p)'
  BY <1>1 DEF ReadsHold
<1>3. QED
  BY <1>2, AloneReads DEF Finish

\* A refund is at most what was paid when its locks were granted.
LEMMA RefundKeeps ==
  ASSUME TypeOK, MoneyInv, NEW p \in Requests,
         RefundBegin(p) \/ RefundLock(p), OncePerCharge(txn'[p].lines),
         \A q \in Requests \ {p} : pc[q] = "idle"
  PROVE  MoneyInv'
<1>1. UNCHANGED tables
  BY DEF RefundBegin, RefundLock
<1>2. CASE RefundBegin(p)
  <2>1. PICK s \in Students, ls \in LineSeqs :
          Begin(p, "refund", [NoTxn EXCEPT !.student = s, !.rows = LiveOf(s), !.lines = ls])
    BY <1>2 DEF RefundBegin
  <2> DEFINE f == [NoTxn EXCEPT !.student = s, !.rows = LiveOf(s), !.lines = ls]
  <2>2. pc'[p] = "refund" /\ txn'[p] = f /\ f.lines = ls /\ ls \in LineSeq
    BY <2>1, LineSeqsAreLines DEF Begin, TypeOK, NoTxn
  <2>3. ReadsHold(p)'
    BY <2>2 DEF ReadsHold, LinesOnce
  <2>4. QED
    BY <1>1, <2>1, <2>3, AloneReads
<1>3. CASE RefundLock(p) /\ ~Finish(p)
  <2> DEFINE t == txn[p]
             paid == [c \in LiveOf(t.student) |-> Paid(c)]
             f == [t EXCEPT !.holds = t.rows \cap Live, !.rows = {}, !.alloc = Allocation(t.lines)]
  <2>1. Begin(p, "refunding", f) /\ LinesAcceptable(t.lines, paid) /\ LinesOnce(p)
    BY <1>3 DEF RefundLock, MoneyInv, ReadsHold
  <2>2. ASSUME NEW c \in Charges, Allocation(t.lines)[c] > 0
        PROVE  Allocation(t.lines)[c] <= Paid(c)
    <3>1. \E i \in DOMAIN t.lines : t.lines[i][1] = c /\ t.lines[i][2] = Allocation(t.lines)[c]
      BY <2>1, <2>2, AllocationOfLines DEF LinesOnce
    <3>2. \A i \in DOMAIN t.lines : t.lines[i][2] <= Paid(t.lines[i][1])
      BY <2>1 DEF LinesAcceptable
    <3>3. QED
      BY <3>1, <3>2
  <2>3. pc'[p] = "refunding" /\ txn'[p] = f
    BY <2>1 DEF Begin, TypeOK
  <2>4. f.alloc = Allocation(t.lines)
    BY DEF TypeOK, TxnOK, NoTxn
  <2> HIDE DEF f
  <2>5. txn'[p].alloc = Allocation(t.lines) /\ \A c : Paid(c)' = Paid(c)
    BY <1>1, <2>3, <2>4, TablesStay
  <2>6. ReadsHold(p)'
    BY <2>2, <2>3, <2>5 DEF ReadsHold
  <2>7. QED
    BY <1>1, <2>1, <2>6, AloneReads
<1>4. QED
  BY <1>1, <1>2, <1>3, AloneFinishes

\* The same of every charge, to be used of the next state.
LEMMA AllReceivedAreNat == TypeOK => \A c \in Charges : Received(c) \in Nat
  BY ReceivedIsNat

\* Money given back only lowers what was received.
LEMMA MoneyBackKeeps ==
  ASSUME TypeOK, TypeOK', MoneyInv, NEW p \in Requests,
         RefundCommit(p) \/ (\E i \in DOMAIN receipts : CancelReceipt(p, i)),
         \A q \in Requests \ {p} : pc[q] = "idle"
  PROVE  MoneyInv'
<1>1. /\ pc'[p] = "idle" /\ \A q \in Requests \ {p} : pc'[q] = pc[q] /\ txn'[q] = txn[q]
      /\ status' = status /\ discount' = discount
  BY DEF RefundCommit, CancelReceipt, Finish, Begin, TypeOK
<1>2. \A c \in Charges : Received(c)' <= Received(c) /\ Received(c)' \in Nat /\ Received(c) \in Nat
  <2>1. (\A c \in Charges : Received(c) \in Nat)'
    BY AllReceivedAreNat, PTL
  <2>2. \A c \in Charges : Received(c) \in Nat
    BY ReceivedIsNat
  <2>3. CASE RefundCommit(p)
    <3>1. receipts' = receipts
      BY <2>3 DEF RefundCommit
    <3>2. QED
      BY <2>1, <2>2, <3>1 DEF Received
  <2>4. CASE \E i \in DOMAIN receipts : CancelReceipt(p, i)
    BY <2>1, <2>2, <2>4, ReceivedAfterCancel DEF CancelReceipt
  <2>5. QED
    BY <2>3, <2>4
<1>3. Live' = Live
  BY <1>1 DEF Live
<1>4. NoOverCollection'
  BY <1>1, <1>2, <1>3, BalancesAreInt, ChargesAssumption
  DEF MoneyInv, NoOverCollection, Outstanding, Live, TypeOK
<1>5. OnlyLivePaid'
  BY <1>2, <1>3 DEF MoneyInv, OnlyLivePaid
<1>6. ReadsHold(p)'
  BY <1>1 DEF ReadsHold
<1>7. QED
  BY <1>1, <1>4, <1>5, <1>6, AloneKeeps

\* Only charges that received nothing are on their way out.
LEMMA CancellingKeeps ==
  ASSUME TypeOK, MoneyInv, NEW p \in Requests, CancelBegin(p) \/ CancelLock(p),
         \A q \in Requests \ {p} : pc[q] = "idle"
  PROVE  MoneyInv'
<1>1. UNCHANGED tables
  BY DEF CancelBegin, CancelLock
<1>2. CASE CancelBegin(p)
  <2>1. PICK step, s, rows, doomed :
          /\ step \in {"cancel", "cancel_future"} /\ \A c \in doomed : Received(c) = 0
          /\ Begin(p, step, [NoTxn EXCEPT !.student = s, !.rows = rows, !.cancels = doomed])
    BY <1>2 DEF CancelBegin, Unpaid
  <2> DEFINE f == [NoTxn EXCEPT !.student = s, !.rows = rows, !.cancels = doomed]
  <2>2. pc'[p] = step /\ txn'[p] = f
    BY <2>1 DEF Begin, TypeOK
  <2>3. f.cancels = doomed /\ f.inserts = {} /\ DOMAIN f.disc = {}
    BY DEF NoTxn
  <2> HIDE DEF f
  <2>4. ReadsHold(p)'
    BY <1>1, <2>1, <2>2, <2>3, TablesStay DEF ReadsHold
  <2>5. QED
    BY <1>1, <2>1, <2>4, AloneReads DEF f
<1>3. CASE CancelLock(p) /\ ~Finish(p)
  <2> DEFINE t == txn[p]
             f == [t EXCEPT !.holds = t.rows \cap Live, !.rows = {}, !.cancels = t.cancels \cap Live,
                            !.approved = Approved]
  <2>1. PICK step \in {"recompute", "write"} : Begin(p, step, f)
    BY <1>3 DEF CancelLock
  <2>2. /\ \A c \in t.cancels : Received(c) = 0
        /\ t.inserts = {} /\ DOMAIN t.disc = {}
    BY <1>3 DEF CancelLock, MoneyInv, ReadsHold
  <2>3. pc'[p] = step /\ txn'[p] = f
    BY <2>1 DEF Begin, TypeOK
  <2>4. /\ f.cancels = t.cancels \cap Live /\ f.inserts = t.inserts /\ f.disc = t.disc
        /\ f.approved = Approved /\ Approved \subseteq Concessions
    BY DEF TypeOK, TxnOK, NoTxn, Approved
  <2> HIDE DEF f
  <2>5. ReadsHold(p)'
    BY <1>1, <2>1, <2>2, <2>3, <2>4, TablesStay DEF ReadsHold
  <2>6. QED
    BY <1>1, <2>1, <2>5, AloneReads
<1>4. QED
  BY <1>1, <1>2, <1>3, AloneFinishes DEF CancelLock

\* Charges and decisions on their way to new discounts.
LEMMA PostingKeeps ==
  ASSUME TypeOK, MoneyInv, NEW p \in Requests,
         PostFind(p) \/ PostInsert(p) \/ (\E k \in Concessions : Approve(p, k) \/ Reject(p, k)),
         \A q \in Requests \ {p} : pc[q] = "idle"
  PROVE  MoneyInv'
<1>1. CASE PostFind(p)
  <2>1. PICK c : Begin(p, "insert", [NoTxn EXCEPT !.student = Owner[c], !.inserts = {c}])
    BY <1>1 DEF PostFind
  <2> DEFINE f == [NoTxn EXCEPT !.student = Owner[c], !.inserts = {c}]
  <2>2. pc'[p] = "insert" /\ txn'[p] = f /\ f.cancels = {}
    BY <2>1 DEF Begin, TypeOK, NoTxn
  <2>3. ReadsHold(p)'
    BY <2>2 DEF ReadsHold
  <2>4. QED
    BY <1>1, <2>1, <2>3, AloneReads DEF PostFind
<1>2. CASE PostInsert(p)
  <2>1. CASE Finish(p)
    BY <1>2, <2>1, AloneFinishes DEF PostInsert
  <2>2. CASE ~Finish(p)
    <3>1. PICK c : Begin(p, "recompute", [txn[p] EXCEPT !.holds = {c}, !.approved = Approved])
      BY <1>2, <2>2 DEF PostInsert
    <3> DEFINE f == [txn[p] EXCEPT !.holds = {c}, !.approved = Approved]
    <3>2. pc'[p] = "recompute" /\ txn'[p] = f /\ UNCHANGED tables
      BY <1>2, <3>1 DEF Begin, TypeOK, PostInsert
    <3>3. f.cancels = txn[p].cancels /\ f.approved = Approved /\ Approved \subseteq Concessions
      BY DEF TypeOK, TxnOK, NoTxn, Approved
    <3>4. \A c2 \in txn[p].cancels : Received(c2) = 0
      BY <1>2 DEF PostInsert, MoneyInv, ReadsHold
    <3> HIDE DEF f
    <3>5. ReadsHold(p)'
      BY <3>2, <3>3, <3>4, TablesStay DEF ReadsHold
    <3>6. QED
      BY <3>1, <3>2, <3>5, AloneReads DEF f
  <2>3. QED
    BY <2>1, <2>2
<1>3. ASSUME NEW k \in Concessions, Approve(p, k) PROVE MoneyInv'
  <2> DEFINE f == [NoTxn EXCEPT !.student = Grantee[k], !.approves = {k}, !.approved = Approved \cup {k}]
  <2>1. Begin(p, "recompute", f) /\ UNCHANGED tables
    BY <1>3 DEF Approve
  <2>2. pc'[p] = "recompute" /\ txn'[p] = f
    BY <2>1 DEF Begin, TypeOK
  <2>3. f.cancels = {} /\ f.approved \subseteq Concessions
    BY DEF NoTxn, Approved
  <2> HIDE DEF f
  <2>4. ReadsHold(p)'
    BY <2>2, <2>3 DEF ReadsHold
  <2>5. QED
    BY <2>1, <2>4, AloneReads
<1>4. ASSUME NEW k \in Concessions, Reject(p, k) PROVE MoneyInv'
  <2>1. /\ UNCHANGED <<pc, txn, status, discount, receipts>> /\ pc[p] = "idle"
    BY <1>4 DEF Reject
  <2>2. NoOverCollection' /\ OnlyLivePaid'
    BY <2>1 DEF MoneyInv, NoOverCollection, OnlyLivePaid, Outstanding, Received, Live
  <2>3. ReadsHold(p)'
    BY <2>1 DEF ReadsHold
  <2>4. QED
    BY <2>1, <2>2, <2>3, AloneKeeps
<1>5. QED
  BY <1>1, <1>2, <1>3, <1>4

\* The new discounts leave every charge within what it asks for.
LEMMA RecomputeKeeps ==
  ASSUME TypeOK, MoneyInv, NEW p \in Requests, RecomputeRead(p),
         \A q \in Requests \ {p} : pc[q] = "idle"
  PROVE  MoneyInv'
<1> DEFINE t == txn[p]
           mine == (LiveOf(t.student) \ t.cancels) \cup t.inserts
           owed == {d \in mine : Amount[d] > 0}
           new == [c \in owed |-> NewDiscount(c, t.student, t.approved)]
           disc == [c \in {d \in owed : new[d] # discount[d]} |-> new[c]]
           f == [t EXCEPT !.disc = disc]
<1>1. UNCHANGED tables /\ pc[p] = "recompute" /\ Begin(p, "write", f)
  BY DEF RecomputeRead
<1>2. /\ \A c \in t.cancels : Received(c) = 0
      /\ t.approved \in SUBSET Concessions
  BY <1>1 DEF MoneyInv, ReadsHold
<1>3. mine \subseteq Charges
  BY DEF TypeOK, TxnOK, LiveOf, Live
<1>4. ASSUME NEW c \in Charges, Amount[c] > 0 PROVE Received(c) <= Amount[c]
  <2>1. Received(c) \in Nat /\ Amount[c] \in Int /\ discount[c] \in Nat
    BY ReceivedIsNat, ChargesAssumption DEF TypeOK
  <2>2. CASE c \in Live
    BY <1>4, <2>1, <2>2 DEF MoneyInv, NoOverCollection, Outstanding
  <2>3. CASE c \notin Live
    BY <1>4, <2>1, <2>3 DEF MoneyInv, OnlyLivePaid
  <2>4. QED
    BY <2>2, <2>3
<1>5. \A c \in owed : new[c] <= Amount[c] - Received(c)
  <2> SUFFICES ASSUME NEW c \in owed PROVE NewDiscount(c, t.student, t.approved) <= Amount[c] - Received(c)
    OBVIOUS
  <2>1. c \in Charges /\ Amount[c] > 0
    BY <1>3
  <2> HIDE DEF mine, owed, new, t
  <2>2. QED
    BY <1>2, <1>4, <2>1, DiscountWithinReceived
<1>6. /\ DOMAIN disc \subseteq owed /\ \A c \in DOMAIN disc : disc[c] = new[c]
      /\ \A c \in owed \ DOMAIN disc : discount[c] = new[c]
  OBVIOUS
<1>7. pc'[p] = "write" /\ txn'[p] = f
  BY <1>1 DEF Begin, TypeOK
<1>8. f.disc = disc /\ f.cancels = t.cancels /\ f.inserts = t.inserts
  <2> HIDE DEF disc
  <2>1. QED
    BY DEF TypeOK, TxnOK, NoTxn
<1>9. /\ \A c \in t.inserts : Amount[c] > 0 => c \in owed
      /\ \A c \in owed : c \in Charges /\ Amount[c] > 0
  BY <1>3
<1> HIDE DEF f, disc, new, owed, mine
<1>10. /\ \A c \in DOMAIN disc : c \in Charges /\ Amount[c] > 0 /\ Covered(c, disc[c])
       /\ \A c \in t.inserts \ DOMAIN disc : Covered(c, discount[c])
  BY <1>5, <1>6, <1>9 DEF Covered
<1>11. \A c, d : Covered(c, d)' <=> Covered(c, d)
  BY <1>1, TablesStay DEF Covered
<1>12. discount' = discount
  BY <1>1 DEF tables
<1>13. ReadsHold(p)'
  BY <1>1, <1>2, <1>7, <1>8, <1>10, <1>11, <1>12, TablesStay DEF ReadsHold
<1>14. QED
  BY <1>1, <1>13, AloneReads

\* The writes appear: the discounts computed are within what is not received.
LEMMA WriteKeeps ==
  ASSUME TypeOK, MoneyInv, NEW p \in Requests, WriteCommit(p),
         \A q \in Requests \ {p} : pc[q] = "idle"
  PROVE  MoneyInv'
<1> DEFINE t == txn[p]
<1>1. /\ pc[p] = "write" /\ pc'[p] = "idle"
      /\ \A q \in Requests \ {p} : pc'[q] = pc[q] /\ txn'[q] = txn[q]
      /\ receipts' = receipts
  BY DEF WriteCommit, Finish, Begin, TypeOK
<1>2. /\ \A c \in t.cancels : Received(c) = 0
      /\ \A c \in DOMAIN t.disc : Covered(c, t.disc[c])
      /\ \A c \in t.inserts \ DOMAIN t.disc : Covered(c, discount[c])
  BY <1>1 DEF MoneyInv, ReadsHold
<1>3. \A c \in Charges : /\ Received(c)' = Received(c) /\ Received(c) \in Nat
                         /\ Amount[c] \in Int /\ discount[c] \in Nat
  BY <1>1, ReceivedIsNat, ChargesAssumption DEF Received, TypeOK
<1>4. \A c \in Charges : /\ c \in Live' => c \in (Live \ t.cancels) \cup t.inserts
                         /\ c \notin Live' => c \notin Live \/ c \in t.cancels
                         /\ discount'[c] = IF c \in DOMAIN t.disc THEN t.disc[c] ELSE discount[c]
                         /\ c \in DOMAIN t.disc => t.disc[c] \in Nat
  BY DEF WriteCommit, Live
<1>5. OnlyLivePaid'
  BY <1>2, <1>3, <1>4 DEF MoneyInv, OnlyLivePaid
<1>6. NoOverCollection'
  <2> SUFFICES ASSUME NEW c \in Live', Amount[c] > 0 PROVE Outstanding(c)' >= 0
    BY DEF NoOverCollection
  <2>1. c \in Charges
    BY DEF Live
  <2>2. Outstanding(c)' = Amount[c] - discount'[c] - Received(c)
    BY <1>3, <2>1 DEF Outstanding
  <2>3. CASE c \in DOMAIN t.disc
    BY <1>2, <1>3, <1>4, <2>1, <2>2, <2>3 DEF Covered
  <2>4. CASE c \notin DOMAIN t.disc /\ c \in Live
    BY <1>3, <1>4, <2>1, <2>2, <2>4 DEF MoneyInv, NoOverCollection, Outstanding
  <2>5. CASE c \notin DOMAIN t.disc /\ c \in t.inserts
    BY <1>2, <1>3, <1>4, <2>1, <2>2, <2>5 DEF Covered
  <2>6. QED
    BY <1>4, <2>1, <2>3, <2>4, <2>5
<1>7. ReadsHold(p)'
  BY <1>1 DEF ReadsHold
<1>8. QED
  BY <1>1, <1>5, <1>6, <1>7, AloneKeeps

\* Every orderly step keeps the money straight.
LEMMA MoneyInvariant == OrderlySpec => []MoneyInv
<1>1. Init => MoneyInv
  <2> SUFFICES ASSUME Init PROVE MoneyInv
    OBVIOUS
  <2>1. \A p \in Requests : pc[p] = "idle" /\ txn[p] = NoTxn
    BY DEF Init
  <2>2. \A c : Received(c) = 0
    <3>1. {i \in DOMAIN receipts : ~receipts[i].cancelled} = {}
      BY DEF Init
    <3>2. QED
      BY <3>1, SumEmpty DEF Received
  <2>3. NoOverCollection
    BY <2>2, ChargesAssumption DEF NoOverCollection, Outstanding, Init, Live
  <2>4. CollectInv
    BY <2>1 DEF CollectInv, Alone, HoldsApart, NoTxn, Collecting
  <2>5. QED
    BY <2>1, <2>2, <2>3, <2>4 DEF MoneyInv, OnlyLivePaid, ReadsHold
<1>2. TypeOK /\ TypeOK' /\ MoneyInv /\ [OrderlyNext]_vars => MoneyInv'
  <2> SUFFICES ASSUME TypeOK, TypeOK', MoneyInv, [OrderlyNext]_vars PROVE MoneyInv'
    OBVIOUS
  <2>1. CASE UNCHANGED vars
    <3>1. UNCHANGED tables /\ pc' = pc /\ txn' = txn
      BY <2>1 DEF vars, tables
    <3>2. \A q \in Requests : /\ RowsRead(q) => RowsRead(q)'
                              /\ DuesReserved(q) => DuesReserved(q)'
      BY <3>1, TablesStay DEF RowsRead, DuesReserved, LinesOnce
    <3>3. \A q \in Requests : ReadsHold(q)'
      BY <3>1, TablesStay DEF ReadsHold, LinesOnce, Covered, MoneyInv, tables
    <3>4. Alone' /\ HoldsApart'
      BY <3>1 DEF MoneyInv, CollectInv, Alone, HoldsApart
    <3>5. QED
      BY <3>1, <3>2, <3>3, <3>4, TablesStay DEF MoneyInv, CollectInv
  <2>2. ASSUME NEW p \in Requests, CollectStep(p) \/ Abort(p), OncePerCharge(txn'[p].lines),
               \A q \in Requests \ {p} : pc[q] \in Collecting
        PROVE  MoneyInv'
    BY <2>2, CollectBeginKeeps, CollectLockKeeps, CollectNumberKeeps, CollectCommitKeeps, AbortKeeps
    DEF CollectStep
  <2>3. ASSUME NEW p \in Requests, ReturnStep(p) \/ BillingStep(p), OncePerCharge(txn'[p].lines),
               \A q \in Requests \ {p} : pc[q] = "idle"
        PROVE  MoneyInv'
    BY <2>3, RefundKeeps, MoneyBackKeeps, CancellingKeeps, PostingKeeps, RecomputeKeeps, WriteKeeps
    DEF ReturnStep, BillingStep
  <2>4. QED
    BY <2>1, <2>2, <2>3 DEF OrderlyNext
<1>3. QED
  BY <1>1, <1>2, OrderlyImpliesSpec, TypeCorrect, PTL DEF OrderlySpec

\* Collections that overlap never take more than a charge asks for.
THEOREM NeverOverCollected == OrderlySpec => []NoOverCollection
<1>1. MoneyInv => NoOverCollection
  BY DEF MoneyInv
<1>2. QED
  BY <1>1, MoneyInvariant, PTL

\* Cancelling a charge never strands money on it: who collects holds the row.
THEOREM WithdrawnHoldsNoMoney == OrderlySpec => []CancelledNeverPaid
<1>1. MoneyInv => CancelledNeverPaid
  BY DEF MoneyInv, OnlyLivePaid, CancelledNeverPaid, Live
<1>2. QED
  BY <1>1, MoneyInvariant, PTL

-----------------------------------------------------------------------------
(***************************************************************************)
(* What a discount or a refund was computed from, whatever overlaps: as    *)
(* long as nobody has overtaken the request, what it read is still there.  *)
(***************************************************************************)
RefundsApart ==
  \A p, q \in Requests : p # q /\ pc[p] = "refunding" /\ pc[q] = "refunding" =>
    txn[p].holds \cap txn[q].holds = {}
DiscountFits(p, c) ==
  c \in DOMAIN txn[p].disc /\ txn[p].disc[c] > 0 /\ <<p, c>> \notin overtaken =>
    txn[p].disc[c] <= Amount[c] - Received(c)
RefundFits(p, c) ==
  txn[p].alloc[c] > 0 /\ <<p, c>> \notin overtaken => txn[p].alloc[c] <= Paid(c)
ReadingOf(p) ==
  /\ pc[p] = "refund" => txn[p].lines \in LineSeq
  /\ pc[p] = "recompute" => txn[p].approved \subseteq Concessions
  /\ pc[p] = "cancel_future" => DOMAIN txn[p].disc = {}
  /\ pc[p] = "write" => \A c \in Charges : c \in DOMAIN txn[p].disc => txn[p].disc[c] \in Int
  /\ pc[p] = "write" => \A c \in Charges : DiscountFits(p, c)
  /\ pc[p] = "refunding" /\ OncePerCharge(txn[p].lines) =>
       \A c \in Charges : txn[p].alloc[c] \in Nat /\ RefundFits(p, c)
ReadingInv == RefundsApart /\ \A p \in Requests : ReadingOf(p)

\* A discount that takes anything off leaves what was received covered.
LEMMA PositiveDiscountFits ==
  ASSUME TypeOK, NEW c \in Charges, NEW s, NEW approved \in SUBSET Concessions
  PROVE  /\ NewDiscount(c, s, approved) \in Int
         /\ NewDiscount(c, s, approved) > 0 => NewDiscount(c, s, approved) <= Amount[c] - Received(c)
<1> DEFINE f == [k \in Concessions |-> Reduction[k][c]]
           on == {k \in approved : Grantee[k] = s}
           r == Reductions(c, s, approved)
           m == Amount[c] - Received(c)
<1>1. IsFiniteSet(on) /\ AddsInt(f, on)
  BY ConcessionAssumption, FS_Subset DEF AddsInt
<1>2. r \in Int
  <2>1. SumFunctionOnSet(f, on) \in Int
    BY <1>1, SumIsInt
  <2>2. QED
    BY <2>1 DEF Reductions
<1>3. m \in Int
  BY ReceivedIsNat, ChargesAssumption
<1>4. NewDiscount(c, s, approved) = Min({r, Max({0, m})})
  BY DEF NewDiscount
<1> HIDE DEF r, m
<1>5. Max({0, m}) = IF 0 >= m THEN 0 ELSE m
  BY <1>3, OfTwo
<1>6. Max({0, m}) \in Int
  BY <1>3, <1>5
<1>7. Min({r, Max({0, m})}) = IF r <= Max({0, m}) THEN r ELSE Max({0, m})
  BY <1>2, <1>6, OfTwo
<1>8. QED
  BY <1>2, <1>3, <1>4, <1>5, <1>6, <1>7 DEF m

\* The balances are numbers, to be used of the next state.
LEMMA AllBalancesAreInt == TypeOK => \A c \in Charges : Received(c) \in Nat /\ Paid(c) \in Int
  BY BalancesAreInt

\* The transaction of another request still fits what it read: whatever this
\* step changes of it is noted.
LEMMA BystanderFits ==
  ASSUME TypeOK, TypeOK', ReadingInv, NEW p \in Requests, NEW q \in Requests \ {p}, Overtaking(p),
         pc'[q] = pc[q], txn'[q] = txn[q],
         \A c \in Charges : pc[q] = "refunding" /\ Paid(c)' < Paid(c) =>
           c \notin txn[p].holds \cap txn[q].holds
  PROVE  ReadingOf(q)'
<1>1. \A c \in Charges : <<q, c>> \notin overtaken' => <<q, c>> \notin overtaken /\ ~Outdates(p, q, c)
  BY DEF Overtaking
<1>2. \A c \in Charges : /\ Received(c) \in Int /\ Received(c)' \in Int /\ Amount[c] \in Int
                         /\ Paid(c) \in Int /\ Paid(c)' \in Int
  <2>1. \A c \in Charges : Received(c) \in Nat /\ Paid(c) \in Int
    BY BalancesAreInt
  <2>2. (\A c \in Charges : Received(c) \in Nat /\ Paid(c) \in Int)'
    BY AllBalancesAreInt, PTL
  <2>3. QED
    BY <2>1, <2>2, ChargesAssumption
<1>3. ReadingOf(q)
  BY DEF ReadingInv
<1>4. ASSUME pc[q] = "write", NEW c \in Charges PROVE DiscountFits(q, c)'
  <2> SUFFICES ASSUME c \in DOMAIN txn[q].disc, txn[q].disc[c] > 0, <<q, c>> \notin overtaken'
               PROVE  txn[q].disc[c] <= Amount[c] - Received(c)'
    BY DEF DiscountFits
  <2>1. ~(Received(c)' > Received(c))
    BY <1>1, <1>4 DEF Outdates
  <2>2. txn[q].disc[c] \in Int /\ txn[q].disc[c] <= Amount[c] - Received(c)
    BY <1>1, <1>3, <1>4 DEF ReadingOf, DiscountFits
  <2>3. QED
    BY <1>2, <2>1, <2>2
<1>5. ASSUME pc[q] = "refunding", OncePerCharge(txn[q].lines), NEW c \in Charges
      PROVE  RefundFits(q, c)'
  <2> SUFFICES ASSUME txn[q].alloc[c] > 0, <<q, c>> \notin overtaken'
               PROVE  txn[q].alloc[c] <= Paid(c)'
    BY DEF RefundFits
  <2>1. ~(Paid(c)' < Paid(c))
    BY <1>1, <1>5 DEF Outdates
  <2>2. txn[q].alloc[c] \in Nat /\ txn[q].alloc[c] <= Paid(c)
    BY <1>1, <1>3, <1>5 DEF ReadingOf, RefundFits
  <2>3. QED
    BY <1>2, <2>1, <2>2
<1>6. QED
  BY <1>3, <1>4, <1>5 DEF ReadingOf

\* Only a refund, of charges it holds or not, and the cancelling of a receipt
\* take money back.
LEMMA MoneyGoesBack ==
  ASSUME TypeOK, TypeOK', NEW p \in Requests, NEW c \in Charges, Paid(c)' < Paid(c),
         CollectStep(p) \/ ReturnStep(p) \/ BillingStep(p) \/ Abort(p)
  PROVE  pc[p] = "refunding" \/ txn[p].holds = {}
<1>1. CASE RefundCommit(p)
  BY <1>1 DEF RefundCommit
<1>2. CASE \E i \in DOMAIN receipts : CancelReceipt(p, i)
  BY <1>2 DEF CancelReceipt, TypeOK, NoTxn
<1>3. CASE CollectCommit(p)
  <2> DEFINE t == txn[p]
             r == [year |-> t.year, number |-> t.number, student |-> t.student,
                   paid |-> t.alloc, cancelled |-> FALSE]
  <2>1. r \in Receipt /\ ~r.cancelled /\ receipts' = Append(receipts, r)
    BY <1>3 DEF CollectCommit, TypeOK, TxnOK, Receipt
  <2>2. r.paid[c] \in Nat /\ refunded' = refunded /\ refunded[c] \in Nat
    BY <1>3 DEF CollectCommit, TypeOK
  <2> HIDE DEF r
  <2>3. Received(c)' = Received(c) + r.paid[c] /\ Received(c) \in Nat
    BY <2>1, ReceivedAfterCommit, ReceivedIsNat
  <2>4. QED
    BY <2>2, <2>3 DEF Paid
<1>4. CASE ~RefundCommit(p) /\ ~CollectCommit(p) /\ ~(\E i \in DOMAIN receipts : CancelReceipt(p, i))
  <2>1. receipts' = receipts /\ refunded' = refunded
    BY <1>4 DEF CollectStep, ReturnStep, BillingStep, Abort, CollectBegin, CollectLock, CollectNumber,
      RefundBegin, RefundLock, WriteCommit, PostFind, PostInsert, CancelBegin,
      CancelLock, Approve, Reject, RecomputeRead, tables
  <2>2. Paid(c)' = Paid(c) /\ Paid(c) \in Int
    BY <2>1, BalancesAreInt DEF Paid, Received
  <2>3. QED
    BY <2>2
<1>5. QED
  BY <1>1, <1>2, <1>3, <1>4

\* The request that takes the step has just read what it is going to write.
LEMMA ActorReads ==
  ASSUME TypeOK, ReadingInv, NEW p \in Requests, Overtaking(p),
         CollectStep(p) \/ ReturnStep(p) \/ BillingStep(p) \/ Abort(p)
  PROVE  RefundsApart' /\ ReadingOf(p)'
<1>1. /\ \A q \in Requests \ {p} : pc'[q] = pc[q] /\ txn'[q] = txn[q]
      /\ ReadingOf(p) /\ RefundsApart
  BY OthersStay DEF ReadingInv
<1>2. ASSUME pc'[p] # "refunding" PROVE RefundsApart'
  BY <1>1, <1>2 DEF RefundsApart
<1>3. CASE RefundBegin(p)
  <2>1. PICK s \in Students, ls \in LineSeqs :
          Begin(p, "refund", [NoTxn EXCEPT !.student = s, !.rows = LiveOf(s), !.lines = ls])
    BY <1>3 DEF RefundBegin
  <2> DEFINE f == [NoTxn EXCEPT !.student = s, !.rows = LiveOf(s), !.lines = ls]
  <2>2. pc'[p] = "refund" /\ txn'[p] = f /\ f.lines = ls /\ ls \in LineSeq
    BY <2>1, LineSeqsAreLines DEF Begin, TypeOK, NoTxn
  <2>3. QED
    BY <1>2, <2>2 DEF ReadingOf
<1>4. CASE RefundLock(p) /\ ~Finish(p)
  <2> DEFINE t == txn[p]
             locked == t.rows \cap Live
             paid == [c \in LiveOf(t.student) |-> Paid(c)]
             f == [t EXCEPT !.holds = locked, !.rows = {}, !.alloc = Allocation(t.lines)]
  <2>1. /\ Begin(p, "refunding", f) /\ LinesAcceptable(t.lines, paid) /\ UNCHANGED tables
        /\ Free(p, locked) /\ t.lines \in LineSeq
    BY <1>1, <1>4 DEF RefundLock, ReadingOf
  <2>2. ASSUME NEW c \in Charges, OncePerCharge(t.lines)
        PROVE  /\ Allocation(t.lines)[c] \in Nat
               /\ Allocation(t.lines)[c] > 0 => Allocation(t.lines)[c] <= Paid(c)
    <3>1. /\ Allocation(t.lines)[c] \in Nat
          /\ Allocation(t.lines)[c] > 0 =>
               \E i \in DOMAIN t.lines : t.lines[i][1] = c /\ t.lines[i][2] = Allocation(t.lines)[c]
      BY <2>1, <2>2, AllocationOfLines
    <3>2. \A i \in DOMAIN t.lines : t.lines[i][2] <= Paid(t.lines[i][1])
      BY <2>1 DEF LinesAcceptable
    <3>3. QED
      BY <3>1, <3>2
  <2>3. pc'[p] = "refunding" /\ txn'[p] = f
    BY <2>1 DEF Begin, TypeOK
  <2>4. f.alloc = Allocation(t.lines) /\ f.lines = t.lines /\ f.holds = locked
    BY DEF TypeOK, TxnOK, NoTxn
  <2>5. \A c : Paid(c)' = Paid(c)
    BY <2>1 DEF tables, Paid, Received
  <2> HIDE DEF f, locked, paid
  <2>6. ReadingOf(p)'
    BY <2>2, <2>3, <2>4, <2>5 DEF ReadingOf, RefundFits
  <2>7. \A q \in Requests \ {p} : txn[q].holds \cap locked = {}
    BY <2>1 DEF Free
  <2>8. RefundsApart'
    BY <1>1, <2>3, <2>4, <2>7 DEF RefundsApart
  <2>9. QED
    BY <2>6, <2>8
<1>5. CASE RecomputeRead(p)
  <2> DEFINE t == txn[p]
             mine == (LiveOf(t.student) \ t.cancels) \cup t.inserts
             owed == {d \in mine : Amount[d] > 0}
             new == [c \in owed |-> NewDiscount(c, t.student, t.approved)]
             disc == [c \in {d \in owed : new[d] # discount[d]} |-> new[c]]
             f == [t EXCEPT !.disc = disc]
  <2>1. UNCHANGED tables /\ pc[p] = "recompute" /\ Begin(p, "write", f)
    BY <1>5 DEF RecomputeRead
  <2>2. t.approved \in SUBSET Concessions
    BY <1>1, <2>1 DEF ReadingOf
  <2>3. pc'[p] = "write" /\ txn'[p] = f /\ f.disc = disc
    BY <2>1 DEF Begin, TypeOK, TxnOK, NoTxn
  <2>4. ASSUME NEW c \in Charges, c \in DOMAIN disc
        PROVE  disc[c] = NewDiscount(c, t.student, t.approved)
    BY <2>4
  <2>5. \A c : Received(c)' = Received(c)
    BY <2>1 DEF tables, Received
  <2> HIDE DEF f, disc, new, owed, mine
  <2>6. ASSUME NEW c \in Charges, c \in DOMAIN disc
        PROVE  disc[c] \in Int /\ (disc[c] > 0 => disc[c] <= Amount[c] - Received(c))
    BY <2>2, <2>4, <2>6, PositiveDiscountFits
  <2>7. ReadingOf(p)'
    BY <2>3, <2>5, <2>6 DEF ReadingOf, DiscountFits
  <2>8. QED
    BY <1>2, <2>3, <2>7
<1>6. CASE PostInsert(p) \/ CancelLock(p)
  <2>1. Approved \subseteq Concessions
    BY DEF Approved
  <2>2. CASE pc'[p] = "idle"
    BY <1>2, <2>2 DEF ReadingOf
  <2>3. CASE pc'[p] = "recompute"
    <3> DEFINE t == txn[p]
               rows == t.rows \cap Live
               doomed == t.cancels \cap Live
               f(c) == [t EXCEPT !.holds = {c}, !.approved = Approved]
               g == [t EXCEPT !.holds = rows, !.rows = {}, !.cancels = doomed, !.approved = Approved]
    <3>1. (\A c : f(c).approved = Approved) /\ g.approved = Approved
      BY DEF TypeOK, TxnOK, NoTxn
    <3> HIDE DEF f, g
    <3>2. txn'[p] = g \/ \E c : txn'[p] = f(c)
      BY <1>6, <2>3 DEF PostInsert, CancelLock, Finish, Begin, TypeOK, f, g
    <3>3. QED
      BY <1>2, <2>1, <2>3, <3>1, <3>2 DEF ReadingOf
  <2>4. CASE pc'[p] = "write"
    <3> DEFINE t == txn[p]
               rows == t.rows \cap Live
               doomed == t.cancels \cap Live
               g == [t EXCEPT !.holds = rows, !.rows = {}, !.cancels = doomed, !.approved = Approved]
    <3>1. g.disc = t.disc
      BY DEF TypeOK, TxnOK, NoTxn
    <3> HIDE DEF g
    <3>2. pc[p] = "cancel_future" /\ txn'[p] = g
      BY <1>6, <2>4 DEF PostInsert, CancelLock, Finish, Begin, TypeOK, g
    <3>3. DOMAIN txn'[p].disc = {}
      BY <1>1, <3>1, <3>2 DEF ReadingOf
    <3>4. QED
      BY <1>2, <2>4, <3>3 DEF ReadingOf, DiscountFits
  <2>5. pc'[p] \in {"idle", "recompute", "write"}
    BY <1>6 DEF PostInsert, CancelLock, Finish, Begin, TypeOK
  <2>6. QED
    BY <2>2, <2>3, <2>4, <2>5
<1>7. CASE \E k \in Concessions : Approve(p, k)
  <2>1. PICK k \in Concessions : Approve(p, k)
    BY <1>7
  <2>2. pc'[p] = "recompute" /\ txn'[p].approved = Approved \cup {k}
    BY <2>1 DEF Approve, Begin, TypeOK, NoTxn
  <2>3. QED
    BY <1>2, <2>2 DEF ReadingOf, Approved
<1>8. CASE CancelBegin(p)
  <2>1. pc'[p] \in {"cancel", "cancel_future"} /\ DOMAIN txn'[p].disc = {}
    <3> DEFINE f(s, rows, gone) == [NoTxn EXCEPT !.student = s, !.rows = rows, !.cancels = gone]
    <3>1. \A s, rows, gone : DOMAIN f(s, rows, gone).disc = {}
      BY DEF NoTxn
    <3> HIDE DEF f
    <3>2. pc'[p] \in {"cancel", "cancel_future"} /\ \E s, rows, gone : txn'[p] = f(s, rows, gone)
      <4>1. \/ \E c \in Unpaid(Live) : Begin(p, "cancel", f(Owner[c], {c}, {c}))
            \/ \E s \in Students : \E rows \in SUBSET LiveOf(s) :
                 Begin(p, "cancel_future", f(s, rows, Unpaid(rows)))
        BY <1>8 DEF CancelBegin, f
      <4>2. \A step, fields : Begin(p, step, fields) => pc'[p] = step /\ txn'[p] = fields
        BY DEF Begin, TypeOK
      <4>3. QED
        BY <4>1, <4>2
    <3>3. QED
      BY <3>1, <3>2
  <2>2. QED
    BY <1>2, <2>1 DEF ReadingOf
<1>9. ASSUME CollectStep(p) \/ RefundCommit(p) \/ PostFind(p) \/ WriteCommit(p) \/ Finish(p)
      PROVE  RefundsApart' /\ ReadingOf(p)'
  <2>1. pc'[p] \in {"idle", "collect", "number", "numbered", "insert"}
    BY <1>9 DEF CollectStep, CollectBegin, CollectLock, CollectNumber, CollectCommit, RefundCommit,
      PostFind, WriteCommit, Finish, Begin, TypeOK
  <2>2. QED
    BY <1>2, <2>1 DEF ReadingOf
<1>10. ASSUME UNCHANGED <<pc, txn>>, pc[p] = "idle" PROVE RefundsApart' /\ ReadingOf(p)'
  BY <1>2, <1>10 DEF ReadingOf
<1>11. QED
  BY <1>3, <1>4, <1>5, <1>6, <1>7, <1>8, <1>9, <1>10
  DEF ReturnStep, BillingStep, Abort, CancelReceipt, Reject

\* The reads of every transaction hold, but for those that are noted.
LEMMA ReadingInvariant == Spec => []ReadingInv
<1>1. Init => ReadingInv
  BY DEF Init, ReadingInv, ReadingOf, RefundsApart
<1>2. TypeOK /\ TypeOK' /\ ReadingInv /\ UNCHANGED vars => ReadingInv'
  <2> SUFFICES ASSUME ReadingInv, UNCHANGED vars PROVE ReadingInv'
    OBVIOUS
  <2>1. \A c : Received(c)' = Received(c) /\ Paid(c)' = Paid(c)
    BY DEF vars, Received, Paid
  <2>2. QED
    BY <2>1 DEF vars, ReadingInv, ReadingOf, RefundsApart, DiscountFits, RefundFits
<1>3. TypeOK /\ TypeOK' /\ ReadingInv /\ Next => ReadingInv'
  <2> SUFFICES ASSUME TypeOK, TypeOK', ReadingInv, NEW p \in Requests, Overtaking(p),
                      CollectStep(p) \/ ReturnStep(p) \/ BillingStep(p) \/ Abort(p)
               PROVE  ReadingInv'
    BY DEF Next
  <2>1. \A q \in Requests \ {p} : pc'[q] = pc[q] /\ txn'[q] = txn[q]
    BY OthersStay
  <2>2. \A c : <<p, c>> \notin overtaken'
    BY DEF Overtaking
  <2>3. RefundsApart' /\ ReadingOf(p)'
    BY ActorReads
  <2>4. ASSUME NEW q \in Requests \ {p} PROVE ReadingOf(q)'
    <3>1. ASSUME NEW c \in Charges, pc[q] = "refunding", Paid(c)' < Paid(c)
          PROVE  c \notin txn[p].holds \cap txn[q].holds
      BY <3>1, MoneyGoesBack DEF ReadingInv, RefundsApart
    <3>2. QED
      BY <2>1, <3>1, BystanderFits
  <2>5. QED
    BY <2>3, <2>4 DEF ReadingInv
<1>4. QED
  BY <1>1, <1>2, <1>3, TypeCorrect, PTL DEF Spec

\* Whatever overlaps, a discount is raised into a credit only by a request that
\* a payment has overtaken.
THEOREM ConcessionsCreateNoCredit == Spec => NoCreditFromConcession
<1>1. TypeOK /\ ReadingInv /\ [Next]_vars
        => [\A c \in Charges : discount'[c] > discount[c] =>
              Outstanding(c)' >= 0 \/ \E p \in Requests : Ends(p) /\ <<p, c>> \in overtaken]_vars
  <2> SUFFICES ASSUME TypeOK, ReadingInv, Next, NEW c \in Charges, discount'[c] > discount[c],
                      \A p \in Requests : Ends(p) => <<p, c>> \notin overtaken
               PROVE  Outstanding(c)' >= 0
    OBVIOUS
  <2>1. discount[c] \in Nat
    BY DEF TypeOK
  <2>2. PICK p \in Requests : WriteCommit(p)
    <3>1. discount' # discount
      BY <2>1
    <3>2. QED
      BY <3>1 DEF Next, CollectStep, ReturnStep, BillingStep, Abort, CollectBegin, CollectLock, CollectNumber,
        CollectCommit, RefundBegin, RefundLock, RefundCommit, CancelReceipt, PostFind, PostInsert, CancelBegin,
        CancelLock, Approve, Reject, RecomputeRead, tables
  <2> DEFINE t == txn[p]
  <2>3. /\ c \in DOMAIN t.disc /\ discount'[c] = t.disc[c] /\ t.disc[c] \in Nat /\ receipts' = receipts
        /\ pc[p] = "write"
    BY <2>1, <2>2 DEF WriteCommit
  <2>4. Ends(p)
    BY <2>2 DEF WriteCommit, Finish, Begin, TypeOK, Ends
  <2>5. t.disc[c] <= Amount[c] - Received(c)
    <3>1. DiscountFits(p, c)
      BY <2>3 DEF ReadingInv, ReadingOf
    <3>2. <<p, c>> \notin overtaken
      BY <2>4
    <3>3. t.disc[c] > 0
      BY <2>1, <2>3
    <3>4. QED
      BY <2>3, <3>1, <3>2, <3>3 DEF DiscountFits
  <2>6. Received(c)' = Received(c) /\ Received(c) \in Nat /\ Amount[c] \in Int
    BY <2>3, ReceivedIsNat, ChargesAssumption DEF Received
  <2>7. Outstanding(c)' = Amount[c] - t.disc[c] - Received(c)
    BY <2>3, <2>6 DEF Outstanding
  <2>8. QED
    BY <2>3, <2>5, <2>6, <2>7
<1>2. QED
  BY <1>1, ReadingInvariant, TypeCorrect, PTL DEF Spec, NoCreditFromConcession

\* Whatever overlaps, a refund returns no more than was paid, unless the receipt
\* it pays back was cancelled under it or it names a charge twice.
THEOREM RefundsReturnWhatWasPaid == Spec => RefundWithinPaid
<1>1. TypeOK /\ ReadingInv /\ [Next]_vars
        => [\A c \in Charges : refunded'[c] > refunded[c] =>
              \/ Paid(c)' >= 0
              \/ \E p \in Requests : Ends(p) /\ (<<p, c>> \in overtaken \/ ~OncePerCharge(txn[p].lines))]_vars
  <2> SUFFICES ASSUME TypeOK, ReadingInv, Next, NEW c \in Charges, refunded'[c] > refunded[c],
                      \A p \in Requests : Ends(p) => <<p, c>> \notin overtaken /\ OncePerCharge(txn[p].lines)
               PROVE  Paid(c)' >= 0
    OBVIOUS
  <2>1. refunded[c] \in Nat
    BY DEF TypeOK
  <2>2. PICK p \in Requests : RefundCommit(p)
    <3>1. refunded' # refunded
      BY <2>1
    <3>2. QED
      BY <3>1 DEF Next, CollectStep, ReturnStep, BillingStep, Abort, CollectBegin, CollectLock, CollectNumber,
        CollectCommit, RefundBegin, RefundLock, WriteCommit, CancelReceipt, PostFind, PostInsert, CancelBegin,
        CancelLock, Approve, Reject, RecomputeRead, tables
  <2> DEFINE n == txn[p].alloc[c]
  <2>3. refunded'[c] = refunded[c] + n /\ n \in Nat /\ receipts' = receipts /\ pc[p] = "refunding"
    BY <2>2 DEF RefundCommit
  <2>4. Ends(p)
    BY <2>2 DEF RefundCommit, Finish, Begin, TypeOK, Ends
  <2>5. n <= Paid(c)
    <3>1. <<p, c>> \notin overtaken /\ OncePerCharge(txn[p].lines)
      BY <2>4
    <3>2. RefundFits(p, c)
      BY <2>3, <3>1 DEF ReadingInv, ReadingOf
    <3>3. n > 0
      BY <2>1, <2>3
    <3>4. QED
      BY <3>1, <3>2, <3>3 DEF RefundFits
  <2>6. Received(c)' = Received(c) /\ Received(c) \in Nat
    BY <2>3, ReceivedIsNat DEF Received
  <2>7. Paid(c)' = Paid(c) - n /\ Paid(c) \in Int
    BY <2>1, <2>3, <2>6 DEF Paid
  <2>8. QED
    BY <2>3, <2>5, <2>7
<1>2. QED
  BY <1>1, ReadingInvariant, TypeCorrect, PTL DEF Spec, RefundWithinPaid
-----------------------------------------------------------------------------
(***************************************************************************)
(* A payment without lines.  What was computed when the locks were granted *)
(* is kept until the receipt commits, so this holds whatever overlaps.     *)
(***************************************************************************)
InOrderOf(t) ==
  /\ TotalOf(t.alloc) = t.asked
  /\ \A c, d \in DOMAIN t.due : c < d /\ t.due[c] > 0 /\ t.alloc[d] > 0 => t.alloc[c] = t.due[c]
AskedInv ==
  \A p \in Requests :
    /\ pc[p] = "collect" => txn[p].asked \in Nat
    /\ pc[p] \in {"number", "numbered"} /\ txn[p].asked > 0 => InOrderOf(txn[p])

\* Every payment without lines is spent on the oldest dues, to the last unit.
THEOREM OldestDuesAreFirst == Spec => []OldestDuesFirst
<1>1. Init => AskedInv
  BY DEF Init, AskedInv
<1>2. TypeOK /\ AskedInv /\ [Next]_vars => AskedInv'
  <2> SUFFICES ASSUME TypeOK, AskedInv, [Next]_vars PROVE AskedInv'
    OBVIOUS
  <2>1. CASE UNCHANGED vars
    BY <2>1 DEF vars, AskedInv
  <2>2. ASSUME NEW p \in Requests, \A q \in Requests \ {p} : pc'[q] = pc[q] /\ txn'[q] = txn[q],
               \/ pc'[p] \notin {"collect", "number", "numbered"}
               \/ pc'[p] = "collect" /\ txn'[p].asked \in Nat
               \/ pc'[p] \in {"number", "numbered"} /\ (txn'[p].asked > 0 => InOrderOf(txn'[p]))
        PROVE  AskedInv'
    BY <2>2 DEF AskedInv
  <2>3. ASSUME NEW p \in Requests, CollectStep(p) PROVE AskedInv'
    <3>1. \A q \in Requests \ {p} : pc'[q] = pc[q] /\ txn'[q] = txn[q]
      BY <2>3, OthersStay
    <3>2. CASE CollectBegin(p)
      <4>1. PICK s \in Students, y \in Years, ls \in LineSeqs \cup {<<>>}, a \in Pays \cup {0} :
              Begin(p, "collect", [NoTxn EXCEPT !.student = s, !.year = y, !.rows = LiveOf(s),
                                                !.lines = ls, !.asked = a])
        BY <3>2 DEF CollectBegin
      <4> DEFINE f == [NoTxn EXCEPT !.student = s, !.year = y, !.rows = LiveOf(s), !.lines = ls, !.asked = a]
      <4>2. pc'[p] = "collect" /\ txn'[p] = f /\ f.asked = a
        BY <4>1 DEF Begin, TypeOK, NoTxn
      <4>3. a \in Nat
        BY BoundAssumption
      <4>4. QED
        BY <2>2, <3>1, <4>2, <4>3
    <3>3. CASE CollectLock(p)
      <4> DEFINE t == txn[p]
                 R == LiveOf(t.student)
                 due == [c \in R |-> Outstanding(c)]
                 alloc == IF t.asked > 0 THEN OldestFirst(t.asked, due) ELSE Allocation(t.lines)
                 f == [t EXCEPT !.holds = t.rows \cap Live, !.rows = {}, !.alloc = alloc, !.due = due]
      <4>1. CASE Finish(p)
        <5>1. pc'[p] = "idle"
          BY <4>1 DEF Finish, Begin, TypeOK
        <5>2. QED
          BY <2>2, <3>1, <5>1
      <4>2. CASE ~Finish(p)
        <5>1. /\ Begin(p, "number", f) /\ pc[p] = "collect"
              /\ t.asked > 0 => TotalOf(alloc) = t.asked
          BY <3>3, <4>2 DEF CollectLock
        <5>2. /\ pc'[p] = "number" /\ txn'[p] = f /\ t.asked \in Nat
          BY <5>1 DEF Begin, TypeOK, AskedInv
        <5>3. f.asked = t.asked /\ f.alloc = alloc /\ f.due = due
          <6> HIDE DEF alloc, due
          <6>1. QED
            BY DEF TypeOK, TxnOK, NoTxn
        <5>4. R \in SUBSET Charges /\ due \in [R -> Int]
          BY BalancesAreInt DEF LiveOf, Live
        <5>5. ASSUME t.asked > 0, NEW c \in R, NEW d \in R, c < d, due[c] > 0, alloc[d] > 0
              PROVE  alloc[c] = due[c]
          <6>1. alloc = OldestFirst(t.asked, due)
            BY <5>5
          <6> HIDE DEF alloc, due, R, t
          <6>2. QED
            BY <5>2, <5>4, <5>5, <6>1, OldestFirstInOrder
        <5>6. DOMAIN due = R
          OBVIOUS
        <5> HIDE DEF f, alloc, due, R, t
        <5>7. f.asked > 0 => InOrderOf(f)
          BY <5>1, <5>3, <5>5, <5>6 DEF InOrderOf
        <5>8. QED
          BY <2>2, <3>1, <5>2, <5>7
      <4>3. QED
        BY <4>1, <4>2
    <3>4. CASE CollectNumber(p)
      <4> DEFINE f == [txn[p] EXCEPT !.number = counter[txn[p].year] + 1]
      <4>1. pc'[p] = "numbered" /\ txn'[p] = f /\ pc[p] = "number"
        BY <3>4 DEF CollectNumber, Begin, TypeOK
      <4>2. f.asked = txn[p].asked /\ f.alloc = txn[p].alloc /\ f.due = txn[p].due
        BY DEF TypeOK, TxnOK, NoTxn
      <4> HIDE DEF f
      <4>3. f.asked > 0 => InOrderOf(f)
        BY <4>1, <4>2 DEF AskedInv, InOrderOf
      <4>4. QED
        BY <2>2, <3>1, <4>1, <4>3
    <3>5. CASE CollectCommit(p)
      <4>1. pc'[p] = "idle"
        BY <3>5 DEF CollectCommit, Finish, Begin, TypeOK
      <4>2. QED
        BY <2>2, <3>1, <4>1
    <3>6. QED
      BY <2>3, <3>2, <3>3, <3>4, <3>5 DEF CollectStep
  <2>4. ASSUME NEW p \in Requests, ReturnStep(p) \/ BillingStep(p) \/ Abort(p) PROVE AskedInv'
    <3>1. \A q \in Requests \ {p} : pc'[q] = pc[q] /\ txn'[q] = txn[q]
      BY <2>4, OthersStay
    <3>2. pc'[p] \notin {"collect", "number", "numbered"}
      BY <2>4 DEF ReturnStep, BillingStep, Abort, RefundBegin, RefundLock, RefundCommit, CancelReceipt, PostFind,
        PostInsert, CancelBegin, CancelLock, Approve, Reject, RecomputeRead, WriteCommit, Finish, Begin, TypeOK
    <3>3. QED
      BY <2>2, <3>1, <3>2
  <2>5. QED
    BY <2>1, <2>3, <2>4 DEF Next
<1>3. AskedInv => OldestDuesFirst
  BY DEF AskedInv, OldestDuesFirst, InOrderOf
<1>4. QED
  BY <1>1, <1>2, <1>3, TypeCorrect, PTL DEF Spec
=============================================================================
