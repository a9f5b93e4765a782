---------------------------- MODULE ReceiptBook -----------------------------
(***************************************************************************)
(* What the receipts of a branch promise, seen from outside: a bound book. *)
(* A receipt is added at the end with the next number of its year, and may *)
(* be marked cancelled once; none is removed, renumbered or rewritten.     *)
(* FeeLedger, with its locks, counters and aborted transactions,           *)
(* implements it.                                                          *)
(***************************************************************************)
EXTENDS Naturals, Sequences

VARIABLE book    \* receipts as [year, number, student, paid, cancelled]

Numbers(y) == {book[i].number : i \in {j \in DOMAIN book : book[j].year = y}}

NextNumber(r) == r.number > 0 /\ Numbers(r.year) = 1..(r.number - 1)

Issue ==
  LET r == book'[Len(book) + 1]
  IN  /\ Len(book') = Len(book) + 1 /\ book' = Append(book, r)
      /\ NextNumber(r) /\ ~r.cancelled

Cancel ==
  \E i \in DOMAIN book :
    /\ ~book[i].cancelled
    /\ book' = [book EXCEPT ![i].cancelled = TRUE]

Init == book = <<>>
Next == Issue \/ Cancel
Spec == Init /\ [][Next]_book
=============================================================================
