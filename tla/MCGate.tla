------------------------------- MODULE MCGate -------------------------------
(***************************************************************************)
(* A student who has been a member, of either plan, or is none, and may    *)
(* have an outpass already; months of two days.                            *)
(***************************************************************************)
EXTENDS Gate, TLC

MCTrips == {<<1, 2>>, <<2, 4>>}
Rows(row, ids) == [i \in ids |-> IF i = 1 THEN row ELSE None]
Pass(status) == [from |-> IF status = "requested" THEN 3 ELSE 2, to |-> 4, status |-> status, late |-> FALSE]
AwayOnPass == [member |-> 1, from |-> 2, to |-> 4, outpass |-> 1]
MCFirstRows ==
  {[today |-> 3, member |-> Rows([plan |-> plan, start |-> 1, end |-> None], Members),
    leave |-> Rows(IF status = "approved" THEN AwayOnPass ELSE None, Leaves),
    outpass |-> Rows(Pass(status), Outpasses)] :
      plan \in {"monthly", "per_day"}, status \in {"requested", "approved"}} \cup
  {[today |-> 1, member |-> Rows(None, Members), leave |-> Rows(None, Leaves), outpass |-> Rows(None, Outpasses)]}
=============================================================================
