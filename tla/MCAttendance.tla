---------------------------- MODULE MCAttendance ----------------------------
(***************************************************************************)
(* One section of two students, one of whom has a card and may move to     *)
(* another section or leave.  Reports are looked at for every way three    *)
(* days may have been marked.                                              *)
(***************************************************************************)
EXTENDS Attendance, TLC

CONSTANTS s1, s2, x, y

MCSectionOf == (s1 :> x) @@ (s2 :> x)
MCSheets == {<<>>, s1 :> "absent"}

Marked(status) == IF status = None THEN <<>> ELSE <<Record(status, "manual", x)>>
MCEarlierRows ==
  {[k \in Keys |-> IF k[3] # None THEN <<>>
                   ELSE Marked(IF k[1] = s1 THEN f[k[2]] ELSE g[k[2]])] :
     f \in [Days -> {"present", "absent", "half_day"}],
     g \in {[d \in Days |-> IF d < n THEN "absent" ELSE "late"] : n \in {0, 1, 3}}} \cup
  {[k \in Keys |-> IF k[3] # None \/ k[2] \notin D THEN <<>> ELSE Marked("absent")] : D \in SUBSET Days}
=============================================================================
