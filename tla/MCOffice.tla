------------------------------ MODULE MCOffice ------------------------------
(***************************************************************************)
(* Two students and two classes; two plans, one of two instalments, for    *)
(* the first class; files that share a student and a guardian.             *)
(***************************************************************************)
EXTENDS Office, TLC

CONSTANTS s1, s2, y1, y2, g1, g2, f1, f2, home

Row(s, g, ph) == [student |-> s, program |-> g, phone |-> ph]
MCFiles == {<<Row(s1, g1, home), Row(s2, None, home)>>, <<Row(s2, g1, home)>>}
MCAdmitted == {[student |-> s1, year |-> y1, program |-> g1], [student |-> s1, year |-> y1, program |-> g2]}
MCFirstPlans == {[f \in Plans |-> [year |-> y1, program |-> g1, rows |-> IF f = f1 THEN {1, 2} ELSE {3}]],
                 [f \in Plans |-> IF f = f1 THEN [year |-> y1, program |-> g1, rows |-> {1}] ELSE None]}
MCFirstYears == {{}, {y1}}
MCFirstStudents == {{}, {s1}}
MCDueOf(i) == i
MCPerDay(i) == i # 2
=============================================================================
