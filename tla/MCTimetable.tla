---------------------------- MODULE MCTimetable ----------------------------
(***************************************************************************)
(* A section of two periods and one whose only period overlaps both, a     *)
(* teacher of both sections and one of the first, a third teacher who only *)
(* stands in for others, and one school day.                               *)
(***************************************************************************)
EXTENDS Timetable, TLC

CONSTANTS x1, x2, t1, t2, t3, main, junior, m1, m2, j1, a1, a2, a3, a4, mon, d1, hall

MCSlotSchedule == (m1 :> main) @@ (m2 :> main) @@ (j1 :> junior)
Lesson(x, a, s, r) == [section |-> x, day |-> mon, slot |-> s, assignment |-> a, room |-> r]
MCWanted == {Lesson(x1, a1, m1, None), Lesson(x1, a3, m1, hall), Lesson(x1, a3, m2, None),
             Lesson(x2, a2, j1, hall)}
MCSectionOf == (a1 :> x1) @@ (a2 :> x2) @@ (a3 :> x1) @@ (a4 :> x1)
MCGranted == (a1 :> 0) @@ (a2 :> 0) @@ (a3 :> 1) @@ (a4 :> 0)
MCWeekday == d1 :> mon
Span(from, to) == [start |-> from, end |-> to]
MCBell == (m1 :> Span(0, 1)) @@ (m2 :> Span(1, 2)) @@ (j1 :> Span(0, 2))
MCBellDays == [s \in Slots |-> {mon}]
MCTimes == {Span(0, 1), Span(1, 2), Span(0, 2)}
MCWeeks == {{}, {mon}}
MCListed == (x1 :> main) @@ (x2 :> junior)
MCAllocated == (a1 :> t1) @@ (a2 :> t1) @@ (a3 :> t2) @@ (a4 :> t3)
=============================================================================
