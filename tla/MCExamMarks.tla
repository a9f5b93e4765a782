---------------------------- MODULE MCExamMarks ----------------------------
(***************************************************************************)
(* Two students in one section and one in another; a half-yearly exam of   *)
(* two papers and an annual one of a paper.  The batches of a section name *)
(* its students in both orders.                                            *)
(***************************************************************************)
EXTENDS ExamMarks, TLC

CONSTANTS s1, s2, s3, x, y, half, annual, maths, art, maths2

MCSectionOf == (s1 :> x) @@ (s2 :> x) @@ (s3 :> y)
MCExamOf == (maths :> half) @@ (art :> half) @@ (maths2 :> annual)
MCSubjectOf == (maths :> maths) @@ (art :> art) @@ (maths2 :> maths)
MCCredits == (maths :> 2) @@ (art :> 1) @@ (maths2 :> 1)
MCWeightage == (half :> 30) @@ (annual :> 50)

Present(n, m) == [status |-> "present", theory |-> n, practical |-> m]
Away(status) == [status |-> status, theory |-> None, practical |-> None]
RowFor(s, mark) == [student |-> s, mark |-> mark]
MCBatches == {
  [paper |-> maths, rows |-> <<RowFor(s1, Present(1, 1)), RowFor(s2, Present(3, 0))>>],
  [paper |-> maths, rows |-> <<RowFor(s2, [Present(1, 0) EXCEPT !.status = "absent"]), RowFor(s1, Present(2, 1))>>],
  [paper |-> maths, rows |-> <<RowFor(s1, Present(0, 1)), RowFor(s2, Present(2, 0))>>],
  [paper |-> maths2, rows |-> <<RowFor(s3, Present(3, 1))>>],
  [paper |-> maths, rows |-> <<RowFor(s3, Present(2, 0))>>],
  [paper |-> art, rows |-> <<RowFor(s3, Present(0, 1))>>]}

Paper(n, m, least) == [theory |-> n, practical |-> m, pass |-> least]
MCFirstPapers == [e \in Papers |-> Paper(2, 1, 1)]
MCPaperEdits == {Paper(2, 1, 1), Paper(1, 0, 1)}
Band(min, point, fail) == [min |-> min, point |-> point, fail |-> fail]
MCScales == {{Band(0, 0, TRUE), Band(3300, 500, FALSE), Band(6667, 900, FALSE)}}

Earlierly(mark) == [by |-> "earlier"] @@ mark
Entered == {Earlierly(Present(n, None)) : n \in {0, 1, 2}}
MCEarlier ==
  {[e \in Papers |-> CASE e = maths -> f [] e = art -> g [] OTHER -> h] :
     f \in [Students -> Entered],
     g \in [Students -> {None, Earlierly(Away("absent")), Earlierly(Away("exempt")), Earlierly(Present(1, 1))}],
     h \in {[s \in Students |-> Earlierly(Present(n, 1))] : n \in {0, 2}}}
=============================================================================
