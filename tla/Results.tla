------------------------------ MODULE Results ------------------------------
(***************************************************************************)
(* What apps/exam computes from the marks and never stores: subject lines, *)
(* percentages, ranks, grade points and annual results.  Every operator    *)
(* takes the marks, papers and bands it reads, so that a model of the      *)
(* tables can apply it to any of its states.                               *)
(*                                                                         *)
(* A percentage or a grade point is a number of hundredths, rounded half   *)
(* up as q2 does.                                                          *)
(***************************************************************************)
EXTENDS Null, ClassList, Integers, Sequences, FiniteSets, FiniteSetsExt, SequencesExt, Functions

CONSTANTS
  Exams, Papers,
  ExamOf,       \* ExamOf[e]: the exam a paper (ExamSubject) belongs to
  SubjectOf,    \* SubjectOf[e]: its subject
  Credits,      \* Credits[e]: the credits of that subject
  Weightage     \* Weightage[x]: the exam's share of the annual result

ASSUME ExamAssumption ==
  /\ ExamOf \in [Papers -> Exams] /\ Credits \in [Papers -> Nat \ {0}]
  /\ Weightage \in [Exams -> Nat] /\ DOMAIN SubjectOf = Papers
  /\ IsFiniteSet(Exams) /\ IsFiniteSet(Papers)

PapersOf(x) == {e \in Papers : ExamOf[e] = x}
Given(n) == IF n = None THEN 0 ELSE n

\* ROUND_HALF_UP of n / d to the nearest whole number, in hundredths: n is
\* given times a hundred.
q2(n, d) == (2 * n + d) \div (2 * d)

Weighted(weight, value) == SumFunction([i \in DOMAIN value |-> weight[i] * value[i]])

-----------------------------------------------------------------------------
(***************************************************************************)
(* One subject of one student                                              *)
(***************************************************************************)
Status(m) == IF m = None THEN "pending" ELSE m.status
Obtained(m) ==
  IF Status(m) = "present" THEN Given(m.theory) + Given(m.practical) ELSE 0
MaxTotal(paper) == paper.theory + paper.practical

PercentOf(obtained, max) == IF max = 0 THEN 0 ELSE q2(obtained * 10000, max)

\* GradeScale.band_for: the highest band reached.
BandFor(bands, percent) ==
  LET reached == {b \in bands : percent >= b.min}
  IN  IF reached = {} THEN None ELSE CHOOSE b \in reached : \A c \in reached : c.min <= b.min
FailBand(bands, percent) == BandFor(bands, percent) # None /\ BandFor(bands, percent).fail

SubjectPercent(m, paper) == PercentOf(Obtained(m), MaxTotal(paper))
SubjectPassed(m, paper, bands) ==
  /\ Status(m) = "present" /\ Obtained(m) >= paper.pass
  /\ ~FailBand(bands, SubjectPercent(m, paper))

-----------------------------------------------------------------------------
(***************************************************************************)
(* exam_results: marks is a table by paper and student                     *)
(***************************************************************************)
\* Fault: subjects without marks do not count either.
EnteredOnly(x, marks, s) == {e \in PapersOf(x) : Status(marks[e][s]) \notin {"exempt", "pending"}}
\* The lines that count: all but the exempt ones.
Counted(x, marks, s) == {e \in PapersOf(x) : Status(marks[e][s]) # "exempt"}

ExamTotal(x, marks, s) == SumFunction([e \in Counted(x, marks, s) |-> Obtained(marks[e][s])])
ExamMax(x, marks, papers, s) == SumFunction([e \in Counted(x, marks, s) |-> MaxTotal(papers[e])])
ExamPercent(x, marks, papers, s) ==
  PercentOf(ExamTotal(x, marks, s), ExamMax(x, marks, papers, s))

Pending(x, marks, s) == \E e \in PapersOf(x) : marks[e][s] = None
FailedPapers(x, marks, papers, bands, s) ==
  {e \in Counted(x, marks, s) : ~SubjectPassed(marks[e][s], papers[e], bands)}
ExamPassed(x, marks, papers, bands, s) ==
  /\ FailedPapers(x, marks, papers, bands, s) = {}
  /\ ~FailBand(bands, ExamPercent(x, marks, papers, s))
  /\ ~Pending(x, marks, s)

CreditsOf(x, marks, s) == SumFunction([e \in Counted(x, marks, s) |-> Credits[e]])
\* Grade points are earned by subjects that are passed.
PointOf(m, paper, bands) ==
  LET band == BandFor(bands, SubjectPercent(m, paper))
  IN  IF band # None /\ SubjectPassed(m, paper, bands) THEN band.point ELSE 0
SGPA(x, marks, papers, bands, s) ==
  LET points == [e \in Counted(x, marks, s) |-> PointOf(marks[e][s], papers[e], bands)]
  IN  IF CreditsOf(x, marks, s) = 0 THEN 0
      ELSE q2(Weighted(Credits, points), CreditsOf(x, marks, s))

\* CGPA of one student over exams with credits, each by its SGPA.
CGPA(exams, marks, papers, bands, s) ==
  LET credits == [x \in exams |-> CreditsOf(x, marks, s)]
      sat == {x \in exams : credits[x] > 0 /\ \E e \in PapersOf(x) : marks[e][s] # None}
  IN  IF sat = {} THEN None
      ELSE q2(Weighted(credits, [x \in sat |-> SGPA(x, marks, papers, bands, s)]),
              SumFunction([x \in sat |-> credits[x]]))

-----------------------------------------------------------------------------
(***************************************************************************)
(* _competition_rank: the students by falling percentage; a tie repeats    *)
(* the rank of the one before.                                             *)
(***************************************************************************)
\* Fault: the rank after a tie does not skip.
DenseRank(rank, i, tied) == IF tied THEN rank ELSE rank + 1
NextRank(rank, i, tied) == IF tied THEN rank ELSE i

\* Which of two students with the same percentage comes first is left open.
ByPercent(class, percent) ==
  CHOOSE order \in SetToSeqs(class) :
    \A i, j \in DOMAIN order : i < j => percent[order[i]] >= percent[order[j]]
CompetitionRank(class, percent) ==
  LET order == ByPercent(class, percent)
      rank[i \in 0..Len(order)] ==
        IF i = 0 THEN 0
        ELSE NextRank(rank[i - 1], i, i > 1 /\ percent[order[i]] = percent[order[i - 1]])
  IN  [s \in class |-> rank[CHOOSE i \in DOMAIN order : order[i] = s]]

Percentages(x, marks, papers) == [s \in Students |-> ExamPercent(x, marks, papers, s)]
ClassRank(x, marks, papers) == CompetitionRank(Students, Percentages(x, marks, papers))
SectionRank(x, marks, papers, section) ==
  CompetitionRank(Roster(section), Percentages(x, marks, papers))

-----------------------------------------------------------------------------
(***************************************************************************)
(* analysis and annual_results                                             *)
(***************************************************************************)
Appeared(e, marks) == {s \in Students : Status(marks[e][s]) \in {"present", "absent"}}
Analysis(e, marks, papers, bands) ==
  LET sat == Appeared(e, marks)
      totals == {Obtained(marks[e][s]) : s \in sat}
      passed == {s \in sat : SubjectPassed(marks[e][s], papers[e], bands)}
  IN  IF sat = {} THEN None
      ELSE [highest |-> Max(totals), lowest |-> Min(totals),
            average |-> q2(100 * SumFunction([s \in sat |-> Obtained(marks[e][s])]), Cardinality(sat)),
            pass    |-> q2(10000 * Cardinality(passed), Cardinality(sat))]

\* Fault: the weighted sum is divided by the number of exams.
ByCount(exams) == Cardinality(exams)
WeightOf(exams) == SumFunction([x \in exams |-> Weightage[x]])

AnnualPercent(exams, marks, papers, s) ==
  LET percent == [x \in {x \in exams : Weightage[x] > 0} |-> ExamPercent(x, marks, papers, s)]
  IN  q2(Weighted(Weightage, percent), WeightOf(DOMAIN percent))

\* One subject over the year: exams in which it was exempt, or that have no
\* paper of it, weigh nothing.
AnnualSubject(exams, marks, papers, subject, s) ==
  LET parts == {e \in Papers : /\ ExamOf[e] \in exams /\ Weightage[ExamOf[e]] > 0
                               /\ SubjectOf[e] = subject
                               /\ e \in Counted(ExamOf[e], marks, s) /\ MaxTotal(papers[e]) > 0}
      weight == [e \in parts |-> Weightage[ExamOf[e]]]
  IN  IF parts = {} THEN None
      ELSE q2(Weighted(weight, [e \in parts |-> SubjectPercent(marks[e][s], papers[e])]), SumFunction(weight))
AnnualPassed(exams, marks, papers, bands, s) ==
  /\ \A x \in {x \in exams : Weightage[x] > 0} : ExamPassed(x, marks, papers, bands, s)
  /\ ~FailBand(bands, AnnualPercent(exams, marks, papers, s))
=============================================================================
