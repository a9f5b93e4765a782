----------------------------- MODULE ExamMarks -----------------------------
(***************************************************************************)
(* Entering marks (apps/exam): batches saved row by row in one transaction,*)
(* the lock of a section, edits of papers and grade scales, publication,   *)
(* and the results read from the tables at any moment.                     *)
(*                                                                         *)
(* A batch keeps the rows it wrote to itself until it commits, and holds   *)
(* their locks; two batches that wait for each other are a deadlock, which *)
(* the database ends by aborting one.                                      *)
(***************************************************************************)
EXTENDS Results, Desk

CONSTANTS
  Batches,      \* possible requests, as [paper, rows]: rows are [student, mark] in the order sent
  PaperEdits,   \* papers a PATCH may write, as [theory, practical, pass]
  FirstPapers,  \* the papers as they were set up
  Scales,       \* sets of bands a scale may be given
  Earlier       \* tables of marks that may have been entered before

\* Rows of ExamSubject, GradeBand and Mark; "by" is the batch a mark came with.
PaperRow == [theory : Nat, practical : Nat, pass : Nat]
BandRow == [min : Nat, point : Nat, fail : BOOLEAN]
Marked == [status : {"present", "absent", "exempt"}, theory : Nat \cup {None}, practical : Nat \cup {None}]
MarkRow == [status : {"present", "absent", "exempt"}, by : Requests \cup {"earlier"},
            theory : Nat \cup {None}, practical : Nat \cup {None}]

StudentsOf(batch) == {batch.rows[k].student : k \in DOMAIN batch.rows}
Section(batch) == SectionOf[batch.rows[1].student]
\* What save_marks accepts of a student who was present.
Acceptable(mark, paper) ==
  mark.status = "present" => /\ Given(mark.theory) \in 0..paper.theory
                             /\ Given(mark.practical) \in 0..paper.practical

\* validate_bands: the lowest band starts at nothing.  No band is NULL.
ASSUME ScalesAssumption ==
  /\ None \notin BandRow
  /\ \A scale \in Scales : scale \subseteq BandRow /\ IsFiniteSet(scale) /\ \E b \in scale : b.min = 0
ASSUME PapersAssumption == PaperEdits \subseteq PaperRow /\ FirstPapers \in [Papers -> PaperEdits]
\* A batch names students of one section, each of the marks of a kind.
ASSUME BatchesAssumption ==
  \A b \in Batches :
    /\ b.paper \in Papers /\ b.rows \in Seq([student : Students, mark : Marked]) /\ b.rows # <<>>
    /\ StudentsOf(b) \subseteq Roster(Section(b))
\* Earlier marks were checked against the papers as they are.
ASSUME EarlierAssumption ==
  /\ None \notin MarkRow /\ "earlier" \notin Requests
  /\ \A first \in Earlier :
       /\ first \in [Papers -> [Students -> MarkRow \cup {None}]]
       /\ \A e \in Papers, s \in Students : first[e][s] # None =>
            first[e][s].by = "earlier" /\ Acceptable(first[e][s], FirstPapers[e])

VARIABLES
  marks,        \* marks[e][s]: a Mark row, None where nothing was entered
  locked,       \* ExamLock rows, as <<exam, section>>
  papers,       \* papers[e]: maximum marks and pass marks
  bands,        \* the grade bands of the exams' scale
  published,    \* exams whose results are published
  lowered       \* history: a maximum was lowered, or a batch checked against an old one

vars == <<marks, locked, papers, bands, published, requestVars, lowered>>

\* What save_marks makes of a row: marks of a student who was not present
\* are dropped, practical marks where the paper has none as well.
Stored(row, paper, p) ==
  [status |-> row.status, by |-> p,
   theory |-> IF row.status = "present" THEN row.theory ELSE None,
   practical |-> IF row.status = "present" /\ paper.practical > 0 THEN row.practical ELSE None]

\* Fault: a locked section is written to.
AnyTime(batch) == TRUE
Unlocked(batch) == <<ExamOf[batch.paper], Section(batch)>> \notin locked

SaveBegin(p, batch) ==
  /\ Unlocked(batch)
  /\ Begin(p, "saving", [batch |-> batch, paper |-> papers[batch.paper], done |-> 0, crossed |-> FALSE])
  /\ UNCHANGED <<marks, locked, papers, bands, published, lowered>>

\* update_or_create locks the row, or its key in the unique index, until the
\* transaction ends.
RowFree(p, e, s) ==
  \A q \in Requests \ {p} : pc[q] = "saving" =>
    ~(seen[q].batch.paper = e /\ \E k \in 1..seen[q].done : seen[q].batch.rows[k].student = s)

NextRow(p) == seen[p].batch.rows[seen[p].done + 1]
Written(p) == seen[p].done = Len(seen[p].batch.rows)

\* The table with the first n rows of a batch written to it.
WithRows(p, n) ==
  LET batch == seen[p].batch
      Of(s) == {k \in 1..n : batch.rows[k].student = s}
  IN  [marks EXCEPT ![batch.paper] =
         [s \in Students |-> IF Of(s) = {} THEN @[s]
                               ELSE Stored(batch.rows[Max(Of(s))].mark, seen[p].paper, p)]]
\* Fault: every row is committed on its own.
KeepWritten(p) == WithRows(p, seen[p].done)
\* A refused row takes the whole batch back.
AfterRefusal(p) == marks

SaveRow(p) ==
  /\ pc[p] = "saving" /\ ~Written(p)
  /\ RowFree(p, seen[p].batch.paper, NextRow(p).student)
  /\ IF Acceptable(NextRow(p).mark, seen[p].paper)
       THEN Continue(p, "saving", [seen[p] EXCEPT !.done = @ + 1]) /\ UNCHANGED marks
       ELSE marks' = AfterRefusal(p) /\ Done(p)
  /\ UNCHANGED <<locked, papers, bands, published, lowered>>

SaveCommit(p) ==
  /\ pc[p] = "saving" /\ Written(p)
  /\ marks' = WithRows(p, seen[p].done)
  /\ Done(p)
  /\ UNCHANGED <<locked, papers, bands, published, lowered>>

\* Fault: nobody looks for deadlocks.
NeverWaits(p, q) == FALSE
\* A batch waits for a row of one that waits for a row of the first.
Waits(p, q) ==
  /\ pc[p] = "saving" /\ pc[q] = "saving" /\ ~Written(p)
  /\ seen[p].batch.paper = seen[q].batch.paper
  /\ \E k \in 1..seen[q].done : seen[q].batch.rows[k].student = NextRow(p).student
Deadlock(p) ==
  /\ \E q \in Requests \ {p} : Waits(p, q) /\ Waits(q, p)
  /\ Done(p)
  /\ UNCHANGED <<marks, locked, papers, bands, published, lowered>>

-----------------------------------------------------------------------------
\* lock and unlock; either is refused when there is nothing to do.  History:
\* batches of the section that are on their way are marked as crossed.
Lock(x, section) ==
  /\ <<x, section>> \notin locked /\ Serve
  /\ locked' = locked \cup {<<x, section>>}
  /\ seen' = [p \in Requests |->
                IF /\ pc[p] = "saving" /\ Section(seen[p].batch) = section
                   /\ ExamOf[seen[p].batch.paper] = x
                  THEN [seen[p] EXCEPT !.crossed = TRUE] ELSE seen[p]]
  /\ UNCHANGED <<marks, papers, bands, published, pc, lowered>>
Unlock(x, section) ==
  /\ <<x, section>> \in locked
  /\ locked' = locked \ {<<x, section>>}
  /\ UNCHANGED <<marks, papers, bands, published, pc, seen, served, lowered>>

Lowers(old, new) == new.theory < old.theory \/ new.practical < old.practical
\* ExamSubjectSerializer looks at the pass marks, never at marks entered.
EditPaper(e, paper) ==
  /\ paper.pass <= MaxTotal(paper) /\ MaxTotal(paper) > 0
  /\ papers[e] # paper /\ AtOnce
  /\ papers' = [papers EXCEPT ![e] = paper]
  /\ lowered' = (lowered \/ Lowers(papers[e], paper))
  /\ UNCHANGED <<marks, locked, bands, published>>

\* GradeScaleSerializer: the bands are deleted, then created anew, outside
\* any transaction; a crash in between leaves the scale without bands.
EditScale(p, scale) ==
  /\ bands' = {}
  /\ Begin(p, "scale", [scale |-> scale])
  /\ UNCHANGED <<marks, locked, papers, published, lowered>>
CreateBands(p) ==
  /\ pc[p] = "scale"
  /\ bands' = bands \cup seen[p].scale
  /\ Done(p)
  /\ UNCHANGED <<marks, locked, papers, published, lowered>>

Publish(x) ==
  /\ AtOnce
  /\ published' = IF x \in published THEN published \ {x} ELSE published \cup {x}
  /\ UNCHANGED <<marks, locked, papers, bands, lowered>>

Abort(p) ==
  /\ pc[p] # "idle"
  /\ Done(p)
  /\ UNCHANGED <<marks, locked, papers, bands, published, lowered>>

-----------------------------------------------------------------------------
NoMarks == [e \in Papers |-> [s \in Students |-> None]]

\* An exam that has just been set up, or tables others have filled before.
Init ==
  /\ \/ marks = NoMarks /\ served = 0
     \/ marks \in Earlier /\ served = MaxServed
  /\ locked = {} /\ published = {}
  /\ papers = FirstPapers /\ bands \in Scales
  /\ pc = [p \in Requests |-> "idle"] /\ seen = [p \in Requests |-> None]
  /\ lowered = FALSE

SaveStep(p) ==
  \/ \E batch \in Batches : SaveBegin(p, batch)
  \/ SaveRow(p) \/ SaveCommit(p) \/ Deadlock(p)
SetupStep(p) ==
  \/ \E scale \in Scales : EditScale(p, scale)
  \/ CreateBands(p)

Next ==
  \/ \E p \in Requests : SaveStep(p) \/ SetupStep(p) \/ Abort(p)
  \/ \E x \in Exams, section \in Sections : Lock(x, section) \/ Unlock(x, section)
  \/ \E e \in Papers, paper \in PaperEdits : EditPaper(e, paper)
  \/ \E x \in Exams : Publish(x)

\* A request that runs goes on running, and the database looks for deadlocks.
Fairness == \A p \in Requests : WF_vars(SaveRow(p)) /\ WF_vars(SaveCommit(p)) /\ WF_vars(Deadlock(p))

Spec == Init /\ [][Next]_vars
FairSpec == Spec /\ Fairness

-----------------------------------------------------------------------------
\* Rows have their shape, and marks are stored only where they count.
TypeOK ==
  /\ \A e \in Papers, s \in Students : marks[e][s] # None =>
       /\ marks[e][s] \in MarkRow
       /\ marks[e][s].status # "present" => marks[e][s].theory = None /\ marks[e][s].practical = None
  /\ locked \subseteq Exams \X Sections /\ published \subseteq Exams
  /\ papers \in [Papers -> PaperEdits] /\ bands \subseteq BandRow /\ served \in 0..MaxServed /\ lowered \in BOOLEAN
  /\ \A p \in Requests : pc[p] = "saving" => seen[p].batch \in Batches
                           /\ seen[p].done \in 0..Len(seen[p].batch.rows)

\* Where every batch names its whole section, as the marks grid sends it, the
\* marks of a section in a paper all come from one batch: none is left half
\* written or mixed with another, refused rows and aborts included.
WholeSections ==
  \A b \in Batches : StudentsOf(b) = Roster(Section(b))
BatchesDoNotMix ==
  WholeSections =>
    \A e \in Papers, s, t \in Students :
      SectionOf[s] = SectionOf[t] /\ marks[e][s] # None /\ marks[e][s].by \in Requests
        => marks[e][t] # None /\ marks[e][t].by = marks[e][s].by

\* Unless a maximum was lowered, nobody has more than the whole percentage.
PercentWithinHundred ==
  ~lowered => \A x \in Exams, s \in Students : ExamPercent(x, marks, papers, s) <= 10000

\* Results depend on the tables alone, and every table is reached with no
\* request in flight: that is when they are looked at.
Quiet == Nobody

\* A student's rank is one more than the number of those who did better.
RankCountsBetter ==
  Quiet => \A x \in Exams :
    LET P(s) == ExamPercent(x, marks, papers, s)
        rank == ClassRank(x, marks, papers)
    IN  /\ \A s \in Students : rank[s] = 1 + Cardinality({t \in Students : P(t) > P(s)})
        /\ \A section \in Sections :
             \A s \in {t \in Students : SectionOf[t] = section} :
               /\ SectionRank(x, marks, papers, section)[s] <= rank[s]
               /\ SectionRank(x, marks, papers, section)[s] = 1 +
                    Cardinality({t \in Students : SectionOf[t] = section /\ P(t) > P(s)})

Between(n, set) == set # {} => n \in Min(set)..Max(set)
\* An average lies between the smallest and the largest of what it averages:
\* the annual percentage, a subject over the year, a paper's average, the
\* grade points of a term and of a course.
AveragesInRange == Quiet =>
  /\ \A s \in Students :
       LET P(x) == ExamPercent(x, marks, papers, s)
           G(x) == SGPA(x, marks, papers, bands, s)
           weighed == {x \in Exams : Weightage[x] > 0}
       IN  /\ weighed # {} => Between(AnnualPercent(Exams, marks, papers, s), {P(x) : x \in weighed})
           /\ \A e \in Papers :
                LET year == AnnualSubject(Exams, marks, papers, SubjectOf[e], s)
                    same == {d \in Papers : SubjectOf[d] = SubjectOf[e] /\ Weightage[ExamOf[d]] > 0}
                IN  year # None => Between(year, {SubjectPercent(marks[d][s], papers[d]) : d \in same})
           /\ \A x \in Exams : Between(G(x), {0} \cup {b.point : b \in bands})
           /\ LET cgpa == CGPA(Exams, marks, papers, bands, s)
              IN  cgpa # None => Between(cgpa, {G(x) : x \in Exams})
  /\ \A e \in Papers : LET a == Analysis(e, marks, papers, bands)
                       IN  a # None => a.average \in (100 * a.lowest)..(100 * a.highest)

\* What is published is computed soundly from whatever the tables hold.
ResultsSound == PercentWithinHundred /\ RankCountsBetter /\ AveragesInRange

\* No band above a passing one is a failing one.
SoundScale == \A b, c \in bands : b.min > c.min /\ b.fail => c.fail
NoWorse(old, new) ==
  \/ new = old
  \/ Status(old) # "exempt" /\ Status(new) = "present" /\ Obtained(new) >= Obtained(old)

\* Better marks never hurt: when a student's marks only rise, or are entered
\* at last, the percentage does not fall and a pass is kept.
BetterMarksHelp ==
  papers' = papers /\ bands' = bands /\ SoundScale =>
    \A x \in Exams, s \in Students :
      (\A e \in PapersOf(x) : NoWorse(marks[e][s], marks'[e][s])) =>
        /\ ExamPercent(x, marks', papers, s) >= ExamPercent(x, marks, papers, s)
        /\ ExamPassed(x, marks, papers, bands, s) => ExamPassed(x, marks', papers, bands, s)

\* "Marks for this section are locked": a batch that starts under the lock
\* changes nothing; only one that was on its way when it was set still lands.
OnlyCrossedLand ==
  \A e \in Papers, s \in Students :
    marks'[e][s] # marks[e][s] /\ <<ExamOf[e], SectionOf[s]>> \in locked =>
      \E p \in Requests : /\ pc[p] = "saving" /\ seen[p].crossed /\ pc'[p] = "idle"
                          /\ seen[p].batch.paper = e

\* What a batch changes is allowed by the lock, and an improvement in the
\* marks is one in the results.
MarksCountFairly == [][OnlyCrossedLand /\ BetterMarksHelp]_vars

\* A batch that was begun ends, though two of them may wait for each other.
SavesEnd == \A p \in Requests : pc[p] = "saving" ~> pc[p] # "saving"
=============================================================================
