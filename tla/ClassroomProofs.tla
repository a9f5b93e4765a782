-------------------------- MODULE ClassroomProofs --------------------------
EXTENDS ExamMarks, Attendance, Sums, SequenceTheorems, FiniteSetTheorems, TLAPS

(***************************************************************************)
(* The proofs of the two systems a class is kept in: its marks and the     *)
(* results computed from them (ExamMarks, Results), and its register       *)
(* (Attendance).  They share nothing but the class and lemmas on sums,     *)
(* so each part is about the specification of its own.                     *)
(***************************************************************************)
-----------------------------------------------------------------------------
(***************************************************************************)
(* What the tables and the batches under way look like.  A batch has found *)
(* the rows it wrote so far acceptable by the paper it read.               *)
(***************************************************************************)
SaveWork == [batch : Batches, paper : PaperRow, done : Nat, crossed : BOOLEAN]
Checked(work) ==
  /\ work.done <= Len(work.batch.rows)
  /\ \A k \in 1..work.done : Acceptable(work.batch.rows[k].mark, work.paper)
ExamCarries(step, what) ==
  /\ step = "saving" => what \in SaveWork /\ Checked(what)
  /\ step = "scale" => what.scale \in Scales

MarkTables ==
  /\ marks \in [Papers -> [Students -> MarkRow \cup {None}]]
  /\ papers \in [Papers -> PaperRow]
ScaleShape(scale) == scale \subseteq BandRow /\ IsFiniteSet(scale) /\ (scale # {} => \E b \in scale : b.min = 0)
ExamCarried ==
  /\ DOMAIN pc = Requests /\ DOMAIN seen = Requests
  /\ \A p \in Requests : ExamCarries(pc[p], seen[p])
ExamShape == MarkTables /\ ScaleShape(bands) /\ ExamCarried

\* While no maximum is lowered, the marks fit their papers, and so do those
\* that are on their way.
FitsPaper(mark, paper) == mark # None => Acceptable(mark, paper)
Roomier(old, new) == old.theory <= new.theory /\ old.practical <= new.practical
MarksFit ==
  ~lowered =>
    /\ \A e \in Papers, s \in Students : FitsPaper(marks[e][s], papers[e])
    /\ \A p \in Requests : pc[p] = "saving" => Roomier(seen[p].paper, papers[seen[p].batch.paper])

\* A batch under way in a locked section was there before the lock.
LockKnown == \A p \in Requests : pc[p] = "saving" => seen[p].crossed \/ Unlocked(seen[p].batch)

-----------------------------------------------------------------------------
\* The rows of a batch name students, with marks of a kind.
LEMMA BatchRow ==
  ASSUME NEW b \in Batches, NEW k \in DOMAIN b.rows
  PROVE  /\ b.paper \in Papers /\ b.rows[k].student \in Students /\ b.rows[k].mark \in Marked
         /\ b.rows[k].student \in StudentsOf(b) /\ SectionOf[b.rows[k].student] = Section(b)
<1>1. b.rows \in Seq([student : Students, mark : Marked]) /\ b.paper \in Papers /\ StudentsOf(b) \subseteq Roster(Section(b))
  BY BatchesAssumption
<1>2. b.rows[k] \in [student : Students, mark : Marked]
  <2>1. k \in 1..Len(b.rows)
    BY <1>1
  <2>2. QED
    BY <1>1, <2>1, ElementOfSeq
<1>3. b.rows[k].student \in StudentsOf(b)
  BY DEF StudentsOf
<1>4. QED
  BY <1>1, <1>2, <1>3 DEF Roster

\* What is stored of a row is a Mark row, and fits the paper the row fits.
LEMMA StoredRow ==
  ASSUME NEW m \in Marked, NEW paper \in PaperRow, NEW p \in Requests
  PROVE  /\ Stored(m, paper, p) \in MarkRow /\ Stored(m, paper, p).by = p /\ Stored(m, paper, p) # None
         /\ Acceptable(m, paper) => Acceptable(Stored(m, paper, p), paper)
<1>1. Stored(m, paper, p) \in MarkRow
  BY DEF Stored, MarkRow, Marked
<1>2. Acceptable(m, paper) => Acceptable(Stored(m, paper, p), paper)
  BY DEF Stored, Acceptable, Given, PaperRow
<1>3. QED
  BY <1>1, <1>2, EarlierAssumption DEF Stored

\* What a batch leaves in the cell of one of its students.
Landed(b, paper, p, s, new) ==
  \E k \in DOMAIN b.rows : b.rows[k].student = s /\ new = Stored(b.rows[k].mark, paper, p)
\* The cell of a table after a batch has been written to it.
LEMMA CellWritten ==
  ASSUME MarkTables, NEW p \in Requests, seen[p] \in SaveWork, Written(p), NEW e \in Papers, NEW s \in Students
  PROVE  LET b == seen[p].batch
             new == WithRows(p, seen[p].done)[e][s]
         IN  IF e = b.paper /\ s \in StudentsOf(b) THEN Landed(b, seen[p].paper, p, s, new)
             ELSE new = marks[e][s]
<1> DEFINE b == seen[p].batch
           n == seen[p].done
           Of(t) == {k \in 1..n : b.rows[k].student = t}
           row == [t \in Students |-> IF Of(t) = {} THEN marks[b.paper][t]
                                       ELSE Stored(b.rows[Max(Of(t))].mark, seen[p].paper, p)]
<1>1. b \in Batches /\ n = Len(b.rows) /\ b.paper \in Papers /\ b.rows \in Seq([student : Students, mark : Marked])
  BY BatchesAssumption DEF SaveWork, Written
<1>2. DOMAIN b.rows = 1..n /\ n \in Nat
  BY <1>1
<1>3. WithRows(p, n) = [marks EXCEPT ![b.paper] = row]
  BY DEF WithRows
<1>4. WithRows(p, n)[e] = IF e = b.paper THEN row ELSE marks[e]
  BY <1>3 DEF MarkTables
<1>5. (Of(s) # {}) <=> s \in StudentsOf(b)
  BY <1>2 DEF StudentsOf
<1>6. Of(s) # {} => Max(Of(s)) \in Of(s)
  <2>1. IsFiniteSet(Of(s)) /\ \A k \in Of(s) : k \in Int
    <3>1. Of(s) \in SUBSET (1..n) /\ 1..n \subseteq Int
      BY <1>2
    <3>2. IsFiniteSet(1..n)
      BY <1>2, FS_Interval
    <3> HIDE DEF Of
    <3>3. QED
      BY <3>1, <3>2, FS_Subset
  <2> HIDE DEF Of
  <2>2. QED
    BY <2>1, GreatestOf
<1>7. row[s] = IF Of(s) = {} THEN marks[b.paper][s] ELSE Stored(b.rows[Max(Of(s))].mark, seen[p].paper, p)
  OBVIOUS
<1>8. Of(s) # {} => Landed(b, seen[p].paper, p, s, Stored(b.rows[Max(Of(s))].mark, seen[p].paper, p))
  BY <1>2, <1>6 DEF Landed
<1> HIDE DEF Of, row
<1>9. QED
  BY <1>4, <1>5, <1>7, <1>8

\* So the table stays one of Mark rows, ...
LEMMA TableWritten ==
  ASSUME MarkTables, NEW p \in Requests, seen[p] \in SaveWork, Written(p)
  PROVE  WithRows(p, seen[p].done) \in [Papers -> [Students -> MarkRow \cup {None}]]
<1> DEFINE new == WithRows(p, seen[p].done)
           b == seen[p].batch
<1>1. b \in Batches /\ seen[p].paper \in PaperRow
  BY DEF SaveWork
<1>2. ASSUME NEW e \in Papers, NEW s \in Students PROVE new[e][s] \in MarkRow \cup {None}
  <2>1. CASE e = b.paper /\ s \in StudentsOf(b)
    <3>1. Landed(b, seen[p].paper, p, s, new[e][s])
      BY <2>1, CellWritten
    <3>2. QED
      BY <1>1, <3>1, BatchRow, StoredRow DEF Landed
  <2>2. CASE ~(e = b.paper /\ s \in StudentsOf(b))
    <3>1. new[e][s] = marks[e][s]
      BY <2>2, CellWritten
    <3>2. QED
      BY <3>1 DEF MarkTables
  <2>3. QED
    BY <2>1, <2>2
<1>3. \E f, g : new = [marks EXCEPT ![f] = [s \in Students |-> g[s]]]
  <2>1. \E g : new = [marks EXCEPT ![b.paper] = [s \in Students |-> g[s]]]
    <3> DEFINE Of(t) == {k \in 1..seen[p].done : b.rows[k].student = t}
               g == [t \in Students |-> IF Of(t) = {} THEN marks[b.paper][t]
                                         ELSE Stored(b.rows[Max(Of(t))].mark, seen[p].paper, p)]
    <3>1. new = [marks EXCEPT ![b.paper] = g] /\ g = [s \in Students |-> g[s]]
      BY DEF WithRows
    <3> HIDE DEF g
    <3>2. QED
      BY <3>1
  <2>2. QED
    BY <2>1
<1>4. new = [e \in Papers |-> new[e]] /\ \A e \in Papers : new[e] = [s \in Students |-> new[e][s]]
  BY <1>3 DEF MarkTables
<1> HIDE DEF new
<1>5. \A e \in Papers : new[e] \in [Students -> MarkRow \cup {None}]
  BY <1>2, <1>4
<1> DEFINE table == [e \in Papers |-> new[e]]
<1>6. table \in [Papers -> [Students -> MarkRow \cup {None}]]
  BY <1>5
<1>7. new = table
  BY <1>4
<1> HIDE DEF table
<1>8. QED
  BY <1>6, <1>7 DEF new

-----------------------------------------------------------------------------
\* A request that goes on carries what its next step needs.
LEMMA ExamGoes ==
  ASSUME ExamCarried, NEW p \in Requests, NEW step, NEW what, Goes(p, step, what), ExamCarries(step, what)
  PROVE  ExamCarried'
<1>1. pc' = [pc EXCEPT ![p] = step] /\ seen' = [seen EXCEPT ![p] = what]
  BY DEF Goes
<1>2. \A q \in Requests : ExamCarries(pc'[q], seen'[q])
  BY <1>1 DEF ExamCarried
<1>3. QED
  BY <1>1, <1>2 DEF ExamCarried, ExamCarries

\* One that is answered carries nothing.
LEMMA ExamDone ==
  ASSUME ExamCarried, NEW p \in Requests, Done(p)
  PROVE  ExamCarried'
<1>1. Goes(p, "idle", None) /\ ExamCarries("idle", None)
  BY DEF Done, Continue, ExamCarries
<1>2. QED
  BY <1>1, ExamGoes

\* A step of the rows: the row is acceptable, so the batch goes on.
LEMMA RowChecked ==
  ASSUME ExamCarried, NEW p \in Requests, pc[p] = "saving", ~Written(p), Acceptable(NextRow(p).mark, seen[p].paper)
  PROVE  ExamCarries("saving", [seen[p] EXCEPT !.done = @ + 1])
<1> DEFINE work == seen[p]
           more == [work EXCEPT !.done = @ + 1]
<1>1. work \in SaveWork /\ Checked(work)
  BY DEF ExamCarried, ExamCarries
<1>2. more \in SaveWork /\ more.done = work.done + 1 /\ more.batch = work.batch /\ more.paper = work.paper
  BY <1>1 DEF SaveWork
<1>3. work.done \in Nat /\ Len(work.batch.rows) \in Nat
  <2>1. work.batch \in Batches
    BY <1>1 DEF SaveWork
  <2>2. QED
    BY <1>1, <2>1, BatchesAssumption, LenProperties DEF SaveWork
<1>4. work.done < Len(work.batch.rows)
  BY <1>1, <1>3 DEF Checked, Written
<1>5. Acceptable(work.batch.rows[work.done + 1].mark, work.paper)
  BY DEF NextRow
<1> HIDE DEF work, more
<1>6. \A k \in 1..more.done : k \in 1..work.done \/ k = work.done + 1
  BY <1>2, <1>3
<1>7. Checked(more)
  BY <1>1, <1>2, <1>3, <1>4, <1>5, <1>6 DEF Checked
<1>8. QED
  BY <1>2, <1>7 DEF ExamCarries, more, work

-----------------------------------------------------------------------------
\* The shape is kept, one action after the other.
LEMMA ExamShapeKept ==
  ASSUME ExamShape, [Next]_vars
  PROVE  ExamShape'
<1> USE DEF ExamShape
<1>1. CASE UNCHANGED vars
  BY <1>1 DEF vars, requestVars, MarkTables, ExamCarried
<1>2. ASSUME NEW p \in Requests, SaveStep(p) PROVE ExamShape'
  <2>1. UNCHANGED bands
    BY <1>2 DEF SaveStep, SaveBegin, SaveRow, SaveCommit, Deadlock
  <2>2. ASSUME NEW batch \in Batches, SaveBegin(p, batch) PROVE MarkTables' /\ ExamCarried'
    <3> DEFINE work == [batch |-> batch, paper |-> papers[batch.paper], done |-> 0, crossed |-> FALSE]
    <3>1. batch.paper \in Papers /\ Len(batch.rows) \in Nat
      BY BatchesAssumption, LenProperties
    <3>2. ExamCarries("saving", work)
      BY <3>1 DEF ExamCarries, SaveWork, Checked, MarkTables
    <3>3. Goes(p, "saving", work)
      BY <2>2 DEF SaveBegin, Begin
    <3> HIDE DEF work
    <3>4. ExamCarried'
      BY <3>2, <3>3, ExamGoes
    <3>5. QED
      BY <2>2, <3>4 DEF SaveBegin, MarkTables
  <2>3. CASE SaveRow(p)
    <3>1. MarkTables'
      BY <2>3 DEF SaveRow, MarkTables, AfterRefusal
    <3>2. CASE Acceptable(NextRow(p).mark, seen[p].paper)
      <4>1. Goes(p, "saving", [seen[p] EXCEPT !.done = @ + 1])
        BY <2>3, <3>2 DEF SaveRow, Continue
      <4>2. ExamCarries("saving", [seen[p] EXCEPT !.done = @ + 1])
        BY <2>3, <3>2, RowChecked DEF SaveRow
      <4>3. QED
        BY <2>1, <3>1, <4>1, <4>2, ExamGoes DEF ScaleShape
    <3>3. CASE ~Acceptable(NextRow(p).mark, seen[p].paper)
      BY <2>3, <3>1, <3>3, ExamDone DEF SaveRow
    <3>4. QED
      BY <2>1, <3>1, <3>2, <3>3
  <2>4. CASE SaveCommit(p)
    <3>1. seen[p] \in SaveWork /\ Written(p)
      BY <2>4 DEF SaveCommit, ExamCarried, ExamCarries
    <3>2. marks' \in [Papers -> [Students -> MarkRow \cup {None}]]
      BY <2>4, <3>1, TableWritten DEF SaveCommit
    <3>3. QED
      BY <2>1, <2>4, <3>2, ExamDone DEF SaveCommit, MarkTables
  <2>5. CASE Deadlock(p)
    BY <2>5, ExamDone DEF Deadlock, MarkTables
  <2>6. QED
    BY <1>2, <2>1, <2>2, <2>3, <2>4, <2>5 DEF SaveStep
<1>3. ASSUME NEW p \in Requests, SetupStep(p) PROVE ExamShape'
  <2>1. MarkTables'
    BY <1>3 DEF SetupStep, EditScale, CreateBands, MarkTables
  <2>2. ASSUME NEW scale \in Scales, EditScale(p, scale) PROVE ScaleShape(bands)' /\ ExamCarried'
    <3>1. ExamCarries("scale", [scale |-> scale]) /\ Goes(p, "scale", [scale |-> scale])
      BY <2>2 DEF EditScale, Begin, ExamCarries
    <3>2. QED
      BY <2>2, <3>1, ExamGoes, FS_EmptySet DEF EditScale, ScaleShape
  <2>3. CASE CreateBands(p)
    <3>1. seen[p].scale \in Scales
      BY <2>3 DEF CreateBands, ExamCarried, ExamCarries
    <3>2. ScaleShape(bands \cup seen[p].scale)
      BY <3>1, ScalesAssumption, FS_Union DEF ScaleShape
    <3>3. bands' = bands \cup seen[p].scale /\ Done(p)
      BY <2>3 DEF CreateBands
    <3>4. ScaleShape(bands')
      BY <3>2, <3>3
    <3>5. ExamCarried'
      BY <3>3, ExamDone
    <3>6. QED
      BY <2>1, <3>4, <3>5
  <2>4. QED
    BY <1>3, <2>1, <2>2, <2>3 DEF SetupStep
<1>4. ASSUME NEW p \in Requests, Abort(p) PROVE ExamShape'
  BY <1>4, ExamDone DEF Abort, MarkTables
<1>5. ASSUME NEW x \in Exams, NEW section \in Sections, Lock(x, section) PROVE ExamShape'
  <2>1. \A p \in Requests : seen'[p] = seen[p] \/ (pc[p] = "saving" /\ seen'[p] = [seen[p] EXCEPT !.crossed = TRUE])
    BY <1>5 DEF Lock
  <2>2. ASSUME NEW p \in Requests PROVE ExamCarries(pc[p], seen'[p])
    <3>1. CASE seen'[p] = seen[p]
      BY <3>1 DEF ExamCarried
    <3>2. CASE pc[p] = "saving" /\ seen'[p] = [seen[p] EXCEPT !.crossed = TRUE]
      <4>1. seen[p] \in SaveWork /\ Checked(seen[p])
        BY <3>2 DEF ExamCarried, ExamCarries
      <4>2. /\ seen'[p] \in SaveWork /\ seen'[p].done = seen[p].done
            /\ seen'[p].batch = seen[p].batch /\ seen'[p].paper = seen[p].paper
        BY <3>2, <4>1 DEF SaveWork
      <4>3. QED
        BY <3>2, <4>1, <4>2 DEF ExamCarries, Checked
    <3>3. QED
      BY <2>1, <3>1, <3>2
  <2>3. ExamCarried'
    BY <1>5, <2>2 DEF Lock, ExamCarried, ExamCarries
  <2>4. QED
    BY <1>5, <2>3 DEF Lock, MarkTables
<1>6. ASSUME NEW x \in Exams, NEW section \in Sections, Unlock(x, section) PROVE ExamShape'
  BY <1>6 DEF Unlock, MarkTables, ExamCarried
<1>7. ASSUME NEW e \in Papers, NEW paper \in PaperEdits, EditPaper(e, paper) PROVE ExamShape'
  <2>1. paper \in PaperRow
    BY PapersAssumption
  <2>2. QED
    BY <1>7, <2>1 DEF EditPaper, AtOnce, MarkTables, ExamCarried
<1>8. ASSUME NEW x \in Exams, Publish(x) PROVE ExamShape'
  BY <1>8 DEF Publish, AtOnce, MarkTables, ExamCarried
<1>9. QED
  BY <1>1, <1>2, <1>3, <1>4, <1>5, <1>6, <1>7, <1>8 DEF Next

\* It holds at the start, also of tables that others have filled.
LEMMA ExamShapeInit == Init => ExamShape
<1> SUFFICES ASSUME Init PROVE ExamShape
  OBVIOUS
<1>1. marks \in [Papers -> [Students -> MarkRow \cup {None}]]
  BY EarlierAssumption DEF Init, NoMarks
<1>2. papers \in [Papers -> PaperRow]
  BY PapersAssumption DEF Init
<1>3. ScaleShape(bands)
  BY ScalesAssumption DEF Init, ScaleShape
<1>4. ExamCarried
  BY DEF Init, ExamCarried, ExamCarries
<1>5. QED
  BY <1>1, <1>2, <1>3, <1>4 DEF ExamShape, MarkTables

-----------------------------------------------------------------------------
(***************************************************************************)
(* What the marks are after a step.                                        *)
(***************************************************************************)
\* Nothing but a commit changes marks.
LEMMA OnlyCommits ==
  ASSUME [Next]_vars, marks' # marks
  PROVE  \E p \in Requests : SaveCommit(p)
<1>1. ASSUME NEW p \in Requests, SaveStep(p) PROVE SaveCommit(p)
  BY <1>1 DEF SaveStep, SaveBegin, SaveRow, AfterRefusal, Deadlock
<1>2. QED
  BY <1>1 DEF Next, vars, SetupStep, EditScale, CreateBands, Abort, Lock, Unlock, EditPaper, Publish

\* What it writes belongs to the batch, and the rest stays.
LEMMA CommitWrites ==
  ASSUME ExamShape, NEW p \in Requests, SaveCommit(p), NEW e \in Papers, NEW s \in Students
  PROVE  LET b == seen[p].batch
         IN  /\ b \in Batches /\ seen[p].paper \in PaperRow
             /\ IF e = b.paper /\ s \in StudentsOf(b) THEN Landed(b, seen[p].paper, p, s, marks'[e][s])
                ELSE marks'[e][s] = marks[e][s]
<1>1. seen[p] \in SaveWork /\ Written(p) /\ marks' = WithRows(p, seen[p].done)
  BY DEF SaveCommit, ExamShape, ExamCarried, ExamCarries
<1>2. seen[p].batch \in Batches /\ seen[p].paper \in PaperRow
  BY <1>1 DEF SaveWork
<1>3. QED
  BY <1>1, <1>2, CellWritten DEF ExamShape

\* Where every batch names its whole section, the marks of a section in a
\* paper all come from one batch.
LEMMA MixKept ==
  ASSUME ExamShape, BatchesDoNotMix, [Next]_vars
  PROVE  BatchesDoNotMix'
<1> SUFFICES ASSUME WholeSections, NEW e \in Papers, NEW s \in Students, NEW t \in Students,
                    SectionOf[s] = SectionOf[t], marks'[e][s] # None, marks'[e][s].by \in Requests
             PROVE  marks'[e][t] # None /\ marks'[e][t].by = marks'[e][s].by
  BY DEF BatchesDoNotMix
<1>1. CASE marks' = marks
  BY <1>1 DEF BatchesDoNotMix
<1>2. CASE marks' # marks
  <2>1. PICK p \in Requests : SaveCommit(p)
    BY <1>2, OnlyCommits
  <2> DEFINE b == seen[p].batch
  <2>2. b \in Batches /\ seen[p].paper \in PaperRow
    BY <2>1, CommitWrites
  <2>3. StudentsOf(b) = Roster(Section(b))
    BY <2>2 DEF WholeSections
  <2>4. s \in StudentsOf(b) <=> t \in StudentsOf(b)
    BY <2>3 DEF Roster
  <2>5. ASSUME NEW u \in Students, e = b.paper, u \in StudentsOf(b)
        PROVE  marks'[e][u] # None /\ marks'[e][u].by = p
    <3>1. Landed(b, seen[p].paper, p, u, marks'[e][u])
      BY <2>1, <2>5, CommitWrites
    <3>2. QED
      BY <2>2, <3>1, BatchRow, StoredRow DEF Landed
  <2>6. CASE e = b.paper /\ s \in StudentsOf(b)
    BY <2>4, <2>5, <2>6
  <2>7. CASE ~(e = b.paper /\ s \in StudentsOf(b))
    <3>1. marks'[e][s] = marks[e][s] /\ marks'[e][t] = marks[e][t]
      BY <2>1, <2>4, <2>7, CommitWrites
    <3>2. QED
      BY <3>1 DEF BatchesDoNotMix
  <2>8. QED
    BY <2>6, <2>7
<1>3. QED
  BY <1>1, <1>2

\* The marks of earlier terms are of no batch.
LEMMA MixInit == Init => BatchesDoNotMix
  BY EarlierAssumption DEF Init, NoMarks, BatchesDoNotMix

\* Where batches name whole sections, the marks of a section in a paper all
\* come from one batch, for any class and papers and however batches overlap
\* (save_marks, apps/exam/services.py).
THEOREM BatchesStayWhole == Spec => []BatchesDoNotMix
<1>1. Init => ExamShape /\ BatchesDoNotMix
  BY ExamShapeInit, MixInit
<1>2. ExamShape /\ BatchesDoNotMix /\ [Next]_vars => (ExamShape /\ BatchesDoNotMix)'
  BY ExamShapeKept, MixKept
<1>3. QED
  BY <1>1, <1>2, PTL DEF Spec

-----------------------------------------------------------------------------
(***************************************************************************)
(* Marks fit their papers, and the lock is known to all but those that     *)
(* crossed it.                                                             *)
(***************************************************************************)
\* A paper with more room takes what a smaller one took.
LEMMA FitsRoomier ==
  ASSUME NEW old \in PaperRow, NEW new \in PaperRow, Roomier(old, new), NEW m, Acceptable(m, old)
  PROVE  Acceptable(m, new)
  BY DEF Roomier, Acceptable, PaperRow

\* A batch under way has just begun, or keeps its rows and the paper it read.
LEMMA SavesGoOn ==
  ASSUME ExamShape, [Next]_vars, NEW p \in Requests, pc'[p] = "saving"
  PROVE  \/ pc[p] = "saving" /\ seen'[p].paper = seen[p].paper /\ seen'[p].batch = seen[p].batch
            /\ (seen[p].crossed => seen'[p].crossed)
         \/ \E batch \in Batches : /\ seen'[p].paper = papers[batch.paper] /\ seen'[p].batch = batch
                                   /\ Unlocked(batch) /\ UNCHANGED locked
<1>1. pc[p] = "saving" => seen[p] \in SaveWork
  BY DEF ExamShape, ExamCarried, ExamCarries
<1>2. DOMAIN pc = Requests /\ DOMAIN seen = Requests
  BY DEF ExamShape, ExamCarried
<1> DEFINE Same(q) == pc'[q] = pc[q] /\ seen'[q] = seen[q]
           Stays(q) == /\ pc[q] = "saving" /\ seen'[q].paper = seen[q].paper /\ seen'[q].batch = seen[q].batch
                       /\ (seen[q].crossed => seen'[q].crossed)
           Begun == \E batch \in Batches : /\ seen'[p].paper = papers[batch.paper] /\ seen'[p].batch = batch
                                          /\ Unlocked(batch) /\ UNCHANGED locked
<1>3. ASSUME NEW q \in Requests, SaveStep(q) PROVE Stays(p) \/ Begun
  <2>1. CASE q # p
    <3>1. Same(p)
      BY <1>2, <1>3, <2>1 DEF SaveStep, SaveBegin, SaveRow, SaveCommit, Deadlock, Begin, Done, Continue, Goes
    <3>2. QED
      BY <3>1
  <2>2. ASSUME NEW batch \in Batches, SaveBegin(p, batch) PROVE Begun
    <3>1. seen'[p] = [batch |-> batch, paper |-> papers[batch.paper], done |-> 0, crossed |-> FALSE]
      BY <1>2, <2>2 DEF SaveBegin, Begin, Goes
    <3>2. QED
      BY <2>2, <3>1 DEF SaveBegin
  <2>3. CASE SaveRow(p)
    <3>1. pc[p] = "saving" /\ (seen'[p] = [seen[p] EXCEPT !.done = @ + 1] \/ pc'[p] = "idle")
      BY <1>2, <2>3 DEF SaveRow, Continue, Goes, Done
    <3>2. QED
      BY <1>1, <3>1 DEF SaveWork
  <2>4. CASE SaveCommit(p) \/ Deadlock(p)
    BY <1>2, <2>4 DEF SaveCommit, Deadlock, Done, Continue, Goes
  <2>5. QED
    BY <1>3, <2>1, <2>2, <2>3, <2>4 DEF SaveStep
<1>4. ASSUME NEW q \in Requests, SetupStep(q) \/ Abort(q) PROVE Same(p)
  BY <1>2, <1>4 DEF SetupStep, EditScale, CreateBands, Abort, Begin, Done, Continue, Goes
<1>5. ASSUME NEW x \in Exams, NEW section \in Sections, Lock(x, section) PROVE Stays(p)
  <2>1. pc[p] = "saving" /\ (seen'[p] = seen[p] \/ seen'[p] = [seen[p] EXCEPT !.crossed = TRUE])
    BY <1>5 DEF Lock
  <2>2. QED
    BY <1>1, <2>1 DEF SaveWork
<1>6. (\A q \in Requests : ~(SaveStep(q) \/ SetupStep(q) \/ Abort(q))) /\ (\A x \in Exams, section \in Sections : ~Lock(x, section))
        => Same(p)
  BY DEF Next, vars, requestVars, AtOnce, Unlock, EditPaper, Publish
<1>7. Same(p) => Stays(p)
  OBVIOUS
<1> HIDE DEF Same, Stays, Begun
<1>8. Stays(p) \/ Begun
  BY <1>3, <1>4, <1>5, <1>6, <1>7
<1>9. QED
  BY <1>8 DEF Stays, Begun

\* Marks fit their papers, and those on their way will, while no maximum is
\* lowered.
LEMMA MarksFitKept ==
  ASSUME ExamShape, MarksFit, [Next]_vars
  PROVE  MarksFit'
<1> SUFFICES ASSUME ~lowered' PROVE /\ \A e \in Papers, s \in Students : FitsPaper(marks[e][s], papers[e])'
                                    /\ \A p \in Requests : pc'[p] = "saving" =>
                                         Roomier(seen'[p].paper, papers'[seen'[p].batch.paper])
  BY DEF MarksFit
<1>1. ~lowered
  BY DEF Next, vars, SaveStep, SaveBegin, SaveRow, SaveCommit, Deadlock, SetupStep, EditScale, CreateBands, Abort, Lock,
     Unlock, EditPaper, Publish
<1>2. papers \in [Papers -> PaperRow] /\ papers' \in [Papers -> PaperRow]
  BY ExamShapeKept DEF ExamShape, MarkTables
<1>3. \A e \in Papers : Roomier(papers[e], papers'[e])
  <2>1. CASE UNCHANGED papers
    BY <1>2, <2>1 DEF Roomier, PaperRow
  <2>2. ASSUME NEW e \in Papers, NEW paper \in PaperEdits, EditPaper(e, paper)
        PROVE  \A f \in Papers : Roomier(papers[f], papers'[f])
    <3>1. papers'[e] = paper /\ ~Lowers(papers[e], paper) /\ \A f \in Papers \ {e} : papers'[f] = papers[f]
      BY <1>2, <2>2 DEF EditPaper
    <3>2. QED
      BY <1>2, <3>1 DEF Lowers, Roomier, PaperRow
  <2>3. QED
    BY <2>1, <2>2 DEF Next, vars, SaveStep, SaveBegin, SaveRow, SaveCommit, Deadlock, SetupStep, EditScale, CreateBands,
       Abort, Lock, Unlock, Publish
<1>4. ASSUME NEW p \in Requests, pc[p] = "saving" PROVE /\ seen[p] \in SaveWork /\ Checked(seen[p])
                                                        /\ seen[p].batch.paper \in Papers
                                                        /\ Roomier(seen[p].paper, papers[seen[p].batch.paper])
  <2>1. seen[p] \in SaveWork /\ Checked(seen[p])
    BY <1>4 DEF ExamShape, ExamCarried, ExamCarries
  <2>2. QED
    BY <1>1, <1>4, <2>1, BatchesAssumption DEF SaveWork, MarksFit
<1>5. ASSUME NEW e \in Papers, NEW s \in Students PROVE FitsPaper(marks'[e][s], papers'[e])
  <2>1. CASE marks'[e][s] = marks[e][s]
    BY <1>1, <1>2, <1>3, <2>1, FitsRoomier DEF FitsPaper, MarksFit
  <2>2. CASE marks'[e][s] # marks[e][s]
    <3>1. PICK p \in Requests : SaveCommit(p)
      BY <2>2, OnlyCommits
    <3> DEFINE b == seen[p].batch
    <3>2. b \in Batches /\ seen[p].paper \in PaperRow /\ e = b.paper /\ Landed(b, seen[p].paper, p, s, marks'[e][s])
      BY <2>2, <3>1, CommitWrites
    <3>3. PICK k \in DOMAIN b.rows : marks'[e][s] = Stored(b.rows[k].mark, seen[p].paper, p)
      BY <3>2 DEF Landed
    <3>4. pc[p] = "saving" /\ Written(p)
      BY <3>1 DEF SaveCommit
    <3>5. Acceptable(b.rows[k].mark, seen[p].paper)
      <4>1. k \in 1..seen[p].done
        BY <3>2, <3>4, BatchesAssumption DEF Written
      <4>2. QED
        BY <1>4, <3>4, <4>1 DEF Checked
    <3>6. Acceptable(marks'[e][s], seen[p].paper)
      BY <3>2, <3>3, <3>5, BatchRow, StoredRow
    <3>7. Acceptable(marks'[e][s], papers[e])
      BY <1>2, <1>4, <3>2, <3>4, <3>6, FitsRoomier
    <3>8. QED
      BY <1>2, <1>3, <3>7, FitsRoomier DEF FitsPaper
  <2>3. QED
    BY <2>1, <2>2
<1>6. ASSUME NEW p \in Requests, pc'[p] = "saving"
      PROVE  Roomier(seen'[p].paper, papers'[seen'[p].batch.paper])
  <2>1. CASE pc[p] = "saving" /\ seen'[p].paper = seen[p].paper /\ seen'[p].batch = seen[p].batch
    <3>1. seen[p].paper \in PaperRow
      BY <1>4, <2>1 DEF SaveWork
    <3>2. QED
      BY <1>2, <1>3, <1>4, <2>1, <3>1 DEF Roomier, PaperRow
  <2>2. ASSUME NEW batch \in Batches, seen'[p].paper = papers[batch.paper], seen'[p].batch = batch
        PROVE  Roomier(seen'[p].paper, papers'[seen'[p].batch.paper])
    BY <1>3, <2>2, BatchesAssumption
  <2>3. \/ pc[p] = "saving" /\ seen'[p].paper = seen[p].paper /\ seen'[p].batch = seen[p].batch
        \/ \E batch \in Batches : seen'[p].paper = papers[batch.paper] /\ seen'[p].batch = batch
    BY <1>6, SavesGoOn
  <2>4. QED
    BY <2>1, <2>2, <2>3
<1>7. QED
  BY <1>5, <1>6

\* The marks of earlier terms fit their papers.
LEMMA MarksFitInit == Init => MarksFit
<1> SUFFICES ASSUME Init PROVE MarksFit
  OBVIOUS
<1>1. \A e \in Papers, s \in Students : FitsPaper(marks[e][s], papers[e])
  BY EarlierAssumption DEF Init, NoMarks, FitsPaper
<1>2. QED
  BY <1>1 DEF Init, MarksFit

\* A batch that has not crossed a lock is of a section that is not locked.
LEMMA LockKnownKept ==
  ASSUME ExamShape, LockKnown, [Next]_vars
  PROVE  LockKnown'
<1> SUFFICES ASSUME NEW p \in Requests, pc'[p] = "saving", ~seen'[p].crossed
             PROVE  <<ExamOf[seen'[p].batch.paper], Section(seen'[p].batch)>> \notin locked'
  BY DEF LockKnown, Unlocked
<1>1. CASE pc[p] = "saving" /\ seen'[p].batch = seen[p].batch /\ (seen[p].crossed => seen'[p].crossed)
  <2>1. Unlocked(seen[p].batch)
    BY <1>1 DEF LockKnown
  <2>2. CASE locked' \subseteq locked
    BY <1>1, <2>1, <2>2 DEF Unlocked
  <2>3. ASSUME NEW x \in Exams, NEW section \in Sections, Lock(x, section)
        PROVE  <<ExamOf[seen'[p].batch.paper], Section(seen'[p].batch)>> \notin locked'
    <3>1. seen[p] \in SaveWork
      BY <1>1 DEF ExamShape, ExamCarried, ExamCarries
    <3>2. ~(Section(seen[p].batch) = section /\ ExamOf[seen[p].batch.paper] = x)
      <4>1. SUFFICES ASSUME Section(seen[p].batch) = section /\ ExamOf[seen[p].batch.paper] = x PROVE FALSE
        OBVIOUS
      <4>2. seen'[p] = [seen[p] EXCEPT !.crossed = TRUE]
        BY <1>1, <2>3, <4>1 DEF Lock
      <4>3. QED
        BY <3>1, <4>2 DEF SaveWork
    <3>3. locked' = locked \cup {<<x, section>>}
      BY <2>3 DEF Lock
    <3>4. QED
      BY <1>1, <2>1, <3>2, <3>3 DEF Unlocked
  <2>4. QED
    BY <2>2, <2>3 DEF Next, vars, SaveStep, SaveBegin, SaveRow, SaveCommit, Deadlock, SetupStep, EditScale, CreateBands,
       Abort, Unlock, EditPaper, Publish
<1>2. ASSUME NEW batch \in Batches, seen'[p].batch = batch, Unlocked(batch), UNCHANGED locked
      PROVE  <<ExamOf[seen'[p].batch.paper], Section(seen'[p].batch)>> \notin locked'
  BY <1>2 DEF Unlocked
<1>3. QED
  BY <1>1, <1>2, SavesGoOn

ExamInv == ExamShape /\ MarksFit /\ LockKnown
\* The three together hold at the start and after every step.
LEMMA ExamInvariant ==
  /\ Init => ExamInv
  /\ ExamInv /\ [Next]_vars => ExamInv'
<1>1. Init => LockKnown
  BY DEF Init, LockKnown
<1>2. QED
  BY <1>1, ExamShapeInit, MarksFitInit, ExamShapeKept, MarksFitKept, LockKnownKept DEF ExamInv

\* A batch that starts under the lock changes nothing.
LEMMA LockHolds ==
  ASSUME ExamInv, [Next]_vars
  PROVE  OnlyCrossedLand
<1> SUFFICES ASSUME NEW e \in Papers, NEW s \in Students, marks'[e][s] # marks[e][s],
                    <<ExamOf[e], SectionOf[s]>> \in locked
             PROVE  \E p \in Requests : /\ pc[p] = "saving" /\ seen[p].crossed /\ pc'[p] = "idle"
                                         /\ seen[p].batch.paper = e
  BY DEF OnlyCrossedLand
<1>1. PICK p \in Requests : SaveCommit(p)
  BY OnlyCommits
<1> DEFINE b == seen[p].batch
<1>2. b \in Batches /\ e = b.paper /\ Landed(b, seen[p].paper, p, s, marks'[e][s])
  BY <1>1, CommitWrites DEF ExamInv
<1>3. SectionOf[s] = Section(b)
  BY <1>2, BatchRow DEF Landed
<1>4. pc[p] = "saving" /\ pc'[p] = "idle"
  BY <1>1 DEF SaveCommit, Done, Continue, Goes, ExamInv, ExamShape, ExamCarried
<1>5. seen[p].crossed
  BY <1>2, <1>3, <1>4 DEF ExamInv, LockKnown, Unlocked
<1>6. QED
  BY <1>2, <1>4, <1>5

-----------------------------------------------------------------------------
(***************************************************************************)
(* Rounding                                                                *)
(***************************************************************************)
\* What a quotient is.
LEMMA Quotient ==
  ASSUME NEW a \in Int, NEW n \in Nat \ {0}
  PROVE  a \div n \in Int /\ n * (a \div n) <= a /\ a < n * (a \div n) + n
  OBVIOUS

\* A multiple of a larger number is larger.
LEMMA Scaled ==
  ASSUME NEW a \in Int, NEW b \in Int, NEW n \in Nat, a <= b
  PROVE  n * a \in Int /\ n * b \in Int /\ n * a <= n * b
  OBVIOUS

\* The rounded quotient lies between whole numbers that the quotient lies
\* between, and grows with it.
LEMMA RoundedWithin ==
  ASSUME NEW n \in Int, NEW d \in Nat \ {0}, NEW lo \in Int, NEW hi \in Int, d * lo <= n, n <= d * hi
  PROVE  q2(n, d) \in Int /\ lo <= q2(n, d) /\ q2(n, d) <= hi
<1> DEFINE D == 2 * d
           a == 2 * n + d
           q == q2(n, d)
<1>1. D \in Nat \ {0} /\ a \in Int
  OBVIOUS
<1>2. q = a \div D
  BY DEF q2
<1>3. 2 * (d * lo) <= 2 * n /\ 2 * n <= 2 * (d * hi)
  OBVIOUS
<1>4. D * lo = 2 * (d * lo) /\ D * hi = 2 * (d * hi)
  OBVIOUS
<1>a. D * lo \in Int /\ D * hi \in Int /\ d < D
  OBVIOUS
<1>5. a >= D * lo /\ a < D * hi + D
  BY <1>3, <1>4
<1> HIDE DEF D, a, q
<1>6. q \in Int /\ D * q <= a /\ a < D * q + D
  BY <1>1, <1>2, Quotient
<1>7. D * (q + 1) = D * q + D /\ D * (hi + 1) = D * hi + D /\ D * q \in Int
  BY <1>1, <1>6
<1>8. lo <= q
  <2>1. SUFFICES ASSUME q + 1 <= lo PROVE FALSE
    BY <1>6
  <2>2. D * (q + 1) <= D * lo
    BY <1>1, <1>6, <2>1, Scaled
  <2>3. QED
    BY <1>1, <1>5, <1>6, <1>7, <1>a, <2>2
<1>9. q <= hi
  <2>1. SUFFICES ASSUME hi + 1 <= q PROVE FALSE
    BY <1>6
  <2>2. D * (hi + 1) <= D * q
    BY <1>1, <1>6, <2>1, Scaled
  <2>3. QED
    BY <1>1, <1>5, <1>6, <1>7, <1>a, <2>2
<1>10. QED
  BY <1>6, <1>8, <1>9 DEF q

\* A larger part of the same whole has no smaller percentage.
LEMMA RoundedGrows ==
  ASSUME NEW m \in Int, NEW n \in Int, NEW d \in Nat \ {0}, m <= n
  PROVE  q2(m, d) <= q2(n, d)
<1> DEFINE D == 2 * d
           a == 2 * m + d
           b == 2 * n + d
           q == a \div D
           r == b \div D
<1>1. D \in Nat \ {0} /\ a \in Int /\ b \in Int /\ a <= b
  OBVIOUS
<1>2. q2(m, d) = q /\ q2(n, d) = r
  BY DEF q2
<1> HIDE DEF D, a, b
<1>3. q \in Int /\ r \in Int /\ D * q <= a /\ b < D * r + D
  BY <1>1, Quotient
<1> HIDE DEF q, r
<1>4. SUFFICES ASSUME r + 1 <= q PROVE FALSE
  BY <1>2, <1>3
<1>5. D * (r + 1) <= D * q /\ D * (r + 1) = D * r + D /\ D * r \in Int /\ D * q \in Int
  BY <1>1, <1>3, <1>4, Scaled
<1>6. QED
  BY <1>1, <1>3, <1>5

\* A percentage is a natural number, and more marks are no less of it.
LEMMA PercentGrows ==
  ASSUME NEW a \in Nat, NEW b \in Nat, NEW max \in Nat, a <= b
  PROVE  PercentOf(a, max) \in Nat /\ PercentOf(a, max) <= PercentOf(b, max)
<1>1. CASE max = 0
  BY <1>1 DEF PercentOf
<1>2. CASE max # 0
  <2>1. 10000 * a <= 10000 * b /\ {a * 10000, b * 10000} \subseteq Nat
    OBVIOUS
  <2>2. q2(a * 10000, max) <= q2(b * 10000, max)
    BY <1>2, <2>1, RoundedGrows
  <2>3. max * 0 <= a * 10000 /\ a * 10000 <= max * (a * 10000)
    <3>1. \A k \in Nat : k <= max * k
      BY <1>2
    <3>2. QED
      BY <2>1, <3>1
  <2>4. q2(a * 10000, max) \in Int /\ 0 <= q2(a * 10000, max)
    BY <1>2, <2>1, <2>3, RoundedWithin
  <2>5. QED
    BY <1>2, <2>2, <2>4 DEF PercentOf
<1>3. QED
  BY <1>1, <1>2

\* Nobody who has no more than the maximum has more than the whole.
LEMMA PercentBounded ==
  ASSUME NEW a \in Nat, NEW max \in Nat, a <= max
  PROVE  PercentOf(a, max) <= 10000
<1>1. CASE max = 0
  BY <1>1 DEF PercentOf
<1>2. CASE max # 0
  <2> DEFINE n == a * 10000
             whole == 10000
             none == 0
  <2>1. max * none <= n /\ n <= max * whole /\ n \in Int /\ whole \in Int /\ none \in Int /\ max \in Nat \ {0}
    BY <1>2
  <2> HIDE DEF n, whole, none
  <2>2. q2(n, max) <= whole
    BY <2>1, RoundedWithin
  <2>3. QED
    BY <1>2, <2>2 DEF PercentOf, n, whole
<1>3. QED
  BY <1>1, <1>2

-----------------------------------------------------------------------------
(***************************************************************************)
(* Totals and percentages.  The tables are arguments, so that the same     *)
(* holds before a step and after it.                                       *)
(***************************************************************************)
MarkTable(m) == m \in [Papers -> [Students -> MarkRow \cup {None}]]
PaperTable(ps) == ps \in [Papers -> PaperRow]

\* What counts of a row is a natural number.
LEMMA ObtainedNat ==
  ASSUME NEW row \in MarkRow \cup {None}
  PROVE  Obtained(row) \in Nat
  BY DEF Obtained, Status, Given, MarkRow

\* So does a paper.
LEMMA MaxTotalNat ==
  ASSUME NEW paper \in PaperRow
  PROVE  MaxTotal(paper) \in Nat
  BY DEF MaxTotal, PaperRow

\* The subjects that count are finitely many papers.
LEMMA CountedPapers ==
  ASSUME NEW x, NEW m, NEW s
  PROVE  Counted(x, m, s) \subseteq Papers /\ IsFiniteSet(Counted(x, m, s))
<1>1. Counted(x, m, s) \subseteq Papers
  BY DEF Counted, PapersOf
<1>2. QED
  BY <1>1, ExamAssumption, FS_Subset

\* Natural numbers have a natural sum.
LEMMA SummedNat ==
  ASSUME NEW f, IsFiniteSet(DOMAIN f), \A i \in DOMAIN f : f[i] \in Nat
  PROVE  SumFunction(f) \in Nat
  BY SumIsNat DEF SumFunction, AddsNat

\* Of two functions on one set the larger has the larger sum.
LEMMA SummedGrows ==
  ASSUME NEW f, NEW g, IsFiniteSet(DOMAIN f), DOMAIN f = DOMAIN g,
         \A i \in DOMAIN f : f[i] \in Int /\ g[i] \in Int /\ f[i] <= g[i]
  PROVE  SumFunction(f) <= SumFunction(g)
  BY SumMonotone DEF SumFunction, AddsInt

\* Totals are natural numbers.
LEMMA TotalsNat ==
  ASSUME NEW m, NEW ps, MarkTable(m), PaperTable(ps), NEW x, NEW s \in Students
  PROVE  ExamTotal(x, m, s) \in Nat /\ ExamMax(x, m, ps, s) \in Nat
<1> DEFINE f == [e \in Counted(x, m, s) |-> Obtained(m[e][s])]
           g == [e \in Counted(x, m, s) |-> MaxTotal(ps[e])]
<1>1. \A e \in Counted(x, m, s) : f[e] \in Nat /\ g[e] \in Nat
  BY CountedPapers, ObtainedNat, MaxTotalNat DEF MarkTable, PaperTable
<1>2. DOMAIN f = Counted(x, m, s) /\ DOMAIN g = Counted(x, m, s)
  OBVIOUS
<1>3. ExamTotal(x, m, s) = SumFunction(f) /\ ExamMax(x, m, ps, s) = SumFunction(g)
  BY DEF ExamTotal, ExamMax
<1> HIDE DEF f, g
<1>4. QED
  BY <1>1, <1>2, <1>3, CountedPapers, SummedNat

\* A percentage is a natural number.
LEMMA ExamPercentNat ==
  ASSUME NEW m, NEW ps, MarkTable(m), PaperTable(ps), NEW x, NEW s \in Students
  PROVE  ExamPercent(x, m, ps, s) \in Nat
  BY TotalsNat, PercentGrows DEF ExamPercent

\* Marks within their papers are within the whole.
LEMMA TotalWithinMax ==
  ASSUME NEW m, NEW ps, MarkTable(m), PaperTable(ps), NEW x, NEW s \in Students,
         \A e \in Papers : FitsPaper(m[e][s], ps[e])
  PROVE  ExamTotal(x, m, s) <= ExamMax(x, m, ps, s)
<1> DEFINE f == [e \in Counted(x, m, s) |-> Obtained(m[e][s])]
           g == [e \in Counted(x, m, s) |-> MaxTotal(ps[e])]
<1>1. ASSUME NEW e \in Counted(x, m, s) PROVE f[e] \in Int /\ g[e] \in Int /\ f[e] <= g[e]
  <2>1. e \in Papers /\ m[e][s] \in MarkRow \cup {None} /\ ps[e] \in PaperRow /\ FitsPaper(m[e][s], ps[e])
    BY CountedPapers DEF MarkTable, PaperTable
  <2>2. Obtained(m[e][s]) \in Nat /\ MaxTotal(ps[e]) \in Nat
    BY <2>1, ObtainedNat, MaxTotalNat
  <2>3. Obtained(m[e][s]) <= MaxTotal(ps[e])
    BY <2>1 DEF FitsPaper, Acceptable, Obtained, MaxTotal, Status, PaperRow, MarkRow, Given
  <2>4. QED
    BY <2>2, <2>3
<1>2. DOMAIN f = Counted(x, m, s) /\ DOMAIN g = Counted(x, m, s)
  OBVIOUS
<1>3. ExamTotal(x, m, s) = SumFunction(f) /\ ExamMax(x, m, ps, s) = SumFunction(g)
  BY DEF ExamTotal, ExamMax
<1> HIDE DEF f, g
<1>4. QED
  BY <1>1, <1>2, <1>3, CountedPapers, SummedGrows

\* Unless a maximum was lowered, nobody has more than the whole percentage.
LEMMA WholeAtMost ==
  ASSUME ExamShape, MarksFit
  PROVE  PercentWithinHundred
<1> SUFFICES ASSUME ~lowered, NEW x \in Exams, NEW s \in Students
             PROVE  ExamPercent(x, marks, papers, s) <= 10000
  BY DEF PercentWithinHundred
<1>1. MarkTable(marks) /\ PaperTable(papers)
  BY DEF ExamShape, MarkTables, MarkTable, PaperTable
<1>2. \A e \in Papers : FitsPaper(marks[e][s], papers[e])
  BY DEF MarksFit
<1>3. QED
  BY <1>1, <1>2, TotalWithinMax, TotalsNat, PercentBounded DEF ExamPercent

-----------------------------------------------------------------------------
(***************************************************************************)
(* Ranks.  A class can be put in an order of falling percentage, one       *)
(* student after the other, and the walk along it gives everybody one more *)
(* than the number of those who did better.                                *)
(***************************************************************************)
\* The values of a function on a finite set are finitely many.
LEMMA FiniteValues ==
  ASSUME NEW S, IsFiniteSet(S), NEW f
  PROVE  IsFiniteSet({f[x] : x \in S})
<1> DEFINE T == {f[x] : x \in S}
           g == [x \in S |-> f[x]]
<1>1. g \in Surjection(S, T)
  BY DEF Surjection
<1> HIDE DEF g, T
<1>2. IsFiniteSet(T)
  BY <1>1, FS_Surjection
<1>3. QED
  BY <1>2 DEF T

Falling(order, percent) ==
  \A i, j \in DOMAIN order : i < j => percent[order[i]] >= percent[order[j]]
IsOrder(order, class) ==
  /\ order \in [1..Cardinality(class) -> class]
  /\ \A i, j \in 1..Cardinality(class) : i # j => order[i] # order[j]

\* The sequences of a class, each student once, are its orders.
LEMMA OrdersOf ==
  ASSUME NEW class, NEW order
  PROVE  order \in SetToSeqs(class) <=> IsOrder(order, class)
  BY DEF SetToSeqs, IsOrder

\* The student with the least percentage comes after all others.
LEMMA OrderLonger ==
  ASSUME NEW class, IsFiniteSet(class), NEW percent, \A s \in class : percent[s] \in Nat,
         NEW t \in class, \A s \in class : percent[t] <= percent[s],
         NEW first, IsOrder(first, class \ {t}), Falling(first, percent)
  PROVE  \E order : IsOrder(order, class) /\ Falling(order, percent)
<1> DEFINE n == Cardinality(class)
           m == Cardinality(class \ {t})
           order == [i \in 1..n |-> IF i = n THEN t ELSE first[i]]
<1>1. n \in Nat /\ m \in Nat /\ n = m + 1
  <2>1. IsFiniteSet(class \ {t}) /\ m = n - 1
    BY FS_RemoveElement
  <2>2. n \in Nat /\ m \in Nat
    BY <2>1, FS_CardinalityType
  <2> HIDE DEF n, m
  <2>3. QED
    BY <2>1, <2>2
<1>2. \A i \in 1..n : i = n \/ i \in 1..m
  BY <1>1
<1>3. \A i \in 1..m : i # n /\ i \in 1..n
  BY <1>1
<1>4. DOMAIN first = 1..m /\ \A i \in 1..m : first[i] \in class \ {t}
  BY DEF IsOrder
<1>5. order[n] = t /\ \A i \in 1..m : order[i] = first[i]
  <2>1. n \in 1..n
    BY <1>1
  <2>2. QED
    BY <1>3, <2>1
<1>6. order \in [1..n -> class]
  BY <1>2, <1>4
<1>7. \A i, j \in 1..m : i # j => first[i] # first[j]
  BY DEF IsOrder
<1>8. \A i, j \in 1..m : i < j => percent[first[i]] >= percent[first[j]]
  BY <1>4 DEF Falling
<1> HIDE DEF order, n, m
<1>9. \A i, j \in 1..n : i # j => order[i] # order[j]
  BY <1>2, <1>4, <1>5, <1>7
<1>10. ASSUME NEW i \in 1..n, NEW j \in 1..n, i < j PROVE percent[order[i]] >= percent[order[j]]
  <2>1. i \in 1..m
    BY <1>1, <1>2, <1>10
  <2>2. CASE j = n
    BY <1>4, <1>5, <2>1, <2>2
  <2>3. CASE j \in 1..m
    BY <1>5, <1>8, <1>10, <2>1, <2>3
  <2>4. QED
    BY <1>2, <2>2, <2>3
<1>11. IsOrder(order, class)
  BY <1>6, <1>9 DEF IsOrder, n
<1>12. Falling(order, percent)
  BY <1>6, <1>10 DEF Falling
<1>13. QED
  BY <1>11, <1>12

\* Of a finite class, somebody has the least percentage.
LEMMA SomebodyLast ==
  ASSUME NEW class, IsFiniteSet(class), class # {}, NEW percent, \A s \in class : percent[s] \in Nat
  PROVE  \E t \in class : \A s \in class : percent[t] <= percent[s]
<1> DEFINE W == {percent[s] : s \in class}
<1>1. IsFiniteSet(W)
  BY FiniteValues
<1>2. W # {} /\ \A x \in W : x \in Int
  OBVIOUS
<1>3. \A s \in class : percent[s] \in W
  OBVIOUS
<1>4. \A x \in W : \E t \in class : x = percent[t]
  OBVIOUS
<1> HIDE DEF W
<1>5. Min(W) \in W /\ \A y \in W : Min(W) <= y
  BY <1>1, <1>2, LeastOf
<1>6. QED
  BY <1>3, <1>4, <1>5

\* Every class has an order of falling percentage: a smallest one without it
\* would become one that has it by leaving out its last.
LEMMA OrderExists ==
  ASSUME NEW class, IsFiniteSet(class), NEW percent, \A s \in class : percent[s] \in Nat
  PROVE  \E order : IsOrder(order, class) /\ Falling(order, percent)
<1> DEFINE Good(T) == \E order : IsOrder(order, T) /\ Falling(order, percent)
           Bad == {T \in SUBSET class : ~Good(T)}
<1> SUFFICES ASSUME Bad # {} PROVE FALSE
  OBVIOUS
<1>1. PICK T \in Bad : \A U \in Bad : ~(U \subseteq T /\ U # T)
  <2>1. Bad \in SUBSET (SUBSET class)
    OBVIOUS
  <2> HIDE DEF Bad
  <2> QED
    BY <2>1, SmallestSubset
<1>2. IsFiniteSet(T) /\ T \subseteq class /\ ~Good(T)
  BY <1>1, FS_Subset
<1>3. T # {}
  <2>1. Good({})
    <3> DEFINE none == [i \in 1..0 |-> i]
    <3>1. IsOrder(none, {}) /\ Falling(none, percent)
      BY FS_EmptySet DEF IsOrder, Falling
    <3>2. QED
      BY <3>1
  <2>2. QED
    BY <1>2, <2>1
<1>4. PICK t \in T : \A s \in T : percent[t] <= percent[s]
  BY <1>2, <1>3, SomebodyLast
<1>5. Good(T \ {t})
  BY <1>1, <1>2, <1>4
<1>6. QED
  BY <1>2, <1>4, <1>5, OrderLonger

\* What ByPercent chooses: everybody once, by falling percentage.
LEMMA ByPercentIs ==
  ASSUME NEW class, IsFiniteSet(class), NEW percent, \A s \in class : percent[s] \in Nat
  PROVE  LET order == ByPercent(class, percent)
         IN  /\ IsOrder(order, class) /\ Falling(order, percent)
             /\ \A s \in class : \E i \in 1..Cardinality(class) : order[i] = s
<1> DEFINE order == ByPercent(class, percent)
           n == Cardinality(class)
<1>1. \E o \in SetToSeqs(class) : \A i, j \in DOMAIN o : i < j => percent[o[i]] >= percent[o[j]]
  BY OrderExists, OrdersOf DEF Falling
<1>2. order \in SetToSeqs(class) /\ \A i, j \in DOMAIN order : i < j => percent[order[i]] >= percent[order[j]]
  BY <1>1 DEF ByPercent
<1>3. IsOrder(order, class) /\ Falling(order, percent)
  BY <1>2, OrdersOf DEF Falling
<1>4. order \in Injection(1..n, class)
  <2>1. \A i, j \in 1..n : order[i] = order[j] => i = j
    BY <1>3 DEF IsOrder
  <2>2. order \in [1..n -> class]
    BY <1>3 DEF IsOrder
  <2> HIDE DEF order, n
  <2>3. QED
    BY <2>1, <2>2 DEF Injection, IsInjective
<1>5. n \in Nat /\ Cardinality(1..n) = n
  BY FS_CardinalityType, FS_Interval
<1> HIDE DEF order
<1>6. order \in Surjection(1..n, class)
  BY <1>4, <1>5, FS_Injection
<1>7. \A s \in class : \E i \in 1..n : order[i] = s
  BY <1>6 DEF Surjection
<1>8. QED
  BY <1>3, <1>7 DEF order

\* The walk along the order, and the place it should give.
Walked(order, percent, i, before) ==
  IF i = 0 THEN 0 ELSE NextRank(before, i, i > 1 /\ percent[order[i]] = percent[order[i - 1]])
IsRank(order, percent, rank) ==
  rank = [i \in 0..Len(order) |-> Walked(order, percent, i, rank[i - 1])]
Better(n, order, percent, i) == {j \in 1..n : percent[order[j]] > percent[order[i]]}
Place(n, order, percent, i) == IF i = 0 THEN 0 ELSE 1 + Cardinality(Better(n, order, percent, i))

\* Each step of the walk goes from place to place.
LEMMA PlaceStep ==
  ASSUME NEW n \in Nat, NEW order, NEW percent, DOMAIN order = 1..n, Falling(order, percent),
         \A i \in 1..n : percent[order[i]] \in Nat, NEW i \in 1..n
  PROVE  Place(n, order, percent, i) = Walked(order, percent, i, Place(n, order, percent, i - 1))
<1> DEFINE B(k) == Better(n, order, percent, k)
<1>1. \A k \in 1..n : B(k) \subseteq 1..(k - 1)
  BY DEF Falling, Better
<1>2. CASE i = 1
  <2>1. Better(n, order, percent, i) = {}
    BY <1>1, <1>2
  <2>2. Cardinality(Better(n, order, percent, i)) = 0
    BY <2>1, FS_EmptySet
  <2>3. Place(n, order, percent, i) = 1
    BY <1>2, <2>2 DEF Place
  <2>4. QED
    BY <1>2, <2>3 DEF Walked, NextRank
<1>3. CASE i > 1 /\ percent[order[i]] = percent[order[i - 1]]
  <2>1. B(i) = B(i - 1)
    BY <1>3 DEF Better
  <2>2. QED
    BY <1>3, <2>1 DEF Place, Walked, NextRank
<1>4. CASE i > 1 /\ percent[order[i]] # percent[order[i - 1]]
  <2>1. percent[order[i - 1]] > percent[order[i]] /\ i - 1 \in 1..n
    <3>1. i - 1 \in DOMAIN order /\ i \in DOMAIN order /\ i - 1 < i
      BY <1>4
    <3>2. percent[order[i - 1]] >= percent[order[i]]
      BY <3>1 DEF Falling
    <3>3. QED
      BY <1>4, <3>1, <3>2
  <2>2. ASSUME NEW j \in 1..(i - 1) PROVE j \in B(i)
    <3>1. j \in 1..n /\ percent[order[j]] >= percent[order[i - 1]]
      <4>1. CASE j = i - 1
        BY <2>1, <4>1
      <4>2. CASE j < i - 1
        <5>1. j \in 1..n /\ i - 1 \in 1..n
          BY <2>1
        <5>2. QED
          BY <4>2, <5>1 DEF Falling
      <4>3. QED
        BY <4>1, <4>2
    <3>2. QED
      BY <2>1, <3>1 DEF Better
  <2>3. B(i) = 1..(i - 1)
    BY <1>1, <2>2
  <2>4. Cardinality(B(i)) = i - 1
    BY <1>4, <2>3, FS_Interval
  <2>5. QED
    BY <1>4, <2>4 DEF Place, Walked, NextRank
<1>5. QED
  BY <1>2, <1>3, <1>4

\* So the walk exists, and has only one outcome.
LEMMA WalkedRank ==
  ASSUME NEW n \in Nat, NEW order, NEW percent, DOMAIN order = 1..n, Len(order) = n, Falling(order, percent),
         \A i \in 1..n : percent[order[i]] \in Nat
  PROVE  /\ \E rank : IsRank(order, percent, rank)
         /\ \A rank : IsRank(order, percent, rank) => \A i \in 0..n : rank[i] = Place(n, order, percent, i)
<1>1. \E rank : IsRank(order, percent, rank)
  <2> DEFINE rank == [i \in 0..n |-> Place(n, order, percent, i)]
  <2>1. ASSUME NEW i \in 0..n PROVE rank[i] = Walked(order, percent, i, rank[i - 1])
    <3>1. CASE i = 0
      BY <3>1 DEF Place, Walked
    <3>2. CASE i # 0
      <4>1. i \in 1..n /\ i - 1 \in 0..n
        BY <3>2
      <4>2. rank[i - 1] = Place(n, order, percent, i - 1) /\ rank[i] = Place(n, order, percent, i)
        BY <4>1
      <4>3. QED
        BY <4>1, <4>2, PlaceStep
    <3>3. QED
      BY <3>1, <3>2
  <2>2. rank = [i \in 0..n |-> rank[i]]
    OBVIOUS
  <2> HIDE DEF rank
  <2>3. rank = [i \in 0..n |-> Walked(order, percent, i, rank[i - 1])]
    BY <2>1, <2>2
  <2>4. QED
    BY <2>3 DEF IsRank
<1>2. ASSUME NEW rank, IsRank(order, percent, rank)
      PROVE  \A i \in 0..n : rank[i] = Place(n, order, percent, i)
  <2> DEFINE Wrong == {i \in 0..n : rank[i] # Place(n, order, percent, i)}
  <2> SUFFICES ASSUME Wrong # {} PROVE FALSE
    OBVIOUS
  <2>1. IsFiniteSet(Wrong) /\ \A i \in Wrong : i \in Int
    <3>1. Wrong \in SUBSET (0..n) /\ 0..n \subseteq Int
      OBVIOUS
    <3>2. IsFiniteSet(0..n)
      BY FS_Interval
    <3> HIDE DEF Wrong
    <3>3. QED
      BY <3>1, <3>2, FS_Subset
  <2> DEFINE i == Min(Wrong)
  <2>2. i \in Wrong /\ \A j \in Wrong : i <= j
    <3> HIDE DEF Wrong
    <3>1. QED
      BY <2>1, LeastOf
  <2> HIDE DEF i
  <2>3. i \in 0..n /\ rank[i] # Place(n, order, percent, i)
    BY <2>2
  <2>4. rank[i] = Walked(order, percent, i, rank[i - 1])
    BY <1>2, <2>3 DEF IsRank
  <2>5. CASE i = 0
    BY <2>3, <2>4, <2>5 DEF Walked, Place
  <2>6. CASE i # 0
    <3>1. i - 1 \in 0..n /\ i \in 1..n
      BY <2>3, <2>6
    <3>2. rank[i - 1] = Place(n, order, percent, i - 1)
      BY <2>2, <3>1
    <3>3. QED
      BY <2>3, <2>4, <3>1, <3>2, PlaceStep
  <2>7. QED
    BY <2>5, <2>6
<1>3. QED
  BY <1>1, <1>2

\* Counting places along the order is counting students.
LEMMA CountAlong ==
  ASSUME NEW class, IsFiniteSet(class), NEW order, IsOrder(order, class),
         \A s \in class : \E i \in 1..Cardinality(class) : order[i] = s,
         NEW percent, NEW least
  PROVE  Cardinality({j \in 1..Cardinality(class) : percent[order[j]] > least})
           = Cardinality({t \in class : percent[t] > least})
<1> DEFINE n == Cardinality(class)
           J == {j \in 1..n : percent[order[j]] > least}
           T == {t \in class : percent[t] > least}
           f == [j \in J |-> order[j]]
<1>1. \A j \in J : order[j] \in T
  BY DEF IsOrder
<1>2. \A j, k \in J : order[j] = order[k] => j = k
  BY DEF IsOrder
<1>3. \A t \in T : \E j \in J : order[j] = t
  OBVIOUS
<1>4. IsFiniteSet(J)
  <2>1. J \in SUBSET (1..n) /\ n \in Nat
    BY FS_CardinalityType
  <2>2. IsFiniteSet(1..n)
    BY <2>1, FS_Interval
  <2> HIDE DEF J
  <2>3. QED
    BY <2>1, <2>2, FS_Subset
<1> HIDE DEF J, T
<1>5. f \in Bijection(J, T)
  BY <1>1, <1>2, <1>3 DEF Bijection, Injection, Surjection, IsInjective
<1>6. ExistsBijection(J, T)
  BY <1>5 DEF ExistsBijection
<1>7. QED
  BY <1>4, <1>6, FS_Bijection DEF J, T

\* A rank is one more than the number of those who did better.
LEMMA RankCounts ==
  ASSUME NEW class, IsFiniteSet(class), NEW percent, \A s \in class : percent[s] \in Nat, NEW s \in class
  PROVE  CompetitionRank(class, percent)[s] = 1 + Cardinality({t \in class : percent[t] > percent[s]})
<1> DEFINE order == ByPercent(class, percent)
           n == Cardinality(class)
           rank == CHOOSE r : IsRank(order, percent, r)
           i == CHOOSE j \in DOMAIN order : order[j] = s
<1>1. n \in Nat
  BY FS_CardinalityType
<1>2. IsOrder(order, class) /\ Falling(order, percent) /\ \A t \in class : \E j \in 1..n : order[j] = t
  BY ByPercentIs
<1>3. CompetitionRank(class, percent)[s] = rank[i]
  BY DEF CompetitionRank, IsRank, Walked
<1> HIDE DEF order
<1>4. DOMAIN order = 1..n /\ order \in Seq(class)
  BY <1>1, <1>2 DEF IsOrder
<1>5. Len(order) = n
  BY <1>1, <1>4
<1>6. \A j \in 1..n : percent[order[j]] \in Nat
  BY <1>2 DEF IsOrder
<1>7. i \in 1..n /\ order[i] = s
  BY <1>2, <1>4
<1> HIDE DEF i, n
<1>8. /\ \E r : IsRank(order, percent, r)
      /\ \A r : IsRank(order, percent, r) => \A j \in 0..n : r[j] = Place(n, order, percent, j)
  BY <1>1, <1>2, <1>4, <1>5, <1>6, WalkedRank
<1>9. rank[i] = Place(n, order, percent, i)
  BY <1>1, <1>7, <1>8
<1>10. Place(n, order, percent, i) = 1 + Cardinality({j \in 1..n : percent[order[j]] > percent[s]})
  BY <1>1, <1>7 DEF Place, Better
<1>11. QED
  BY <1>2, <1>3, <1>9, <1>10, CountAlong DEF n

\* Ranks of a class and of its sections, over whatever the tables hold.
LEMMA RanksAreRight ==
  ASSUME ExamShape
  PROVE  RankCountsBetter
<1> SUFFICES ASSUME NEW x \in Exams
             PROVE  LET P(s) == ExamPercent(x, marks, papers, s)
                        rank == ClassRank(x, marks, papers)
                    IN  /\ \A s \in Students : rank[s] = 1 + Cardinality({t \in Students : P(t) > P(s)})
                        /\ \A section \in Sections :
                             \A s \in {t \in Students : SectionOf[t] = section} :
                               /\ SectionRank(x, marks, papers, section)[s] <= rank[s]
                               /\ SectionRank(x, marks, papers, section)[s] = 1 +
                                    Cardinality({t \in Students : SectionOf[t] = section /\ P(t) > P(s)})
  BY DEF RankCountsBetter
<1> DEFINE P(s) == ExamPercent(x, marks, papers, s)
           percent == Percentages(x, marks, papers)
           Ahead(s) == {t \in Students : P(t) > P(s)}
<1>1. \A s \in Students : percent[s] = P(s) /\ P(s) \in Nat
  <2>1. MarkTable(marks) /\ PaperTable(papers)
    BY DEF ExamShape, MarkTables, MarkTable, PaperTable
  <2>2. QED
    BY <2>1, ExamPercentNat DEF Percentages
<1> HIDE DEF percent, P
<1>2. ASSUME NEW s \in Students PROVE ClassRank(x, marks, papers)[s] = 1 + Cardinality(Ahead(s))
  <2>1. {t \in Students : percent[t] > percent[s]} = Ahead(s)
    BY <1>1
  <2>2. QED
    BY <1>1, <2>1, RankCounts, RosterAssumption DEF ClassRank, percent
<1>3. ASSUME NEW section \in Sections, NEW s \in Students, SectionOf[s] = section
      PROVE  /\ SectionRank(x, marks, papers, section)[s] <= ClassRank(x, marks, papers)[s]
             /\ SectionRank(x, marks, papers, section)[s] = 1 +
                  Cardinality({t \in Students : SectionOf[t] = section /\ P(t) > P(s)})
  <2> DEFINE Near == {t \in Students : SectionOf[t] = section /\ P(t) > P(s)}
  <2>1. IsFiniteSet(Roster(section)) /\ s \in Roster(section) /\ Roster(section) \subseteq Students
    <3>1. Roster(section) \in SUBSET Students
      BY DEF Roster
    <3>2. QED
      BY <1>3, <3>1, RosterAssumption, FS_Subset DEF Roster
  <2>2. {t \in Roster(section) : percent[t] > percent[s]} = Near
    BY <1>1 DEF Roster
  <2>3. SectionRank(x, marks, papers, section)[s] = 1 + Cardinality(Near)
    BY <1>1, <2>1, <2>2, RankCounts DEF SectionRank, percent
  <2>4. Cardinality(Near) <= Cardinality(Ahead(s)) /\ Cardinality(Near) \in Nat /\ Cardinality(Ahead(s)) \in Nat
    <3>1. Near \in SUBSET Ahead(s) /\ Ahead(s) \in SUBSET Students
      OBVIOUS
    <3> HIDE DEF Near, Ahead
    <3>2. IsFiniteSet(Ahead(s)) /\ IsFiniteSet(Near)
      BY <3>1, RosterAssumption, FS_Subset
    <3>3. QED
      BY <3>1, <3>2, FS_Subset, FS_CardinalityType
  <2> HIDE DEF Near, Ahead
  <2>5. QED
    BY <1>2, <2>3, <2>4 DEF Near
<1>4. QED
  BY <1>2, <1>3 DEF P

-----------------------------------------------------------------------------
(***************************************************************************)
(* Averages.  A weighted mean lies between the smallest and the largest of *)
(* the values that have a weight.                                          *)
(***************************************************************************)
\* A mean of values, with weights that are not all nothing.
IsMean(weight, value, total) ==
  /\ IsFiniteSet(DOMAIN value) /\ \A i \in DOMAIN value : weight[i] \in Nat
  /\ total = SumFunction([i \in DOMAIN value |-> weight[i]])
  /\ \E i \in DOMAIN value : weight[i] > 0

\* The weighted sum is between the total weight times any bounds of the
\* values.
LEMMA WeightedBounds ==
  ASSUME NEW weight, NEW value, NEW total, IsMean(weight, value, total), NEW lo \in Int, NEW hi \in Int,
         \A i \in DOMAIN value : value[i] \in Int /\ lo <= value[i] /\ value[i] <= hi
  PROVE  /\ total \in Nat \ {0} /\ Weighted(weight, value) \in Int
         /\ total * lo <= Weighted(weight, value) /\ Weighted(weight, value) <= total * hi
<1> DEFINE S == DOMAIN value
           w == [i \in S |-> weight[i]]
           f == [i \in S |-> weight[i] * value[i]]
           low == [i \in S |-> weight[i] * lo]
           high == [i \in S |-> weight[i] * hi]
<1>1. IsFiniteSet(S) /\ \A i \in S : w[i] \in Nat
  BY DEF IsMean
<1>2. total = SumFunctionOnSet(w, S)
  BY DEF IsMean, SumFunction
<1>3. Weighted(weight, value) = SumFunctionOnSet(f, S)
  BY DEF Weighted, SumFunction
<1>4. \A i \in S : low[i] = w[i] * lo /\ high[i] = w[i] * hi
  OBVIOUS
<1>5. ASSUME NEW i \in S
      PROVE  /\ low[i] \in Int /\ f[i] \in Int /\ high[i] \in Int
             /\ low[i] <= f[i] /\ f[i] <= high[i]
  <2>1. weight[i] \in Nat /\ value[i] \in Int /\ lo <= value[i] /\ value[i] <= hi
    BY DEF IsMean
  <2>2. weight[i] * lo <= weight[i] * value[i] /\ weight[i] * lo \in Int /\ weight[i] * value[i] \in Int
    BY <2>1, Scaled
  <2>3. weight[i] * value[i] <= weight[i] * hi /\ weight[i] * hi \in Int
    BY <2>1, Scaled
  <2>4. QED
    BY <2>2, <2>3
<1>6. PICK i \in S : w[i] > 0
  BY DEF IsMean
<1> HIDE DEF S, w, f, low, high
<1>7. AddsNat(w, S) /\ AddsInt(w, S) /\ AddsInt(f, S) /\ AddsInt(low, S) /\ AddsInt(high, S)
  BY <1>1, <1>5 DEF AddsNat, AddsInt
<1>8. SumFunctionOnSet(low, S) <= SumFunctionOnSet(f, S) /\ SumFunctionOnSet(f, S) <= SumFunctionOnSet(high, S)
  BY <1>1, <1>5, <1>7, SumMonotone
<1>9. SumFunctionOnSet(low, S) = total * lo /\ SumFunctionOnSet(high, S) = total * hi
  BY <1>1, <1>2, <1>4, <1>7, SumScaled
<1>10. total \in Nat /\ w[i] <= total
  BY <1>1, <1>2, <1>6, <1>7, SumIsNat, SumHasPart
<1>11. SumFunctionOnSet(f, S) \in Int
  BY <1>1, <1>7, SumIsInt
<1>12. QED
  BY <1>1, <1>3, <1>6, <1>8, <1>9, <1>10, <1>11

\* So the mean, rounded, is between the ends of any finite set that has the
\* values in it.
LEMMA MeanBetween ==
  ASSUME NEW weight, NEW value, NEW total, IsMean(weight, value, total), NEW set, IsFiniteSet(set), set \subseteq Int,
         \A i \in DOMAIN value : value[i] \in set
  PROVE  Between(q2(Weighted(weight, value), total), set)
<1> DEFINE lo == Min(set)
           hi == Max(set)
           sum == Weighted(weight, value)
<1>1. SUFFICES ASSUME set # {} PROVE q2(sum, total) \in lo..hi
  BY DEF Between
<1>2. lo \in set /\ hi \in set /\ \A y \in set : lo <= y /\ y <= hi
  BY <1>1, LeastOf, GreatestOf
<1>3. lo \in Int /\ hi \in Int
  BY <1>2
<1> HIDE DEF lo, hi, sum
<1>4. \A i \in DOMAIN value : value[i] \in Int /\ lo <= value[i] /\ value[i] <= hi
  BY <1>2
<1>5. total \in Nat \ {0} /\ sum \in Int /\ total * lo <= sum /\ sum <= total * hi
  BY <1>3, <1>4, WeightedBounds DEF sum
<1>6. q2(sum, total) \in Int /\ lo <= q2(sum, total) /\ q2(sum, total) <= hi
  BY <1>3, <1>5, RoundedWithin
<1>7. QED
  BY <1>3, <1>6

-----------------------------------------------------------------------------
\* Of the bands that are reached, the best is chosen.
Best(band, scale, percent) ==
  /\ band \in scale /\ percent >= band.min
  /\ \A c \in scale : percent >= c.min => c.min <= band.min

\* The band found is the best one reached.
LEMMA BandReached ==
  ASSUME NEW scale, ScaleShape(scale), NEW percent \in Int, NEW b \in scale, percent >= b.min
  PROVE  Best(BandFor(scale, percent), scale, percent)
<1> DEFINE reached == {c \in scale : percent >= c.min}
           W == {c.min : c \in reached}
           min == [c \in reached |-> c.min]
<1>1. IsFiniteSet(reached) /\ reached # {}
  BY FS_Subset DEF ScaleShape
<1>2. \A c \in scale : c.min \in Nat
  BY DEF ScaleShape, BandRow
<1>3. IsFiniteSet(W)
  <2>1. W = {min[c] : c \in reached}
    OBVIOUS
  <2> HIDE DEF W, min, reached
  <2>2. QED
    BY <1>1, <2>1, FiniteValues
<1>4. W # {} /\ \A x \in W : x \in Int
  BY <1>1, <1>2
<1>5. Max(W) \in W /\ \A y \in W : y <= Max(W)
  <2> HIDE DEF W
  <2>1. QED
    BY <1>3, <1>4, GreatestOf
<1>6. \E c \in reached : \A d \in reached : d.min <= c.min
  BY <1>5
<1>7. BandFor(scale, percent) = CHOOSE c \in reached : \A d \in reached : d.min <= c.min
  BY <1>1 DEF BandFor
<1> DEFINE band == BandFor(scale, percent)
<1>8. band \in reached /\ \A d \in reached : d.min <= band.min
  <2> HIDE DEF reached
  <2>1. QED
    BY <1>6, <1>7
<1>9. QED
  BY <1>8 DEF Best

\* Where no band is reached, there is none.
LEMMA NoBand ==
  ASSUME NEW scale, NEW percent, \A b \in scale : ~(percent >= b.min)
  PROVE  BandFor(scale, percent) = None
  BY DEF BandFor

\* A percentage in a subject.
LEMMA SubjectPercentNat ==
  ASSUME NEW row \in MarkRow \cup {None}, NEW paper \in PaperRow
  PROVE  SubjectPercent(row, paper) \in Nat
<1>1. Obtained(row) \in Nat /\ MaxTotal(paper) \in Nat
  BY ObtainedNat, MaxTotalNat
<1>2. QED
  BY <1>1, PercentGrows DEF SubjectPercent

\* Points are those of a band, or none.
LEMMA PointOfBand ==
  ASSUME NEW row \in MarkRow \cup {None}, NEW paper \in PaperRow, NEW scale, ScaleShape(scale)
  PROVE  PointOf(row, paper, scale) \in {0} \cup {b.point : b \in scale}
<1> DEFINE percent == SubjectPercent(row, paper)
           band == BandFor(scale, percent)
<1>1. percent \in Nat
  BY SubjectPercentNat
<1>2. CASE \E b \in scale : percent >= b.min
  <2>1. band \in scale
    <3> HIDE DEF percent
    <3>1. QED
      BY <1>1, <1>2, BandReached DEF Best
  <2>2. PointOf(row, paper, scale) \in {0, band.point}
    BY DEF PointOf
  <2> HIDE DEF band, percent
  <2>3. QED
    BY <2>1, <2>2
<1>3. CASE ~ \E b \in scale : percent >= b.min
  BY <1>3, NoBand DEF PointOf
<1>4. QED
  BY <1>2, <1>3

\* A finite set of points or percentages.
LEMMA ScalePoints ==
  ASSUME NEW scale, ScaleShape(scale)
  PROVE  IsFiniteSet({0} \cup {b.point : b \in scale}) /\ {0} \cup {b.point : b \in scale} \subseteq Nat
<1> DEFINE point == [b \in scale |-> b.point]
           W == {b.point : b \in scale}
<1>1. W = {point[b] : b \in scale} /\ W \subseteq Nat
  BY DEF ScaleShape, BandRow
<1>2. IsFiniteSet(W)
  <2> HIDE DEF W, point
  <2>1. QED
    BY <1>1, FiniteValues DEF ScaleShape
<1>3. IsFiniteSet({0})
  BY FS_Singleton
<1>4. IsFiniteSet({0} \cup W)
  <2> HIDE DEF W
  <2>1. QED
    BY <1>2, <1>3, FS_Union
<1>5. QED
  BY <1>1, <1>4

-----------------------------------------------------------------------------
\* The annual percentage.
LEMMA AnnualBetween ==
  ASSUME NEW m, NEW ps, MarkTable(m), PaperTable(ps), NEW s \in Students,
         NEW x \in Exams, Weightage[x] > 0
  PROVE  Between(AnnualPercent(Exams, m, ps, s),
                 {ExamPercent(y, m, ps, s) : y \in {y \in Exams : Weightage[y] > 0}})
<1> DEFINE weighed == {y \in Exams : Weightage[y] > 0}
           percent == [y \in weighed |-> ExamPercent(y, m, ps, s)]
           total == WeightOf(DOMAIN percent)
           set == {ExamPercent(y, m, ps, s) : y \in weighed}
<1>1. AnnualPercent(Exams, m, ps, s) = q2(Weighted(Weightage, percent), total)
  BY DEF AnnualPercent
<1>2. DOMAIN percent = weighed /\ IsFiniteSet(weighed) /\ weighed \subseteq Exams /\ x \in weighed
  BY ExamAssumption, FS_Subset
<1>3. total = SumFunction([y \in DOMAIN percent |-> Weightage[y]])
  BY DEF WeightOf
<1>4. set = {percent[y] : y \in weighed} /\ set \subseteq Int /\ \A y \in DOMAIN percent : percent[y] \in set
  <2>1. \A y \in weighed : ExamPercent(y, m, ps, s) \in Nat
    BY ExamPercentNat
  <2>2. \A y \in weighed : percent[y] = ExamPercent(y, m, ps, s)
    OBVIOUS
  <2>3. DOMAIN percent = weighed
    OBVIOUS
  <2> HIDE DEF percent, weighed
  <2>4. QED
    BY <2>1, <2>2, <2>3
<1> HIDE DEF percent, total, set, weighed
<1>5. IsMean(Weightage, percent, total)
  BY <1>2, <1>3, ExamAssumption DEF IsMean
<1>6. IsFiniteSet(set)
  BY <1>2, <1>4, FiniteValues
<1>7. QED
  BY <1>1, <1>4, <1>5, <1>6, MeanBetween DEF set, weighed

\* A subject over the year.
LEMMA SubjectBetween ==
  ASSUME NEW m, NEW ps, MarkTable(m), PaperTable(ps), NEW s \in Students, NEW subject,
         AnnualSubject(Exams, m, ps, subject, s) # None
  PROVE  Between(AnnualSubject(Exams, m, ps, subject, s),
                 {SubjectPercent(m[d][s], ps[d]) :
                    d \in {d \in Papers : SubjectOf[d] = subject /\ Weightage[ExamOf[d]] > 0}})
<1> DEFINE same == {d \in Papers : SubjectOf[d] = subject /\ Weightage[ExamOf[d]] > 0}
           parts == {e \in Papers : /\ ExamOf[e] \in Exams /\ Weightage[ExamOf[e]] > 0
                                    /\ SubjectOf[e] = subject
                                    /\ e \in Counted(ExamOf[e], m, s) /\ MaxTotal(ps[e]) > 0}
           weight == [e \in parts |-> Weightage[ExamOf[e]]]
           percent == [e \in parts |-> SubjectPercent(m[e][s], ps[e])]
           all == [e \in same |-> SubjectPercent(m[e][s], ps[e])]
           total == SumFunction(weight)
           set == {SubjectPercent(m[d][s], ps[d]) : d \in same}
<1>1. parts # {} /\ AnnualSubject(Exams, m, ps, subject, s) = q2(Weighted(weight, percent), total)
  BY DEF AnnualSubject
<1>2. parts \subseteq same /\ IsFiniteSet(parts) /\ IsFiniteSet(same) /\ same \subseteq Papers
  BY ExamAssumption, FS_Subset
<1>3. \A d \in Papers : SubjectPercent(m[d][s], ps[d]) \in Int
  <2>1. \A d \in Papers : m[d][s] \in MarkRow \cup {None} /\ ps[d] \in PaperRow
    BY DEF MarkTable, PaperTable
  <2>2. \A d \in Papers : SubjectPercent(m[d][s], ps[d]) \in Nat
    BY <2>1, SubjectPercentNat
  <2>3. QED
    BY <2>2
<1>4. DOMAIN percent = parts /\ weight = [e \in DOMAIN percent |-> weight[e]]
  OBVIOUS
<1>5. \A e \in parts : weight[e] \in Nat /\ weight[e] > 0
  BY ExamAssumption
<1>6. \A e \in DOMAIN percent : percent[e] \in set
  BY <1>2
<1>7. set = {all[d] : d \in same} /\ set \subseteq Int
  BY <1>2, <1>3
<1> HIDE DEF percent, total, set, parts, same, weight, all
<1>8. IsMean(weight, percent, total)
  BY <1>1, <1>2, <1>4, <1>5 DEF IsMean, total
<1>9. IsFiniteSet(set)
  BY <1>2, <1>7, FiniteValues
<1>10. QED
  BY <1>1, <1>6, <1>7, <1>8, <1>9, MeanBetween DEF set, same

\* The grade points of a term.
LEMMA TermBetween ==
  ASSUME NEW m, NEW ps, MarkTable(m), PaperTable(ps), NEW scale, ScaleShape(scale), NEW s \in Students, NEW x
  PROVE  /\ SGPA(x, m, ps, scale, s) \in Int
         /\ Between(SGPA(x, m, ps, scale, s), {0} \cup {b.point : b \in scale})
<1> DEFINE counted == Counted(x, m, s)
           points == [e \in counted |-> PointOf(m[e][s], ps[e], scale)]
           total == CreditsOf(x, m, s)
           set == {0} \cup {b.point : b \in scale}
           mean == q2(Weighted(Credits, points), total)
<1>1. IsFiniteSet(set) /\ set \subseteq Int /\ 0 \in set
  BY ScalePoints
<1>2. SGPA(x, m, ps, scale, s) = IF total = 0 THEN 0 ELSE mean
  BY DEF SGPA
<1>3. counted \subseteq Papers /\ IsFiniteSet(counted)
  BY CountedPapers
<1>4. \A e \in counted : points[e] \in set
  <2>1. \A e \in counted : m[e][s] \in MarkRow \cup {None} /\ ps[e] \in PaperRow
    BY <1>3 DEF MarkTable, PaperTable
  <2> HIDE DEF counted
  <2>2. QED
    BY <2>1, PointOfBand
<1>5. total = SumFunction([e \in DOMAIN points |-> Credits[e]]) /\ DOMAIN points = counted
  BY DEF CreditsOf
<1>6. \A e \in counted : Credits[e] \in Nat \ {0}
  BY <1>3, ExamAssumption
<1>7. 0 \in Int /\ Between(0, set)
  <2>1. Min(set) \in set /\ Max(set) \in set /\ \A y \in set : Min(set) <= y /\ y <= Max(set)
    <3> HIDE DEF set
    <3>1. QED
      BY <1>1, LeastOf, GreatestOf
  <2> HIDE DEF set
  <2>2. QED
    BY <1>1, <2>1 DEF Between
<1> HIDE DEF counted, points, total, set
<1>8. CASE total = 0
  BY <1>2, <1>7, <1>8 DEF set
<1>9. CASE total # 0
  <2>1. counted # {}
    <3>1. SUFFICES ASSUME counted = {} PROVE total = 0
      BY <1>9
    <3>2. QED
      BY <1>5, <3>1, SumEmpty DEF SumFunction
  <2>2. IsMean(Credits, points, total)
    BY <1>3, <1>5, <1>6, <2>1 DEF IsMean
  <2>3. Between(mean, set)
    BY <1>1, <1>4, <1>5, <2>2, MeanBetween
  <2>4. mean \in Int
    <3>1. Min(set) \in Int /\ Max(set) \in Int /\ mean \in Min(set)..Max(set)
      BY <1>1, <2>3, LeastOf, GreatestOf DEF Between
    <3> HIDE DEF mean
    <3>2. QED
      BY <3>1
  <2>5. QED
    BY <1>2, <1>9, <2>3, <2>4 DEF set
<1>10. QED
  BY <1>8, <1>9

\* The grade points of a course.
LEMMA CourseBetween ==
  ASSUME NEW m, NEW ps, MarkTable(m), PaperTable(ps), NEW scale, ScaleShape(scale), NEW s \in Students,
         CGPA(Exams, m, ps, scale, s) # None
  PROVE  Between(CGPA(Exams, m, ps, scale, s), {SGPA(x, m, ps, scale, s) : x \in Exams})
<1> DEFINE credits == [x \in Exams |-> CreditsOf(x, m, s)]
           sat == {x \in Exams : credits[x] > 0 /\ \E e \in PapersOf(x) : m[e][s] # None}
           terms == [x \in sat |-> SGPA(x, m, ps, scale, s)]
           all == [x \in Exams |-> SGPA(x, m, ps, scale, s)]
           total == SumFunction([x \in sat |-> credits[x]])
           set == {SGPA(x, m, ps, scale, s) : x \in Exams}
<1>1. sat # {} /\ CGPA(Exams, m, ps, scale, s) = q2(Weighted(credits, terms), total)
  BY DEF CGPA
<1>2. sat \subseteq Exams /\ IsFiniteSet(sat) /\ IsFiniteSet(Exams)
  BY ExamAssumption, FS_Subset
<1>3. \A x \in Exams : SGPA(x, m, ps, scale, s) \in Int
  BY TermBetween
<1>4. \A x \in Exams : credits[x] \in Nat
  <2>1. ASSUME NEW x \in Exams PROVE CreditsOf(x, m, s) \in Nat
    <3> DEFINE f == [e \in Counted(x, m, s) |-> Credits[e]]
    <3>1. DOMAIN f = Counted(x, m, s) /\ \A e \in DOMAIN f : f[e] \in Nat
      BY CountedPapers, ExamAssumption
    <3>2. CreditsOf(x, m, s) = SumFunction(f)
      BY DEF CreditsOf
    <3> HIDE DEF f
    <3>3. QED
      BY <3>1, <3>2, CountedPapers, SummedNat
  <2>2. QED
    BY <2>1
<1>5. \A x \in sat : credits[x] > 0
  OBVIOUS
<1>6. total = SumFunction([x \in DOMAIN terms |-> credits[x]]) /\ DOMAIN terms = sat
  OBVIOUS
<1>7. set = {all[x] : x \in Exams} /\ set \subseteq Int /\ \A x \in DOMAIN terms : terms[x] \in set
  BY <1>2, <1>3
<1> HIDE DEF credits, sat, terms, total, set, all
<1>8. IsMean(credits, terms, total)
  BY <1>1, <1>2, <1>4, <1>5, <1>6 DEF IsMean
<1>9. IsFiniteSet(set)
  BY <1>2, <1>7, FiniteValues
<1>10. QED
  BY <1>1, <1>7, <1>8, <1>9, MeanBetween DEF set

\* The average of a paper lies between its lowest and its highest marks.
LEMMA PaperBetween ==
  ASSUME NEW m, NEW ps, MarkTable(m), NEW scale, NEW e \in Papers,
         Analysis(e, m, ps, scale) # None
  PROVE  LET a == Analysis(e, m, ps, scale) IN a.average \in (100 * a.lowest)..(100 * a.highest)
<1> DEFINE sat == Appeared(e, m)
           got == [s \in sat |-> Obtained(m[e][s])]
           totals == {Obtained(m[e][s]) : s \in sat}
           ones == [s \in sat |-> 1]
           a == Analysis(e, m, ps, scale)
           lo == Min(totals)
           hi == Max(totals)
           n == Cardinality(sat)
           sum == SumFunction(got)
<1>1. sat # {} /\ a.highest = hi /\ a.lowest = lo /\ a.average = q2(100 * sum, n)
  BY DEF Analysis
<1>2. sat \subseteq Students /\ IsFiniteSet(sat)
  <2>1. sat \in SUBSET Students
    BY DEF Appeared
  <2>2. QED
    BY <2>1, RosterAssumption, FS_Subset
<1>3. \A s \in sat : Obtained(m[e][s]) \in Nat
  <2>1. \A s \in sat : m[e][s] \in MarkRow \cup {None}
    BY <1>2 DEF MarkTable
  <2>2. QED
    BY <2>1, ObtainedNat
<1>4. totals = {got[s] : s \in sat} /\ totals \subseteq Int /\ totals # {}
  BY <1>1, <1>3
<1>5. DOMAIN got = sat /\ \A s \in sat : got[s] \in totals /\ ones[s] = 1
  OBVIOUS
<1> HIDE DEF sat, got, totals
<1>6. IsFiniteSet(totals)
  BY <1>2, <1>4, FiniteValues
<1>7. /\ lo \in totals /\ hi \in totals /\ \A y \in totals : lo <= y /\ y <= hi
  BY <1>4, <1>6, LeastOf, GreatestOf
<1>8. lo \in Int /\ hi \in Int
  BY <1>4, <1>7
<1>9. n = SumFunction([s \in DOMAIN got |-> ones[s]])
  <2> DEFINE f == [s \in DOMAIN got |-> ones[s]]
  <2>1. DOMAIN f = sat /\ \A s \in sat : f[s] = 1
    BY <1>5
  <2> HIDE DEF f
  <2>2. SumFunction(f) = n
    BY <1>2, <2>1, SumOfOnes DEF SumFunction
  <2>3. QED
    BY <2>2 DEF f
<1>10. IsMean(ones, got, n)
  BY <1>1, <1>2, <1>5, <1>9 DEF IsMean
<1> HIDE DEF ones, lo, hi, n
<1>11. /\ n \in Nat \ {0} /\ Weighted(ones, got) \in Int
       /\ n * lo <= Weighted(ones, got) /\ Weighted(ones, got) <= n * hi
  BY <1>4, <1>5, <1>7, <1>8, <1>10, WeightedBounds
<1>12. Weighted(ones, got) = sum
  <2>1. \A s \in sat : got[s] \in Int
    BY <1>4, <1>5
  <2>2. [s \in DOMAIN got |-> ones[s] * got[s]] = got
    BY <1>5, <2>1 DEF got
  <2>3. QED
    BY <2>2 DEF Weighted
<1> HIDE DEF sum
<1>13. /\ 100 * sum \in Int /\ 100 * lo \in Int /\ 100 * hi \in Int
       /\ n * (100 * lo) <= 100 * sum /\ 100 * sum <= n * (100 * hi)
  <2>1. 100 * (n * lo) <= 100 * sum /\ 100 * sum <= 100 * (n * hi)
    BY <1>8, <1>11, <1>12
  <2>2. n * (100 * lo) = 100 * (n * lo) /\ n * (100 * hi) = 100 * (n * hi)
    BY <1>8, <1>11
  <2>3. QED
    BY <1>8, <1>11, <1>12, <2>1, <2>2
<1> DEFINE L == 100 * lo
           H == 100 * hi
           S == 100 * sum
<1>14. L \in Int /\ H \in Int /\ S \in Int /\ n * L <= S /\ S <= n * H
  BY <1>13
<1> HIDE DEF L, H, S
<1>15. q2(S, n) \in Int /\ L <= q2(S, n) /\ q2(S, n) <= H
  BY <1>11, <1>14, RoundedWithin
<1>16. q2(S, n) \in L..H
  BY <1>14, <1>15
<1>17. QED
  BY <1>1, <1>16 DEF L, H, S

\* Every average that is shown lies between what it averages.
LEMMA AveragesAreRight ==
  ASSUME ExamShape
  PROVE  AveragesInRange
<1>1. MarkTable(marks) /\ PaperTable(papers) /\ ScaleShape(bands)
  BY DEF ExamShape, MarkTables, MarkTable, PaperTable
<1>2. ASSUME NEW s \in Students, NEW x \in Exams, Weightage[x] > 0
      PROVE  Between(AnnualPercent(Exams, marks, papers, s),
                     {ExamPercent(y, marks, papers, s) : y \in {y \in Exams : Weightage[y] > 0}})
  BY <1>1, <1>2, AnnualBetween
<1>3. ASSUME NEW s \in Students, NEW e \in Papers, AnnualSubject(Exams, marks, papers, SubjectOf[e], s) # None
      PROVE  Between(AnnualSubject(Exams, marks, papers, SubjectOf[e], s),
                     {SubjectPercent(marks[d][s], papers[d]) :
                        d \in {d \in Papers : SubjectOf[d] = SubjectOf[e] /\ Weightage[ExamOf[d]] > 0}})
  BY <1>1, <1>3, SubjectBetween
<1>4. ASSUME NEW s \in Students, NEW x \in Exams
      PROVE  Between(SGPA(x, marks, papers, bands, s), {0} \cup {b.point : b \in bands})
  BY <1>1, TermBetween
<1>5. ASSUME NEW s \in Students, CGPA(Exams, marks, papers, bands, s) # None
      PROVE  Between(CGPA(Exams, marks, papers, bands, s), {SGPA(x, marks, papers, bands, s) : x \in Exams})
  BY <1>1, <1>5, CourseBetween
<1>6. ASSUME NEW e \in Papers, Analysis(e, marks, papers, bands) # None
      PROVE  LET a == Analysis(e, marks, papers, bands) IN a.average \in (100 * a.lowest)..(100 * a.highest)
  BY <1>1, <1>6, PaperBetween
<1>7. QED
  BY <1>2, <1>3, <1>4, <1>5, <1>6 DEF AveragesInRange

\* Percentages, ranks and averages are sound in every state (exam_results,
\* _competition_rank, analysis and annual_results of apps/exam/services.py),
\* for any papers, credits, weightages, scales and marks.
THEOREM ResultsAreSound == Spec => []ResultsSound
<1>1. ExamInv => ResultsSound
  BY WholeAtMost, RanksAreRight, AveragesAreRight DEF ExamInv, ResultsSound
<1>2. QED
  BY <1>1, ExamInvariant, PTL DEF Spec

-----------------------------------------------------------------------------
(***************************************************************************)
(* Better marks.  The subjects that count stay the same, the total and so  *)
(* the percentage grow, and a higher band of a sound scale does not fail   *)
(* who a lower one passed.                                                 *)
(***************************************************************************)
\* A scale, as SoundScale has it.
SoundBands(scale) == \A b, c \in scale : b.min > c.min /\ b.fail => c.fail

\* A higher percentage does not fail where a lower one did not.
LEMMA HigherBand ==
  ASSUME NEW scale, ScaleShape(scale), SoundBands(scale), NEW low \in Nat, NEW high \in Nat, low <= high,
         FailBand(scale, high)
  PROVE  FailBand(scale, low)
<1> DEFINE old == BandFor(scale, low)
           new == BandFor(scale, high)
<1>1. scale # {}
  <2>1. SUFFICES ASSUME scale = {} PROVE FALSE
    OBVIOUS
  <2>2. new = None
    BY <2>1, NoBand
  <2>3. QED
    BY <2>2 DEF FailBand
<1>2. PICK b \in scale : b.min = 0
  BY <1>1 DEF ScaleShape
<1>3. \A c \in scale : c.min \in Nat /\ c.fail \in BOOLEAN
  BY DEF ScaleShape, BandRow
<1>4. Best(old, scale, low) /\ Best(new, scale, high)
  BY <1>2, BandReached
<1> HIDE DEF old, new
<1>5. old.min <= new.min
  BY <1>3, <1>4 DEF Best
<1>6. new.fail
  BY DEF FailBand, new
<1>7. CASE old.min = new.min
  <2>1. \A c \in scale : low >= c.min <=> high >= c.min
    BY <1>3, <1>4, <1>7 DEF Best
  <2> DEFINE Highest(set) == IF set = {} THEN None ELSE CHOOSE best \in set : \A c \in set : c.min <= best.min
             below == {c \in scale : low >= c.min}
             within == {c \in scale : high >= c.min}
  <2>2. below = within
    BY <2>1
  <2>3. old = new
    <3>1. old = Highest(below) /\ new = Highest(within)
      BY DEF BandFor, old, new
    <3> HIDE DEF Highest, below, within
    <3>2. QED
      BY <2>2, <3>1
  <2>4. QED
    BY <2>3 DEF FailBand, old, new
<1>8. CASE old.min < new.min
  <2>1. old.fail
    BY <1>3, <1>4, <1>6, <1>8 DEF SoundBands, Best
  <2>2. old # None
    <3>1. \A c \in scale : c \in BandRow
      BY DEF ScaleShape
    <3>2. QED
      BY <1>4, <3>1, ScalesAssumption DEF Best
  <2>3. QED
    BY <2>1, <2>2 DEF FailBand, old
<1>9. QED
  BY <1>3, <1>4, <1>5, <1>7, <1>8 DEF Best

\* A student's row before a step and after it: none is worse.
NoneWorse(x, old, new, s) == \A e \in PapersOf(x) : NoWorse(old[e][s], new[e][s])

\* The subjects that count are then the same.
LEMMA SameCounted ==
  ASSUME NEW x, NEW old, NEW new, NEW s, NoneWorse(x, old, new, s)
  PROVE  Counted(x, new, s) = Counted(x, old, s)
<1>1. \A e \in PapersOf(x) : Status(new[e][s]) = "exempt" <=> Status(old[e][s]) = "exempt"
  BY DEF NoneWorse, NoWorse
<1>2. QED
  BY <1>1 DEF Counted

\* So the percentage does not fall.
LEMMA PercentHelped ==
  ASSUME NEW old, NEW new, NEW ps, MarkTable(old), MarkTable(new), PaperTable(ps), NEW s \in Students, NEW x,
         NoneWorse(x, old, new, s)
  PROVE  ExamPercent(x, old, ps, s) <= ExamPercent(x, new, ps, s)
<1> DEFINE counted == Counted(x, old, s)
           f == [e \in counted |-> Obtained(old[e][s])]
           g == [e \in counted |-> Obtained(new[e][s])]
<1>1. Counted(x, new, s) = counted
  BY SameCounted
<1>2. ASSUME NEW e \in counted PROVE f[e] \in Int /\ g[e] \in Int /\ f[e] <= g[e]
  <2>1. e \in Papers /\ e \in PapersOf(x)
    BY DEF Counted, PapersOf
  <2>2. old[e][s] \in MarkRow \cup {None} /\ new[e][s] \in MarkRow \cup {None}
    BY <2>1 DEF MarkTable
  <2>3. Obtained(old[e][s]) \in Nat /\ Obtained(new[e][s]) \in Nat
    BY <2>2, ObtainedNat
  <2>4. Obtained(old[e][s]) <= Obtained(new[e][s])
    BY <2>1, <2>3 DEF NoneWorse, NoWorse
  <2>5. QED
    BY <2>3, <2>4
<1>3. DOMAIN f = counted /\ DOMAIN g = counted /\ IsFiniteSet(counted)
  BY CountedPapers
<1>4. ExamTotal(x, old, s) = SumFunction(f) /\ ExamTotal(x, new, s) = SumFunction(g)
  BY <1>1 DEF ExamTotal
<1> HIDE DEF f, g, counted
<1>5. ExamTotal(x, old, s) <= ExamTotal(x, new, s)
  BY <1>2, <1>3, <1>4, SummedGrows
<1>6. ExamMax(x, new, ps, s) = ExamMax(x, old, ps, s)
  BY <1>1 DEF ExamMax, counted
<1>7. QED
  BY <1>5, <1>6, TotalsNat, PercentGrows DEF ExamPercent

\* A subject that was passed still is.
LEMMA SubjectHelped ==
  ASSUME NEW old \in MarkRow \cup {None}, NEW new \in MarkRow \cup {None}, NEW paper \in PaperRow,
         NEW scale, ScaleShape(scale), SoundBands(scale),
         NoWorse(old, new), SubjectPassed(old, paper, scale)
  PROVE  SubjectPassed(new, paper, scale)
<1>1. CASE new = old
  BY <1>1
<1>2. CASE Status(old) # "exempt" /\ Status(new) = "present" /\ Obtained(new) >= Obtained(old)
  <2>1. Obtained(old) \in Nat /\ Obtained(new) \in Nat /\ MaxTotal(paper) \in Nat /\ paper.pass \in Nat
    BY ObtainedNat, MaxTotalNat DEF PaperRow
  <2>2. Obtained(new) >= paper.pass
    BY <1>2, <2>1 DEF SubjectPassed
  <2>3. /\ SubjectPercent(old, paper) \in Nat /\ SubjectPercent(new, paper) \in Nat
        /\ SubjectPercent(old, paper) <= SubjectPercent(new, paper)
    BY <1>2, <2>1, PercentGrows, SubjectPercentNat DEF SubjectPercent
  <2>4. ~FailBand(scale, SubjectPercent(new, paper))
    BY <2>3, HigherBand DEF SubjectPassed
  <2>5. QED
    BY <1>2, <2>2, <2>4 DEF SubjectPassed
<1>3. QED
  BY <1>1, <1>2 DEF NoWorse

\* And so is the exam.
LEMMA PassHelped ==
  ASSUME NEW old, NEW new, NEW ps, MarkTable(old), MarkTable(new), PaperTable(ps), NEW s \in Students, NEW x,
         NEW scale, ScaleShape(scale), SoundBands(scale),
         NoneWorse(x, old, new, s), ExamPassed(x, old, ps, scale, s)
  PROVE  ExamPassed(x, new, ps, scale, s)
<1>1. ASSUME NEW e \in Counted(x, new, s) PROVE SubjectPassed(new[e][s], ps[e], scale)
  <2>1. e \in Counted(x, old, s) /\ e \in Papers /\ e \in PapersOf(x)
    BY SameCounted DEF Counted, PapersOf
  <2>2. old[e][s] \in MarkRow \cup {None} /\ new[e][s] \in MarkRow \cup {None} /\ ps[e] \in PaperRow
    BY <2>1 DEF MarkTable, PaperTable
  <2>3. SubjectPassed(old[e][s], ps[e], scale)
    BY <2>1 DEF ExamPassed, FailedPapers
  <2>4. NoWorse(old[e][s], new[e][s])
    BY <2>1 DEF NoneWorse
  <2>5. QED
    BY <2>2, <2>3, <2>4, SubjectHelped
<1>2. FailedPapers(x, new, ps, scale, s) = {}
  BY <1>1 DEF FailedPapers
<1>3. ~FailBand(scale, ExamPercent(x, new, ps, s))
  <2>1. ExamPercent(x, old, ps, s) \in Nat /\ ExamPercent(x, new, ps, s) \in Nat
    BY ExamPercentNat
  <2>2. ExamPercent(x, old, ps, s) <= ExamPercent(x, new, ps, s)
    BY PercentHelped
  <2>3. QED
    BY <2>1, <2>2, HigherBand DEF ExamPassed
<1>4. ~Pending(x, new, s)
  <2>1. \A e \in PapersOf(x) : old[e][s] # None
    BY DEF ExamPassed, Pending
  <2>2. ASSUME NEW e \in PapersOf(x) PROVE new[e][s] # None
    <3>1. CASE new[e][s] = old[e][s]
      BY <2>1, <3>1
    <3>2. CASE Status(new[e][s]) = "present"
      BY <3>2 DEF Status
    <3>3. QED
      BY <3>1, <3>2 DEF NoneWorse, NoWorse
  <2>3. QED
    BY <2>2 DEF Pending
<1>5. QED
  BY <1>2, <1>3, <1>4 DEF ExamPassed

\* Better marks never hurt, whatever the step was.
LEMMA BetterHelps ==
  ASSUME ExamShape, ExamShape'
  PROVE  BetterMarksHelp
<1> SUFFICES ASSUME papers' = papers, bands' = bands, SoundScale, NEW x \in Exams, NEW s \in Students,
                    \A e \in PapersOf(x) : NoWorse(marks[e][s], marks'[e][s])
             PROVE  /\ ExamPercent(x, marks', papers, s) >= ExamPercent(x, marks, papers, s)
                    /\ ExamPassed(x, marks, papers, bands, s) => ExamPassed(x, marks', papers, bands, s)
  BY DEF BetterMarksHelp
<1>1. MarkTable(marks) /\ MarkTable(marks') /\ PaperTable(papers) /\ ScaleShape(bands)
  BY DEF ExamShape, MarkTables, MarkTable, PaperTable
<1>2. NoneWorse(x, marks, marks', s)
  BY DEF NoneWorse
<1>3. SoundBands(bands)
  BY DEF SoundScale, SoundBands
<1>4. ExamPercent(x, marks, papers, s) <= ExamPercent(x, marks', papers, s)
  BY <1>1, <1>2, PercentHelped
<1>5. ExamPercent(x, marks, papers, s) \in Nat /\ ExamPercent(x, marks', papers, s) \in Nat
  BY <1>1, ExamPercentNat
<1>6. ExamPassed(x, marks, papers, bands, s) => ExamPassed(x, marks', papers, bands, s)
  BY <1>1, <1>2, <1>3, PassHelped
<1>7. QED
  BY <1>4, <1>5, <1>6

\* A lock keeps out every batch but those that were under way, and an
\* improvement in the marks is one in the results (save_marks, lock_section and
\* exam_results), in every behaviour.
THEOREM MarksCount == Spec => MarksCountFairly
<1>1. ExamInv /\ [Next]_vars => ExamInv'
  BY ExamInvariant
<1>2. ExamInv /\ ExamInv' /\ [Next]_vars => [OnlyCrossedLand /\ BetterMarksHelp]_vars
  BY LockHolds, BetterHelps DEF ExamInv
<1>3. QED
  BY <1>1, <1>2, ExamInvariant, PTL DEF Spec, MarksCountFairly

-----------------------------------------------------------------------------
(***************************************************************************)
(* The register.  A teacher's save has its class list before it locks the  *)
(* rows that exist: everyone in it has been in the section, and whoever    *)
(* has been nowhere else is in it.                                         *)
(***************************************************************************)
Cells == {<<>>} \cup {<<row>> : row \in RecordRow}
MarkWork(work, where) ==
  /\ work.section \in Sections /\ DOMAIN work.wanted \subseteq Students
  /\ \A s \in DOMAIN work.wanted : work.wanted[s] \in Statuses /\ work.section \in where[s]
  /\ \A s \in Students : where[s] = {work.section} => s \in DOMAIN work.wanted
  /\ work.on \in Days /\ work.period \in Periods

RegisterShape ==
  /\ today \in Days /\ DOMAIN rows = Keys /\ \A k \in Keys : rows[k] \in Cells
  /\ DOMAIN stored = 1..MaxPunches /\ \A i \in 1..MaxPunches : stored[i] \in {0, 1}
\* Where the students are they have been, and they all were in a section.
RosterShape ==
  /\ DOMAIN enrolled = Students /\ DOMAIN been = Students
  /\ \A s \in Students :
       /\ enrolled[s] \in Sections \cup {None} /\ enrolled[s] \in been[s] /\ SectionOf[s] \in been[s]
       /\ active[s] \/ None \in been[s]
MarkersCarry ==
  /\ DOMAIN pc = Requests /\ DOMAIN seen = Requests
  /\ \A p \in Requests : pc[p] \in {"fetched", "marking"} => MarkWork(seen[p], been)
  /\ \A p \in Requests : pc[p] = "marking" => seen[p].existing \subseteq KeysOf(seen[p])
\* What a save has read is still so when it writes.
HasRead(work) ==
  \A k \in work.existing : rows[k] # <<>> /\ (~work.allowed => StatusOf(k) = work.wanted[k[1]])
ReadsHold == \A p \in Requests : pc[p] = "marking" => HasRead(seen[p])
\* No row is locked by two.
LocksApart ==
  \A p, q \in Requests : p # q /\ pc[p] = "marking" /\ pc[q] = "marking" => seen[p].existing \cap seen[q].existing = {}
\* A record tells a section its student has been in.
SectionsKnown == \A k \in Keys : rows[k] # <<>> => rows[k][1].section \in been[k[1]]
AttendanceInv ==
  RegisterShape /\ RosterShape /\ MarkersCarry /\ ReadsHold /\ LocksApart /\ SectionsKnown /\ MarkedAsAWhole

-----------------------------------------------------------------------------
\* Cells of the register.
LEMMA CellFacts ==
  ASSUME NEW cell \in Cells
  PROVE  /\ Len(cell) <= 1
         /\ cell # <<>> => cell[1] \in RecordRow /\ cell = <<cell[1]>>
<1>1. CASE cell = <<>>
  BY <1>1
<1>2. ASSUME NEW row \in RecordRow, cell = <<row>> PROVE Len(cell) <= 1 /\ cell[1] = row
  BY <1>2
<1>3. QED
  BY <1>1, <1>2 DEF Cells

\* A record is a cell, and is the one that was meant.
LEMMA RecordCell ==
  ASSUME NEW status \in Statuses, NEW source \in {"manual", "device"}, NEW section \in Sections \cup {None}
  PROVE  LET cell == <<Record(status, source, section)>>
         IN  /\ cell \in Cells /\ cell # <<>>
             /\ cell[1].source = source /\ cell[1].status = status /\ cell[1].section = section
<1>1. /\ Record(status, source, section) \in RecordRow
      /\ Record(status, source, section).source = source
      /\ Record(status, source, section).status = status
      /\ Record(status, source, section).section = section
  BY DEF Record, RecordRow
<1>2. \A row : <<row>> # <<>> /\ <<row>>[1] = row
  OBVIOUS
<1>3. QED
  BY <1>1, <1>2 DEF Cells

\* The keys a save is about.
LEMMA KeysWanted ==
  ASSUME NEW where, NEW work, MarkWork(work, where)
  PROVE  /\ KeysOf(work) \subseteq Keys
         /\ \A k \in KeysOf(work) : /\ k[1] \in DOMAIN work.wanted /\ k[2] = work.on /\ k[3] = work.period
                                    /\ work.wanted[k[1]] \in Statuses /\ work.section \in where[k[1]]
  BY DEF KeysOf, Keys, MarkWork

\* Nobody forgets where a student has been.
LEMMA RosterKept ==
  ASSUME RosterShape, [AttendanceNext]_attendanceVars
  PROVE  RosterShape' /\ \A s \in Students : been[s] \subseteq been'[s]
<1> DEFINE Goal == RosterShape' /\ \A s \in Students : been[s] \subseteq been'[s]
<1>1. UNCHANGED enrolments => Goal
  BY DEF RosterShape, enrolments
<1>2. ASSUME NEW s \in Students, NEW section \in Sections \cup {None}, Enrol(s, section) PROVE Goal
  <2>1. /\ DOMAIN enrolled' = Students /\ DOMAIN been' = Students /\ active' = active
        /\ \A t \in Students : /\ enrolled'[t] = IF t = s THEN section ELSE enrolled[t]
                               /\ been'[t] = IF t = s THEN been[t] \cup {section} ELSE been[t]
    BY <1>2 DEF Enrol, RosterShape
  <2>2. QED
    BY <2>1 DEF RosterShape
<1>3. ASSUME NEW s \in Students, EditStudent(s) PROVE Goal
  <2>1. /\ enrolled' = enrolled /\ DOMAIN been' = Students
        /\ \A t \in Students : been'[t] = IF t = s THEN been[t] \cup {None} ELSE been[t]
    BY <1>3 DEF EditStudent, RosterShape
  <2>2. \A t \in Students : t # s => active'[t] = active[t]
    BY <1>3 DEF EditStudent
  <2>3. \A t \in Students : active'[t] \/ None \in been'[t]
    BY <2>1, <2>2 DEF RosterShape
  <2>4. QED
    BY <2>1, <2>3 DEF RosterShape
<1>4. ASSUME NEW p \in Requests, MarkStep(p) \/ PunchStep(p) \/ Crash(p) PROVE UNCHANGED enrolments
  BY <1>4 DEF MarkStep, MarkFetch, MarkLock, MarkWrite, PunchStep, Push, Import, IngestOne, Answer, LoseAnswer, Crash
<1>5. ASSUME OfficeStep PROVE Goal
  <2>1. \A d : EditHoliday(d) => UNCHANGED enrolments
    BY DEF EditHoliday
  <2>2. \A new : EditSettings(new) => UNCHANGED enrolments
    BY DEF EditSettings
  <2>3. \A c, owner : EditCard(c, owner) => UNCHANGED enrolments
    BY DEF EditCard
  <2>4. Movers \subseteq Students
    BY BoundsAssumption
  <2> HIDE DEF Goal
  <2>5. QED
    BY <1>1, <1>2, <1>3, <1>5, <2>1, <2>2, <2>3, <2>4 DEF OfficeStep
<1>6. (\E c \in Codes : Swipe(c)) \/ NextDay \/ UNCHANGED attendanceVars => UNCHANGED enrolments
  BY DEF Swipe, NextDay, attendanceVars
<1> HIDE DEF Goal
<1>7. Goal
  BY <1>1, <1>4, <1>5, <1>6 DEF AttendanceNext
<1>8. QED
  BY <1>7 DEF Goal

\* Who has stayed in a section can be marked in it.
LEMMA StayedAttends ==
  ASSUME RosterShape, NEW section \in Sections, NEW s \in Students, Stayed(s, section)
  PROVE  s \in Attending(section)
  BY BoundsAssumption DEF RosterShape, Stayed, Attending

\* What a save has of its class list stays so while students come and go.
LEMMA WorkKept ==
  ASSUME RosterShape, [AttendanceNext]_attendanceVars, NEW work, MarkWork(work, been)
  PROVE  MarkWork(work, been')
<1>1. \A s \in Students : been[s] \subseteq been'[s] /\ been[s] # {}
  BY RosterKept DEF RosterShape
<1>2. \A s \in Students : been'[s] = {work.section} => been[s] = {work.section}
  BY <1>1
<1>3. QED
  BY <1>1, <1>2 DEF MarkWork

\* The register after a save: all of it, or nothing where an index refuses.
MarkedRow(work, k) == Record(work.wanted[k[1]], "manual", work.section)
MarkedRows(work) ==
  IF ~IndexFree(KeysOf(work) \ work.existing) THEN rows
  ELSE [k \in Keys |->
         IF k \in KeysOf(work) \ work.existing THEN Append(rows[k], MarkedRow(work, k))
         ELSE IF k \in KeysOf(work) /\ StatusOf(k) # work.wanted[k[1]] THEN <<MarkedRow(work, k)>>
         ELSE rows[k]]

\* That is what the save does.
LEMMA SaveWrites ==
  ASSUME NEW p \in Requests, MarkWrite(p)
  PROVE  pc[p] = "marking" /\ rows' = MarkedRows(seen[p])
  BY DEF MarkWrite, MarkedRows, MarkedRow

\* What a save writes: it changes no key but its own, leaves none of them
\* empty, and what it changes of another's is what it has read and locked.
LEMMA SaveEffect ==
  ASSUME RegisterShape, NEW where, NEW work, MarkWork(work, where), HasRead(work), NEW new, new = MarkedRows(work)
  PROVE  /\ DOMAIN new = Keys /\ \A k \in Keys : new[k] \in Cells
         /\ new = rows \/ \A k \in KeysOf(work) : new[k] # <<>>
         /\ \A k \in Keys : new[k] # rows[k] =>
              /\ k \in KeysOf(work) /\ new[k] # <<>> /\ new[k][1].section = work.section
              /\ rows[k] # <<>> => k \in work.existing /\ StatusOf(k) # work.wanted[k[1]]
<1> DEFINE keys == KeysOf(work)
           Write(k) == <<MarkedRow(work, k)>>
<1>1. CASE ~IndexFree(keys \ work.existing)
  BY <1>1 DEF RegisterShape, MarkedRows
<1>2. CASE IndexFree(keys \ work.existing)
  <2>1. new = [k \in Keys |->
                IF k \in keys \ work.existing THEN Append(rows[k], MarkedRow(work, k))
                ELSE IF k \in keys /\ StatusOf(k) # work.wanted[k[1]] THEN Write(k) ELSE rows[k]]
    BY <1>2 DEF MarkedRows
  <2>2. keys \subseteq Keys /\ work.section \in Sections /\ \A k \in keys : work.wanted[k[1]] \in Statuses
    BY KeysWanted DEF MarkWork
  <2>3. \A k \in keys : Write(k) \in Cells /\ Write(k) # <<>> /\ Write(k)[1].section = work.section
    BY <2>2, RecordCell DEF MarkedRow
  <2>4. \A k \in keys \ work.existing : rows[k] = <<>>
    BY <1>2 DEF IndexFree
  <2>5. \A k \in keys \ work.existing : Append(rows[k], MarkedRow(work, k)) = Write(k)
    <3>1. \A row : Append(<<>>, row) = <<row>>
      OBVIOUS
    <3>2. QED
      BY <2>4, <3>1
  <2> HIDE DEF Write
  <2>6. \A k \in Keys : new[k] = IF k \in keys \ work.existing THEN Write(k)
                                 ELSE IF k \in keys /\ StatusOf(k) # work.wanted[k[1]] THEN Write(k) ELSE rows[k]
    BY <2>1, <2>5
  <2>7. \A k \in keys : k \in work.existing => rows[k] # <<>>
    BY DEF HasRead
  <2>8. DOMAIN new = Keys
    BY <2>1
  <2> HIDE DEF keys
  <2>9. QED
    BY <2>2, <2>3, <2>4, <2>6, <2>7, <2>8 DEF RegisterShape, keys
<1>3. QED
  BY <1>1, <1>2

\* A punch makes a record where there is none, in the section its student is
\* in, and leaves the others alone.
LEMMA PunchEffect ==
  ASSUME RegisterShape, RosterShape, NEW p \in Requests, IngestOne(p)
  PROVE  /\ DOMAIN rows' = Keys /\ \A k \in Keys : rows'[k] \in Cells
         /\ \A k \in Keys : rows[k] # <<>> => rows'[k] = rows[k]
         /\ \A k \in Keys : rows'[k] # rows[k] =>
              rows'[k][1].source = "device" /\ rows'[k][1].section = enrolled[k[1]]
<1> DEFINE i == seen[p].next
           new(k) == <<Record("present", "device", enrolled[k[1]])>>
<1>1. rows' = rows \/ rows' = [rows EXCEPT ![PunchKey(i)] = AutoMarked(PunchKey(i))]
  BY DEF IngestOne
<1>2. \A k \in Keys : new(k) \in Cells /\ new(k)[1].source = "device" /\ new(k)[1].section = enrolled[k[1]]
  <2>1. \A k \in Keys : enrolled[k[1]] \in Sections \cup {None}
    BY DEF RosterShape, Keys
  <2>2. QED
    BY <2>1, RecordCell DEF Statuses
<1>3. \A k : AutoMarked(k) = IF rows[k] = <<>> THEN new(k) ELSE rows[k]
  BY DEF AutoMarked
<1> HIDE DEF new, i
<1>4. CASE rows' = rows
  BY <1>4 DEF RegisterShape
<1>5. CASE rows' = [rows EXCEPT ![PunchKey(i)] = AutoMarked(PunchKey(i))]
  <2>1. DOMAIN rows' = Keys /\ \A k \in Keys : rows'[k] = IF k = PunchKey(i) THEN AutoMarked(k) ELSE rows[k]
    BY <1>5 DEF RegisterShape
  <2>2. QED
    BY <1>2, <1>3, <2>1 DEF RegisterShape
<1>6. QED
  BY <1>1, <1>4, <1>5

\* Nothing else touches the register.
LEMMA RegisterSteps ==
  ASSUME [AttendanceNext]_attendanceVars, rows' # rows
  PROVE  \E p \in Requests : MarkWrite(p) \/ IngestOne(p)
<1>1. ASSUME NEW p \in Requests, MarkStep(p) \/ PunchStep(p) \/ Crash(p) PROVE MarkWrite(p) \/ IngestOne(p)
  <2>1. ASSUME NEW section \in Sections, NEW on \in Days, NEW period \in Periods, NEW sheet \in Sheets,
               NEW admin \in BOOLEAN
        PROVE  ~MarkFetch(p, section, on, period, sheet, admin)
    BY DEF MarkFetch
  <2>2. ~MarkLock(p)
    BY DEF MarkLock
  <2>3. ~Push(p) /\ ~Import(p) /\ ~Answer(p) /\ ~LoseAnswer(p) /\ ~Crash(p)
    BY DEF Push, Import, Answer, LoseAnswer, Crash
  <2>4. QED
    BY <1>1, <2>1, <2>2, <2>3 DEF MarkStep, PunchStep
<1>2. ~OfficeStep /\ ~NextDay /\ \A c \in Codes : ~Swipe(c)
  BY DEF OfficeStep, Enrol, EditStudent, EditHoliday, EditSettings, EditCard, NextDay, Swipe
<1>3. ~UNCHANGED attendanceVars
  BY DEF attendanceVars
<1>4. QED
  BY <1>1, <1>2, <1>3 DEF AttendanceNext

-----------------------------------------------------------------------------
\* Where a request stands after a step: where it was, or it has read its class
\* list or its rows, and then nothing else has happened.
Marking == {"fetched", "marking"}
LEMMA MarkersGoOn ==
  ASSUME MarkersCarry, [AttendanceNext]_attendanceVars, NEW p \in Requests, pc'[p] \in Marking
  PROVE  \/ pc[p] = pc'[p] /\ seen'[p] = seen[p]
         \/ /\ UNCHANGED rows /\ pc[p] # "marking"
            /\ \A q \in Requests \ {p} : pc'[q] = pc[q] /\ seen'[q] = seen[q]
            /\ \/ pc'[p] = "marking" /\ MarkLock(p)
               \/ /\ pc'[p] = "fetched"
                  /\ \E section \in Sections, on \in Days, period \in Periods, sheet \in Sheets, admin \in BOOLEAN :
                       MarkFetch(p, section, on, period, sheet, admin)
<1>1. DOMAIN pc = Requests /\ DOMAIN seen = Requests
  BY DEF MarkersCarry
<1> DEFINE Same(q) == pc'[q] = pc[q] /\ seen'[q] = seen[q]
           Fetches(q) == \E section \in Sections, on \in Days, period \in Periods, sheet \in Sheets, admin \in BOOLEAN :
                           MarkFetch(q, section, on, period, sheet, admin)
<1>2. ASSUME NEW q \in Requests, MarkWrite(q) \/ PunchStep(q) \/ Crash(q)
      PROVE  pc'[q] \notin Marking /\ \A r \in Requests \ {q} : Same(r)
  BY <1>1, <1>2 DEF Marking, MarkWrite, PunchStep, Push, Import, IngestOne, Answer, LoseAnswer, Crash, Begin,
                    Continue, Done, Goes
<1>3. ASSUME NEW q \in Requests, NEW section \in Sections, NEW on \in Days, NEW period \in Periods,
             NEW sheet \in Sheets, NEW admin \in BOOLEAN, MarkFetch(q, section, on, period, sheet, admin)
      PROVE  UNCHANGED rows /\ pc[q] = "idle" /\ pc'[q] = "fetched" /\ \A r \in Requests \ {q} : Same(r)
  BY <1>1, <1>3 DEF MarkFetch, Begin, Goes
<1>4. ASSUME NEW q \in Requests, MarkLock(q)
      PROVE  /\ UNCHANGED rows /\ pc[q] = "fetched" /\ pc'[q] \in {"marking", "idle"}
             /\ \A r \in Requests \ {q} : Same(r)
  BY <1>1, <1>4 DEF MarkLock, Continue, Done, Goes
<1>5. OfficeStep \/ NextDay \/ (\E c \in Codes : Swipe(c)) \/ UNCHANGED attendanceVars => Same(p)
  BY DEF OfficeStep, Enrol, EditStudent, EditHoliday, EditSettings, EditCard, NextDay, Swipe, AtOnce,
         attendanceVars, requestVars
<1> HIDE DEF Same
<1>6. CASE Same(p)
  BY <1>6 DEF Same
<1>7. CASE ~Same(p)
  <2>1. PICK q \in Requests : MarkStep(q) \/ PunchStep(q) \/ Crash(q)
    BY <1>5, <1>7 DEF AttendanceNext
  <2>2. CASE MarkWrite(q) \/ PunchStep(q) \/ Crash(q)
    BY <1>2, <1>7, <2>2
  <2>3. CASE Fetches(q)
    <3>1. q = p
      BY <1>3, <1>7, <2>3
    <3>2. UNCHANGED rows /\ pc[p] = "idle" /\ pc'[p] = "fetched" /\ \A r \in Requests \ {p} : Same(r)
      BY <1>3, <2>3, <3>1
    <3>3. QED
      BY <2>3, <3>1, <3>2 DEF Same
  <2>4. CASE MarkLock(q)
    <3>1. q = p
      BY <1>4, <1>7, <2>4
    <3>2. /\ UNCHANGED rows /\ pc[p] = "fetched" /\ pc'[p] \in {"marking", "idle"}
          /\ \A r \in Requests \ {p} : Same(r)
      BY <1>4, <2>4, <3>1
    <3>3. QED
      BY <2>4, <3>1, <3>2 DEF Same, Marking
  <2>5. QED
    BY <2>1, <2>2, <2>3, <2>4 DEF MarkStep
<1>8. QED
  BY <1>6, <1>7

\* What a save carries when it has its class list.
LEMMA SaveFetches ==
  ASSUME RosterShape, MarkersCarry, NEW p \in Requests, NEW section \in Sections, NEW on \in Days,
         NEW period \in Periods, NEW sheet \in Sheets, NEW admin \in BOOLEAN,
         MarkFetch(p, section, on, period, sheet, admin)
  PROVE  MarkWork(seen'[p], been)
<1> DEFINE wanted == Wanted(section, sheet)
           work == [section |-> section, wanted |-> wanted, on |-> on, period |-> Lecture(period), admin |-> admin]
<1>1. seen'[p] = work
  BY DEF MarkFetch, Begin, Goes, MarkersCarry
<1>2. DOMAIN wanted = Attending(section) /\ \A s \in DOMAIN wanted : wanted[s] \in Statuses
  BY SheetsAssumption DEF Wanted, Statuses
<1>3. Lecture(period) \in Periods
  BY CalendarAssumption DEF Lecture
<1>4. work.section = section /\ work.wanted = wanted /\ work.on = on /\ work.period = Lecture(period)
  OBVIOUS
<1>5. \A s \in Attending(section) : s \in Students /\ section \in been[s]
  BY DEF Attending, RosterShape
<1>6. \A s \in Students : been[s] = {section} => s \in Attending(section)
  BY StayedAttends DEF Stayed
<1> HIDE DEF wanted, work
<1>7. MarkWork(work, been)
  BY <1>2, <1>3, <1>4, <1>5, <1>6 DEF MarkWork
<1>8. QED
  BY <1>1, <1>7

\* What a save carries when it has read the rows.
LEMMA SaveReads ==
  ASSUME RegisterShape, MarkersCarry, LocksApart, NEW p \in Requests, pc'[p] = "marking", MarkLock(p)
  PROVE  /\ MarkWork(seen'[p], been) /\ HasRead(seen'[p]) /\ seen'[p].existing \subseteq KeysOf(seen'[p])
         /\ \A q \in Requests \ {p} : pc[q] = "marking" => seen'[p].existing \cap seen[q].existing = {}
<1> DEFINE s == seen[p]
           keys == KeysOf(s)
           work == [section |-> s.section, wanted |-> s.wanted, on |-> s.on, period |-> s.period,
                    allowed |-> s.admin \/ s.on >= today, existing |-> {k \in keys : rows[k] # <<>>}]
<1>1. pc[p] = "fetched" /\ RowsFree(p, keys)
  BY DEF MarkLock
<1>2. seen'[p] = work /\ MayChange(s)
  BY DEF MarkLock, Continue, Done, Goes, MarkersCarry
<1>3. MarkWork(s, been)
  BY <1>1 DEF MarkersCarry
<1>4. /\ work.section = s.section /\ work.wanted = s.wanted /\ work.on = s.on /\ work.period = s.period
      /\ work.existing = {k \in keys : rows[k] # <<>>} /\ work.allowed = (s.admin \/ s.on >= today)
  OBVIOUS
<1> HIDE DEF work
<1>5. MarkWork(work, been) /\ KeysOf(work) = keys
  BY <1>3, <1>4 DEF MarkWork, KeysOf
<1>6. ASSUME NEW k \in work.existing, ~work.allowed PROVE StatusOf(k) = work.wanted[k[1]]
  <2>1. k \in keys /\ rows[k] # <<>>
    BY <1>4
  <2>2. ~s.admin /\ ~(s.on >= today)
    BY <1>4, <1>6
  <2>3. s.on < today
    <3>1. s.on \in Nat /\ today \in Nat
      BY <1>3, CalendarAssumption DEF Days, RegisterShape, MarkWork
    <3>2. QED
      BY <2>2, <3>1
  <2>4. QED
    BY <1>2, <1>4, <2>1, <2>2, <2>3 DEF MayChange
<1>7. HasRead(work)
  BY <1>4, <1>6 DEF HasRead
<1>8. ASSUME NEW q \in Requests \ {p}, pc[q] = "marking" PROVE work.existing \cap seen[q].existing = {}
  BY <1>1, <1>4, <1>8 DEF RowsFree
<1> HIDE DEF keys
<1>9. work.existing \subseteq KeysOf(work)
  BY <1>4, <1>5
<1>10. QED
  BY <1>2, <1>5, <1>7, <1>8, <1>9

-----------------------------------------------------------------------------
\* What the days, the punches and the requests are after a step.
LEMMA SmallSteps ==
  ASSUME MarkersCarry, [AttendanceNext]_attendanceVars
  PROVE  /\ today' = today \/ NextDay
         /\ stored' = stored \/ \E p \in Requests : IngestOne(p)
         /\ DOMAIN pc' = Requests /\ DOMAIN seen' = Requests
<1> DEFINE Fine == /\ today' = today \/ NextDay
                   /\ stored' = stored \/ \E p \in Requests : IngestOne(p)
                   /\ DOMAIN pc' = Requests /\ DOMAIN seen' = Requests
<1>1. DOMAIN pc = Requests /\ DOMAIN seen = Requests
  BY DEF MarkersCarry
<1>2. ASSUME NEW p \in Requests, NEW section \in Sections, NEW on \in Days, NEW period \in Periods,
             NEW sheet \in Sheets, NEW admin \in BOOLEAN, MarkFetch(p, section, on, period, sheet, admin)
      PROVE  Fine
  BY <1>1, <1>2 DEF MarkFetch, Begin, Goes
<1>3. ASSUME NEW p \in Requests, MarkLock(p) \/ MarkWrite(p) PROVE Fine
  BY <1>1, <1>3 DEF MarkLock, MarkWrite, Done, Continue, Goes
<1>4. ASSUME NEW p \in Requests, PunchStep(p) \/ Crash(p) PROVE Fine
  BY <1>1, <1>4 DEF PunchStep, Push, Import, IngestOne, Answer, LoseAnswer, Crash, Begin, Continue, Done, Goes
<1>5. OfficeStep \/ NextDay \/ (\E c \in Codes : Swipe(c)) \/ UNCHANGED attendanceVars => Fine
  BY <1>1 DEF OfficeStep, Enrol, EditStudent, EditHoliday, EditSettings, EditCard, NextDay, Swipe, AtOnce,
              attendanceVars, requestVars
<1> HIDE DEF Fine
<1>6. Fine
  BY <1>2, <1>3, <1>4, <1>5 DEF AttendanceNext, MarkStep
<1>7. QED
  BY <1>6 DEF Fine

\* Rows and punches keep their shape.
LEMMA RegisterKept ==
  ASSUME RegisterShape, RosterShape, MarkersCarry, ReadsHold, [AttendanceNext]_attendanceVars
  PROVE  RegisterShape'
<1>1. today' \in Days
  <2>1. today' = today \/ NextDay
    BY SmallSteps
  <2>2. QED
    BY <2>1, CalendarAssumption DEF RegisterShape, NextDay, Days
<1>2. DOMAIN stored' = 1..MaxPunches /\ \A i \in 1..MaxPunches : stored'[i] \in {0, 1}
  <2>1. stored' = stored \/ \E p \in Requests : IngestOne(p)
    BY SmallSteps
  <2>2. ASSUME NEW p \in Requests, IngestOne(p)
        PROVE  DOMAIN stored' = 1..MaxPunches /\ \A i \in 1..MaxPunches : stored'[i] \in {0, 1}
    <3> DEFINE i == seen[p].next
    <3>1. stored' = stored \/ (stored[i] = 0 /\ stored' = [stored EXCEPT ![i] = @ + 1])
      BY <2>2 DEF IngestOne, NewPunch
    <3> HIDE DEF i
    <3>2. DOMAIN stored' = 1..MaxPunches /\ \A j \in 1..MaxPunches : stored'[j] = stored[j] \/ (j = i /\ stored'[j] = stored[i] + 1)
      BY <3>1 DEF RegisterShape
    <3>3. QED
      BY <3>1, <3>2 DEF RegisterShape
  <2>3. QED
    BY <2>1, <2>2 DEF RegisterShape
<1>3. DOMAIN rows' = Keys /\ \A k \in Keys : rows'[k] \in Cells
  <2>1. CASE rows' = rows
    BY <2>1 DEF RegisterShape
  <2>2. ASSUME NEW p \in Requests, MarkWrite(p) PROVE DOMAIN rows' = Keys /\ \A k \in Keys : rows'[k] \in Cells
    BY <2>2, SaveWrites, SaveEffect DEF MarkersCarry, ReadsHold
  <2>3. ASSUME NEW p \in Requests, IngestOne(p) PROVE DOMAIN rows' = Keys /\ \A k \in Keys : rows'[k] \in Cells
    BY <2>3, PunchEffect
  <2>4. QED
    BY <2>1, <2>2, <2>3, RegisterSteps
<1>4. QED
  BY <1>1, <1>2, <1>3 DEF RegisterShape

\* A save that goes on has its work and its locks.
LEMMA MarkersKept ==
  ASSUME RegisterShape, RosterShape, MarkersCarry, LocksApart, [AttendanceNext]_attendanceVars
  PROVE  MarkersCarry' /\ LocksApart'
<1>1. DOMAIN pc' = Requests /\ DOMAIN seen' = Requests
  BY SmallSteps
<1>2. ASSUME NEW p \in Requests, pc'[p] \in Marking PROVE MarkWork(seen'[p], been)
  <2>1. CASE pc[p] = pc'[p] /\ seen'[p] = seen[p]
    BY <1>2, <2>1 DEF MarkersCarry, Marking
  <2>2. QED
    BY <1>2, <2>1, MarkersGoOn, SaveFetches, SaveReads
<1>3. \A p \in Requests : pc'[p] \in {"fetched", "marking"} => MarkWork(seen'[p], been')
  BY <1>2, WorkKept DEF Marking
<1>4. ASSUME NEW p \in Requests, pc'[p] = "marking" PROVE seen'[p].existing \subseteq KeysOf(seen'[p])
  <2>1. CASE pc[p] = pc'[p] /\ seen'[p] = seen[p]
    BY <1>4, <2>1 DEF MarkersCarry
  <2>2. pc'[p] \in Marking
    BY <1>4 DEF Marking
  <2>3. QED
    BY <1>4, <2>1, <2>2, MarkersGoOn, SaveReads
<1>5. ASSUME NEW p \in Requests, NEW q \in Requests, p # q, pc'[p] = "marking", pc'[q] = "marking"
      PROVE  seen'[p].existing \cap seen'[q].existing = {}
  <2>1. pc'[p] \in Marking /\ pc'[q] \in Marking
    BY <1>5 DEF Marking
  <2>2. CASE pc[p] # "marking"
    <3>1. pc[q] = "marking" /\ seen'[q] = seen[q]
      BY <1>5, <2>1, <2>2, MarkersGoOn
    <3>2. MarkLock(p)
      BY <1>5, <2>1, <2>2, MarkersGoOn
    <3>3. QED
      BY <1>5, <3>1, <3>2, SaveReads
  <2>3. CASE pc[q] # "marking"
    <3>1. pc[p] = "marking" /\ seen'[p] = seen[p]
      BY <1>5, <2>1, <2>3, MarkersGoOn
    <3>2. MarkLock(q)
      BY <1>5, <2>1, <2>3, MarkersGoOn
    <3>3. seen'[q].existing \cap seen[p].existing = {}
      BY <1>5, <3>1, <3>2, SaveReads
    <3>4. QED
      BY <3>1, <3>3
  <2>4. CASE pc[p] = "marking" /\ pc[q] = "marking"
    <3>1. seen'[p] = seen[p] /\ seen'[q] = seen[q]
      BY <1>5, <2>1, <2>4, MarkersGoOn
    <3>2. QED
      BY <1>5, <2>4, <3>1 DEF LocksApart
  <2>5. QED
    BY <2>2, <2>3, <2>4
<1>6. MarkersCarry'
  BY <1>1, <1>3, <1>4 DEF MarkersCarry, MarkWork, KeysOf
<1>7. QED
  BY <1>5, <1>6 DEF LocksApart

\* What a save has read stays so: its rows are locked against other saves,
\* and a punch leaves them alone.
LEMMA ReadsKept ==
  ASSUME AttendanceInv, [AttendanceNext]_attendanceVars
  PROVE  ReadsHold'
<1> USE DEF AttendanceInv
<1>1. SUFFICES ASSUME NEW p \in Requests, pc'[p] = "marking"
               PROVE  \A k \in seen'[p].existing :
                        rows'[k] # <<>> /\ (~seen'[p].allowed => rows'[k][1].status = seen'[p].wanted[k[1]])
  BY DEF ReadsHold, HasRead, StatusOf
<1>2. CASE pc[p] = "marking" /\ seen'[p] = seen[p]
  <2>1. MarkWork(seen[p], been) /\ HasRead(seen[p]) /\ seen[p].existing \subseteq KeysOf(seen[p])
    BY <1>2 DEF MarkersCarry, ReadsHold
  <2>2. \A k \in seen[p].existing : k \in Keys
    BY <2>1, KeysWanted
  <2>3. ASSUME NEW k \in seen[p].existing PROVE rows'[k] = rows[k]
    <3>1. rows[k] # <<>> /\ k \in Keys
      BY <2>1, <2>2 DEF HasRead
    <3>2. ASSUME NEW q \in Requests, MarkWrite(q), rows'[k] # rows[k] PROVE FALSE
      <4>1. k \in seen[q].existing
        BY <3>1, <3>2, SaveWrites, SaveEffect DEF MarkersCarry, ReadsHold
      <4>2. q # p
        BY <1>1, <3>2 DEF MarkWrite, Done, Continue, Goes, MarkersCarry
      <4>3. QED
        BY <1>2, <3>2, <4>1, <4>2, SaveWrites DEF LocksApart
    <3>3. ASSUME NEW q \in Requests, IngestOne(q) PROVE rows'[k] = rows[k]
      BY <3>1, <3>3, PunchEffect
    <3>4. QED
      BY <3>2, <3>3, RegisterSteps
  <2>4. QED
    BY <1>2, <2>1, <2>3 DEF HasRead, StatusOf
<1>3. CASE UNCHANGED rows /\ HasRead(seen'[p])
  BY <1>3 DEF HasRead, StatusOf
<1>4. pc'[p] \in Marking
  BY <1>1 DEF Marking
<1>5. QED
  BY <1>1, <1>2, <1>3, <1>4, MarkersGoOn, SaveReads

\* What a step writes into the register is of a section its student has been
\* in; what it makes no save has made.
LEMMA StepWrites ==
  ASSUME AttendanceInv, [AttendanceNext]_attendanceVars, NEW k \in Keys, rows'[k] # rows[k]
  PROVE  /\ rows'[k][1].section \in been[k[1]]
         /\ \/ rows'[k][1].source = "device"
            \/ \E q \in Requests : /\ MarkWrite(q) /\ rows'[k][1].section = seen[q].section
                                   /\ k \in KeysOf(seen[q]) /\ MarkWork(seen[q], been)
                                   /\ \A l \in KeysOf(seen[q]) : rows'[l] # <<>>
<1> USE DEF AttendanceInv
<1>1. ASSUME NEW q \in Requests, IngestOne(q)
      PROVE  rows'[k][1].source = "device" /\ rows'[k][1].section \in been[k[1]]
  <2>1. rows'[k][1].source = "device" /\ rows'[k][1].section = enrolled[k[1]]
    BY <1>1, PunchEffect
  <2>2. QED
    BY <2>1 DEF RosterShape, Keys
<1>2. ASSUME NEW q \in Requests, MarkWrite(q)
      PROVE  /\ rows'[k][1].section \in been[k[1]] /\ rows'[k][1].section = seen[q].section
             /\ k \in KeysOf(seen[q]) /\ MarkWork(seen[q], been)
             /\ \A l \in KeysOf(seen[q]) : rows'[l] # <<>>
  <2>1. MarkWork(seen[q], been) /\ HasRead(seen[q]) /\ rows' = MarkedRows(seen[q])
    BY <1>2, SaveWrites DEF MarkersCarry, ReadsHold
  <2>2. k \in KeysOf(seen[q]) /\ rows'[k][1].section = seen[q].section
    BY <2>1, SaveEffect
  <2>3. \A l \in KeysOf(seen[q]) : rows'[l] # <<>>
    BY <2>1, SaveEffect
  <2>4. QED
    BY <2>1, <2>2, <2>3, KeysWanted
<1>3. QED
  BY <1>1, <1>2, RegisterSteps

\* The sections of the records are known.
LEMMA SectionsStayKnown ==
  ASSUME AttendanceInv, [AttendanceNext]_attendanceVars
  PROVE  SectionsKnown'
<1> USE DEF AttendanceInv
<1>1. SUFFICES ASSUME NEW k \in Keys, rows'[k] # <<>> PROVE rows'[k][1].section \in been'[k[1]]
  BY DEF SectionsKnown
<1>2. rows'[k][1].section \in been[k[1]]
  BY <1>1, StepWrites DEF SectionsKnown
<1>3. QED
  BY <1>2, RosterKept DEF Keys

\* A section is marked as a whole.
LEMMA WholeKept ==
  ASSUME AttendanceInv, [AttendanceNext]_attendanceVars
  PROVE  MarkedAsAWhole'
<1> USE DEF AttendanceInv
<1>1. SUFFICES ASSUME NEW k \in Keys, rows'[k] # <<>>, rows'[k][1].source = "manual", NEW s \in Students,
                      been'[s] = {rows'[k][1].section}
               PROVE  rows'[<<s, k[2], k[3]>>] # <<>>
  BY DEF MarkedAsAWhole, Recorded, Stayed
<1> DEFINE l == <<s, k[2], k[3]>>
<1>2. l \in Keys
  BY <1>1 DEF Keys
<1>3. been[s] = {rows'[k][1].section}
  <2>1. been[s] \subseteq been'[s] /\ SectionOf[s] \in been[s]
    BY RosterKept DEF RosterShape
  <2>2. QED
    BY <1>1, <2>1
<1> HIDE DEF l
<1>4. rows[l] # <<>> => rows'[l] # <<>>
  <2>1. CASE rows' = rows
    BY <2>1
  <2>2. ASSUME NEW q \in Requests, MarkWrite(q), rows'[l] # rows[l] PROVE rows'[l] # <<>>
    BY <1>2, <2>2, SaveWrites, SaveEffect DEF MarkersCarry, ReadsHold
  <2>3. ASSUME NEW q \in Requests, IngestOne(q), rows[l] # <<>> PROVE rows'[l] = rows[l]
    BY <1>2, <2>3, PunchEffect
  <2>4. QED
    BY <2>1, <2>2, <2>3, RegisterSteps
<1>5. CASE rows'[k] = rows[k]
  <2>1. rows[l] # <<>>
    BY <1>1, <1>3, <1>5 DEF MarkedAsAWhole, Recorded, Stayed, l
  <2>2. QED
    BY <1>4, <2>1 DEF l
<1>6. CASE rows'[k] # rows[k]
  <2>1. PICK q \in Requests : /\ MarkWrite(q) /\ rows'[k][1].section = seen[q].section
                              /\ k \in KeysOf(seen[q]) /\ MarkWork(seen[q], been)
                              /\ \A j \in KeysOf(seen[q]) : rows'[j] # <<>>
    BY <1>1, <1>6, StepWrites
  <2>2. s \in DOMAIN seen[q].wanted
    BY <1>3, <2>1 DEF MarkWork
  <2>3. k[2] = seen[q].on /\ k[3] = seen[q].period
    BY <2>1, KeysWanted
  <2>4. l \in KeysOf(seen[q])
    BY <2>2, <2>3 DEF KeysOf, l
  <2>5. QED
    BY <2>1, <2>4 DEF l
<1>7. QED
  BY <1>5, <1>6

\* All of it at the start, whatever was marked before.
LEMMA AttendanceStart == AttendanceInit => AttendanceInv
<1> SUFFICES ASSUME AttendanceInit PROVE AttendanceInv
  OBVIOUS
<1>1. today \in Days
  BY CalendarAssumption DEF AttendanceInit, Days
<1>2. DOMAIN stored = 1..MaxPunches /\ \A i \in 1..MaxPunches : stored[i] \in {0, 1}
  BY DEF AttendanceInit
<1>3. DOMAIN rows = Keys /\ \A k \in Keys : rows[k] \in Cells
  <2>1. CASE rows = NoRows
    BY <2>1 DEF NoRows, Cells
  <2>2. CASE rows \in EarlierRows
    BY <2>2, EarlierRowsAssumption DEF Cells
  <2>3. QED
    BY <2>1, <2>2 DEF AttendanceInit
<1>4. RosterShape /\ \A s \in Students : been[s] = {SectionOf[s]}
  BY RosterAssumption DEF AttendanceInit, RosterShape
<1>5. SectionsKnown /\ MarkedAsAWhole
  <2>1. CASE rows = NoRows
    BY <2>1 DEF NoRows, SectionsKnown, MarkedAsAWhole, Recorded
  <2>2. CASE rows \in EarlierRows
    <3>1. ASSUME NEW k \in Keys, rows[k] # <<>>
          PROVE  /\ rows[k][1].section = SectionOf[k[1]] /\ k[1] \in Students
                 /\ rows[k][1].source = "manual" =>
                      \A s \in Roster(SectionOf[k[1]]) : rows[<<s, k[2], k[3]>>] # <<>>
      BY <2>2, <3>1, EarlierRowsAssumption DEF Keys
    <3>2. SectionsKnown
      BY <1>4, <3>1 DEF SectionsKnown
    <3>3. MarkedAsAWhole
      BY <1>4, <3>1 DEF MarkedAsAWhole, Recorded, Stayed, Roster
    <3>4. QED
      BY <3>2, <3>3
  <2>3. QED
    BY <2>1, <2>2 DEF AttendanceInit
<1>6. MarkersCarry /\ ReadsHold /\ LocksApart
  BY DEF AttendanceInit, MarkersCarry, ReadsHold, LocksApart
<1>7. QED
  BY <1>1, <1>2, <1>3, <1>4, <1>5, <1>6 DEF AttendanceInv, RegisterShape

\* The seven together hold at the start and after every step.
LEMMA AttendanceInvariant ==
  /\ AttendanceInit => AttendanceInv
  /\ AttendanceInv /\ [AttendanceNext]_attendanceVars => AttendanceInv'
<1>1. AttendanceInv /\ [AttendanceNext]_attendanceVars => RegisterShape' /\ RosterShape' /\ MarkersCarry' /\ LocksApart'
  BY RegisterKept, RosterKept, MarkersKept DEF AttendanceInv
<1>2. AttendanceInv /\ [AttendanceNext]_attendanceVars => ReadsHold' /\ SectionsKnown' /\ MarkedAsAWhole'
  BY ReadsKept, SectionsStayKnown, WholeKept
<1>3. QED
  BY <1>1, <1>2, AttendanceStart DEF AttendanceInv

\* A punch is stored once, a student recorded once per day and lecture, and a
\* section marked as a whole but for the students who joined or left it
\* (mark_section and ingest_punch of apps/attendance/services.py), in every
\* behaviour.
THEOREM RegisterStaysWhole == AttendanceSpec => []RegisterIsWhole
<1>1. AttendanceInv => RegisterIsWhole
  <2>1. AttendanceInv => \A k \in Keys : Len(rows[k]) <= 1
    BY CellFacts DEF AttendanceInv, RegisterShape
  <2>2. QED
    BY <2>1 DEF AttendanceInv, RegisterShape, RegisterIsWhole, NothingTwice
<1>2. QED
  BY <1>1, AttendanceInvariant, PTL DEF AttendanceSpec

\* A record changes only by a save, and on a past day only by one that was
\* allowed to: whoever saves at the same time, and whatever arrives.
LEMMA RulesHold ==
  ASSUME AttendanceInv, [AttendanceNext]_attendanceVars
  PROVE  TeacherHasTheLastWord /\ PastNeedsAdmin
<1> USE DEF AttendanceInv
<1>1. SUFFICES ASSUME NEW k \in Recorded, rows'[k] # rows[k]
               PROVE  \E p \in Requests : pc[p] = "marking" /\ pc'[p] = "idle" /\ seen[p].allowed
  BY DEF TeacherHasTheLastWord, PastNeedsAdmin
<1>2. k \in Keys /\ rows[k] # <<>>
  BY DEF Recorded
<1>3. PICK p \in Requests : MarkWrite(p)
  BY <1>1, <1>2, RegisterSteps, PunchEffect
<1>4. pc[p] = "marking" /\ pc'[p] = "idle"
  BY <1>3 DEF MarkWrite, Done, Continue, Goes, MarkersCarry
<1>5. MarkWork(seen[p], been) /\ HasRead(seen[p]) /\ rows' = MarkedRows(seen[p])
  BY <1>3, <1>4, SaveWrites DEF MarkersCarry, ReadsHold
<1>6. k \in seen[p].existing /\ StatusOf(k) # seen[p].wanted[k[1]]
  BY <1>1, <1>2, <1>5, SaveEffect
<1>7. seen[p].allowed
  BY <1>5, <1>6 DEF HasRead
<1>8. QED
  BY <1>4, <1>7

\* "Attendance for a past day can only be corrected by Admin", and a teacher
\* has the last word on a record, in every behaviour.
THEOREM RulesAreKept == AttendanceSpec => CorrectedByTheRules
<1>1. AttendanceInv /\ [AttendanceNext]_attendanceVars => [TeacherHasTheLastWord /\ PastNeedsAdmin]_attendanceVars
  BY RulesHold
<1>2. QED
  BY <1>1, AttendanceInvariant, PTL DEF AttendanceSpec, CorrectedByTheRules

-----------------------------------------------------------------------------
(***************************************************************************)
(* The reports.  Where no lecture is marked by itself, the three           *)
(* percentages are of the same records.                                    *)
(***************************************************************************)
\* The records of a student that count between two days.
Counting(s, from, to) == {k \in RecordsOf(s) : k[2] \in from..to /\ k[2] \notin Off}

\* The sheet and the calendar show those records, where no lecture is marked.
LEMMA SameRecords ==
  ASSUME \A k \in Recorded : k[3] = None, NEW s \in Students, NEW from, NEW to
  PROVE  /\ SheetOf(s, from, to) = Counting(s, from, to)
         /\ UNION {IF d \in Off THEN {} ELSE CalendarDay(s, d) : d \in from..to} = Counting(s, from, to)
<1> DEFINE Shown(d) == IF d \in Off THEN {} ELSE CalendarDay(s, d)
<1>1. SheetOf(s, from, to) = Counting(s, from, to)
  <2>1. \A k \in RecordsOf(s) : k[3] = None
    BY DEF RecordsOf, Recorded, Keys
  <2>2. QED
    BY <2>1 DEF SheetOf, OffDaysToo, Counting
<1>2. \A d \in from..to : Shown(d) \subseteq Counting(s, from, to)
  BY DEF CalendarDay, Counting
<1>3. \A k \in Counting(s, from, to) : k[2] \in from..to /\ k \in Shown(k[2])
  BY DEF CalendarDay, Counting
<1> HIDE DEF Shown
<1>4. UNION {Shown(d) : d \in from..to} = Counting(s, from, to)
  BY <1>2, <1>3
<1>5. QED
  BY <1>1, <1>4 DEF Shown

\* So the percentages are the same.
LEMMA PercentagesDoAgree == PercentagesAgree
<1> SUFFICES ASSUME \A k \in Recorded : k[3] = None, NEW section \in Sections, NEW from \in Days, NEW to \in from..MaxDay,
                    NEW s \in Attending(section)
             PROVE  /\ section_percentages(section, from, to)[s] = student_calendar(s, from, to)
                    /\ register(section, from, to)[s] = student_calendar(s, from, to)
  BY DEF PercentagesAgree
<1> s \in Students
  BY DEF Attending
<1>1. student_calendar(s, from, to) = percentage(Counting(s, from, to))
  BY SameRecords DEF student_calendar
<1>2. section_percentages(section, from, to)[s] = percentage(Counting(s, from, to))
  BY DEF section_percentages, Counting
<1>3. register(section, from, to)[s] = percentage(Counting(s, from, to))
  BY SameRecords DEF register
<1>4. QED
  BY <1>1, <1>2, <1>3

-----------------------------------------------------------------------------
(***************************************************************************)
(* The day's counts.                                                       *)
(***************************************************************************)
\* A part and the rest make the whole.
LEMMA PartAndRest ==
  ASSUME NEW S, IsFiniteSet(S), NEW T, T \subseteq S
  PROVE  /\ IsFiniteSet(T) /\ IsFiniteSet(S \ T) /\ Cardinality(T) \in Nat /\ Cardinality(S \ T) \in Nat
         /\ Cardinality(S) = Cardinality(T) + Cardinality(S \ T)
<1>1. IsFiniteSet(T) /\ IsFiniteSet(S \ T)
  BY FS_Subset
<1>2. T \cap (S \ T) = {} /\ T \cup (S \ T) = S
  OBVIOUS
<1>3. Cardinality({}) = 0
  BY FS_EmptySet
<1>4. Cardinality(T) \in Nat /\ Cardinality(S \ T) \in Nat
  BY <1>1, FS_CardinalityType
<1> DEFINE rest == S \ T
<1>5. Cardinality(S) = Cardinality(T) + Cardinality(rest) - Cardinality(T \cap rest)
  <2>1. IsFiniteSet(T) /\ IsFiniteSet(rest) /\ T \cup rest = S
    BY <1>1, <1>2
  <2> HIDE DEF rest
  <2>2. Cardinality(T \cup rest) = Cardinality(T) + Cardinality(rest) - Cardinality(T \cap rest)
    BY <2>1, FS_Union
  <2>3. QED
    BY <2>1, <2>2
<1>6. T \cap rest = {} /\ Cardinality(T) \in Nat /\ Cardinality(rest) \in Nat
  BY <1>4
<1> HIDE DEF rest
<1>a. Cardinality(T \cap rest) = 0
  BY <1>3, <1>6
<1>7. Cardinality(S) = Cardinality(T) + Cardinality(rest)
  BY <1>5, <1>6, <1>a
<1>8. QED
  BY <1>1, <1>4, <1>7 DEF rest

\* The number of records of a status.
WithStatus(f, keys, status) == Cardinality({k \in keys : f[k] = status})

\* The records of each status make all of them.
LEMMA StatusesAddUp ==
  ASSUME NEW keys, IsFiniteSet(keys), NEW f, \A k \in keys : f[k] \in Statuses
  PROVE  WithStatus(f, keys, "present") + WithStatus(f, keys, "absent") + WithStatus(f, keys, "leave")
           + WithStatus(f, keys, "late") + WithStatus(f, keys, "half_day") = Cardinality(keys)
<1> DEFINE Of(status) == {k \in keys : f[k] = status}
           rest1 == keys \ Of("present")
           rest2 == rest1 \ Of("absent")
           rest3 == rest2 \ Of("leave")
           rest4 == rest3 \ Of("late")
<1>1. Of("present") \subseteq keys /\ Of("absent") \subseteq rest1 /\ Of("leave") \subseteq rest2
      /\ Of("late") \subseteq rest3 /\ rest4 = Of("half_day")
  BY DEF Statuses
<1> HIDE DEF Of
<1>2. /\ Cardinality(keys) = Cardinality(Of("present")) + Cardinality(rest1) /\ IsFiniteSet(rest1)
      /\ Cardinality(rest1) \in Nat /\ Cardinality(Of("present")) \in Nat
  BY <1>1, PartAndRest
<1> HIDE DEF rest1
<1>3. /\ Cardinality(rest1) = Cardinality(Of("absent")) + Cardinality(rest2) /\ IsFiniteSet(rest2)
      /\ Cardinality(rest2) \in Nat /\ Cardinality(Of("absent")) \in Nat
  BY <1>1, <1>2, PartAndRest
<1> HIDE DEF rest2
<1>4. /\ Cardinality(rest2) = Cardinality(Of("leave")) + Cardinality(rest3) /\ IsFiniteSet(rest3)
      /\ Cardinality(rest3) \in Nat /\ Cardinality(Of("leave")) \in Nat
  BY <1>1, <1>3, PartAndRest
<1> HIDE DEF rest3
<1>5. /\ Cardinality(rest3) = Cardinality(Of("late")) + Cardinality(rest4)
      /\ Cardinality(rest4) \in Nat /\ Cardinality(Of("late")) \in Nat
  BY <1>1, <1>4, PartAndRest
<1> HIDE DEF rest4
<1>6. Cardinality(Of("present")) + Cardinality(Of("absent")) + Cardinality(Of("leave")) + Cardinality(Of("late"))
        + Cardinality(Of("half_day")) = Cardinality(keys)
  BY <1>1, <1>2, <1>3, <1>4, <1>5
<1>7. QED
  BY <1>6 DEF Of, WithStatus

\* Rounding half to even stays below a whole number that the quotient is
\* not above.
LEMMA RoundEvenBound ==
  ASSUME NEW n \in Nat, NEW d \in Nat \ {0}, NEW hi \in Nat, n <= d * hi
  PROVE  RoundEven(n, d) <= hi
<1> DEFINE low == n \div d
           rest == n % d
<1>1. low \in Int /\ d * low <= n /\ n < d * low + d /\ rest \in 0..(d - 1) /\ n = d * low + rest
  OBVIOUS
<1>2. d * hi \in Int /\ d * low \in Int /\ d * (hi + 1) = d * hi + d
  BY <1>1
<1>3. RoundEven(n, d) \in {low, low + 1} /\ (rest = 0 => RoundEven(n, d) = low)
  BY <1>1 DEF RoundEven
<1> HIDE DEF low, rest
<1>4. low <= hi
  <2>1. SUFFICES ASSUME hi + 1 <= low PROVE FALSE
    BY <1>1
  <2>2. d * (hi + 1) <= d * low
    BY <1>1, <2>1
  <2>3. QED
    BY <1>1, <1>2, <2>2
<1>5. CASE low = hi
  <2>1. rest = 0
    BY <1>1, <1>2, <1>5
  <2>2. QED
    BY <1>3, <1>5, <2>1
<1>6. CASE low < hi
  BY <1>1, <1>3, <1>6
<1>7. QED
  BY <1>1, <1>4, <1>5, <1>6

\* Nobody attends more than was marked.
LEMMA WithinAll ==
  ASSUME NEW keys, IsFiniteSet(keys)
  PROVE  percentage(keys).percentage <= 1000
<1> DEFINE weight == [k \in keys |-> WEIGHT(StatusOf(k))]
           attended == SumFunction(weight)
           marked == Cardinality(keys)
           two == [k \in keys |-> 1 * 2]
           one == [k \in keys |-> 1]
<1>1. marked \in Nat
  BY FS_CardinalityType
<1>2. \A status : WEIGHT(status) \in {0, 1, 2}
  BY DEF WEIGHT
<1>3. \A k \in keys : weight[k] \in Nat /\ weight[k] <= two[k] /\ two[k] \in Int /\ two[k] = one[k] * 2 /\ one[k] = 1
  BY <1>2
<1>4. attended = SumFunctionOnSet(weight, keys)
  BY DEF SumFunction
<1>5. percentage(keys).percentage = IF marked = 0 THEN 0 ELSE RoundEven(attended * 500, marked)
  BY DEF percentage
<1> HIDE DEF weight, attended, marked, two, one
<1>6. AddsNat(weight, keys) /\ AddsInt(weight, keys) /\ AddsInt(two, keys) /\ AddsInt(one, keys)
  BY <1>3 DEF AddsNat, AddsInt
<1>7. attended \in Nat
  BY <1>4, <1>6, SumIsNat
<1>8. attended <= SumFunctionOnSet(two, keys)
  BY <1>3, <1>4, <1>6, SumMonotone
<1>9. SumFunctionOnSet(one, keys) = marked
  BY <1>3, SumOfOnes DEF marked
<1>10. SumFunctionOnSet(two, keys) = SumFunctionOnSet(one, keys) * 2
  BY <1>3, <1>6, SumScaled
<1>11. attended * 500 <= marked * 1000 /\ attended * 500 \in Nat
  BY <1>1, <1>7, <1>8, <1>9, <1>10
<1>12. CASE marked = 0
  BY <1>5, <1>12
<1>13. CASE marked # 0
  <2> DEFINE n == attended * 500
             whole == 1000
  <2>1. n \in Nat /\ marked \in Nat \ {0} /\ whole \in Nat /\ n <= marked * whole
    BY <1>1, <1>11, <1>13
  <2> HIDE DEF n, whole
  <2>2. RoundEven(n, marked) <= whole
    BY <2>1, RoundEvenBound
  <2>3. QED
    BY <1>5, <1>13, <2>2 DEF n, whole
<1>14. QED
  BY <1>12, <1>13

\* Each student has at most one record of the whole day: a set of such records
\* of students of a set is no larger than that set.
LEMMA OneEach ==
  ASSUME NEW d, NEW K, K \subseteq WholeDay(d), NEW T, T \subseteq Students, \A k \in K : k[1] \in T
  PROVE  IsFiniteSet(K) /\ Cardinality(K) <= Cardinality(T)
<1> DEFINE who == [k \in K |-> k[1]]
<1>1. IsFiniteSet(T)
  BY RosterAssumption, FS_Subset
<1>2. \A k \in K : k = <<k[1], d, None>>
  BY DEF WholeDay, Recorded, Keys
<1>3. who \in Injection(K, T)
  <2>1. who \in [K -> T]
    OBVIOUS
  <2>2. \A k, l \in K : who[k] = who[l] => k = l
    BY <1>2
  <2> HIDE DEF who
  <2>3. QED
    BY <2>1, <2>2 DEF Injection, IsInjective
<1> HIDE DEF who
<1>4. QED
  BY <1>1, <1>3, FS_Injection

\* A settled section's records are those of its students.
LEMMA SettledRecords ==
  ASSUME RosterShape, SectionsKnown, NEW section \in Sections, Settled(section), NEW d
  PROVE  MadeIn(section, d) = {k \in WholeDay(d) : k[1] \in Attending(section)}
<1>1. ASSUME NEW k \in WholeDay(d) PROVE rows[k][1].section = section <=> k[1] \in Attending(section)
  <2>1. k \in Keys /\ rows[k] # <<>> /\ k[1] \in Students
    BY DEF WholeDay, Recorded, Keys
  <2>2. rows[k][1].section \in been[k[1]]
    BY <2>1 DEF SectionsKnown
  <2>3. ASSUME rows[k][1].section = section PROVE k[1] \in Attending(section)
    <3>1. Stayed(k[1], section)
      BY <2>1, <2>2, <2>3 DEF Settled
    <3>2. QED
      BY <2>1, <3>1, StayedAttends
  <2>4. ASSUME k[1] \in Attending(section) PROVE rows[k][1].section = section
    <3>1. section \in been[k[1]]
      BY <2>1, <2>4 DEF Attending, RosterShape
    <3>2. been[k[1]] = {section}
      BY <2>1, <3>1 DEF Settled, Stayed
    <3>3. QED
      BY <2>2, <3>2
  <2>5. QED
    BY <2>3, <2>4
<1>2. QED
  BY <1>1 DEF MadeIn

\* The day's summary counts everybody once, and a settled section's students.
LEMMA SummaryDoesAddUp ==
  ASSUME AttendanceInv
  PROVE  SummaryAddsUp
<1> SUFFICES ASSUME NEW section \in Sections, NEW d \in Days
             PROVE  LET c == daily_summary(section, d)
                        theirs == {k \in WholeDay(d) : k[1] \in Attending(section)}
                    IN  /\ c.present + c.absent + c.leave + c.late + c.half_day = c.marked /\ c.percentage <= 1000
                        /\ Settled(section) => /\ c.marked = Cardinality(theirs) /\ c.marked <= c.enrolled
                                               /\ c.percentage = percentage(theirs).percentage
  BY DEF SummaryAddsUp
<1> DEFINE keys == MadeIn(section, d)
           f == [k \in keys |-> StatusOf(k)]
           c == daily_summary(section, d)
           theirs == {k \in WholeDay(d) : k[1] \in Attending(section)}
           With(status) == Cardinality({k \in keys : StatusOf(k) = status})
           enrolledThere == {s \in Students : enrolled[s] = section}
<1>1. IsFiniteSet(keys)
  <2>1. keys \subseteq WholeDay(d) /\ \A k \in keys : k[1] \in Students
    BY DEF MadeIn, WholeDay, Recorded, Keys
  <2> HIDE DEF keys
  <2>2. QED
    BY <2>1, OneEach
<1>2. \A k \in keys : f[k] \in Statuses
  <2>1. \A k \in keys : rows[k] \in Cells /\ rows[k] # <<>>
    BY DEF AttendanceInv, RegisterShape, MadeIn, WholeDay, Recorded
  <2>2. \A k \in keys : rows[k][1] \in RecordRow
    BY <2>1, CellFacts
  <2>3. QED
    BY <2>2 DEF StatusOf, RecordRow
<1>3. \A status : WithStatus(f, keys, status) = With(status)
  <2>1. \A status : {k \in keys : f[k] = status} = {k \in keys : StatusOf(k) = status}
    OBVIOUS
  <2>2. QED
    BY <2>1 DEF WithStatus
<1>4. With("present") + With("absent") + With("leave") + With("late") + With("half_day") = Cardinality(keys)
  <2> HIDE DEF keys, f, With
  <2>1. QED
    BY <1>1, <1>2, <1>3, StatusesAddUp
<1>5. /\ c.present = With("present") /\ c.absent = With("absent") /\ c.leave = With("leave") /\ c.late = With("late")
      /\ c.half_day = With("half_day") /\ c.marked = Cardinality(keys) /\ c.enrolled = Cardinality(enrolledThere)
      /\ c.percentage = percentage(keys).percentage
  BY DEF daily_summary
<1>6. Settled(section) => keys = theirs
  BY SettledRecords DEF AttendanceInv
<1>7. Cardinality(theirs) <= Cardinality(enrolledThere)
  <2>1. theirs \subseteq WholeDay(d) /\ enrolledThere \subseteq Students /\ \A k \in theirs : k[1] \in enrolledThere
    BY DEF Attending
  <2> HIDE DEF theirs, enrolledThere
  <2>2. QED
    BY <2>1, OneEach
<1> HIDE DEF keys, c, With, theirs, enrolledThere
<1>8. percentage(keys).percentage <= 1000
  BY <1>1, WithinAll
<1>9. QED
  BY <1>4, <1>5, <1>6, <1>7, <1>8 DEF c, theirs

-----------------------------------------------------------------------------
(***************************************************************************)
(* Long absences.  The streak that is counted day after day is the number  *)
(* of marked days after the last one that was no absence, and the last so  *)
(* many marked days are absences exactly when the streak is that long.     *)
(***************************************************************************)
\* The marked days up to d with no day that breaks the streak from there to d.
Since(W, breaks, d) == {e \in W : e <= d /\ \A f \in breaks : ~(e <= f /\ f <= d)}
RunStep(W, breaks, d, before) == IF d < 0 \/ d \in breaks THEN 0 ELSE before + (IF d \in W THEN 1 ELSE 0)
IsRun(W, breaks, n, run) == run = [d \in -1..n |-> RunStep(W, breaks, d, run[d - 1])]

\* One more day makes the run longer by one, leaves it, or ends it.
LEMMA SinceStep ==
  ASSUME NEW W, IsFiniteSet(W), W \subseteq Nat, NEW breaks, breaks \subseteq W, NEW d \in Nat
  PROVE  Cardinality(Since(W, breaks, d)) = RunStep(W, breaks, d, Cardinality(Since(W, breaks, d - 1)))
<1> DEFINE now == Since(W, breaks, d)
           before == Since(W, breaks, d - 1)
<1>1. IsFiniteSet(before) /\ Cardinality(before) \in Nat
  <2>1. before \in SUBSET W
    BY DEF Since
  <2> HIDE DEF before
  <2>2. QED
    BY <2>1, FS_Subset, FS_CardinalityType
<1>2. CASE d \in breaks
  <2>1. now = {}
    BY <1>2 DEF Since
  <2>2. Cardinality(now) = 0
    BY <2>1, FS_EmptySet
  <2>3. QED
    BY <1>2, <2>2 DEF RunStep
<1>3. CASE d \notin breaks /\ d \in W
  <2>1. d \notin before
    BY DEF Since
  <2>2. d \in now
    BY <1>3 DEF Since
  <2>3. ASSUME NEW e \in W, e # d PROVE e \in now <=> e \in before
    <3>1. e <= d <=> e <= d - 1
      BY <2>3
    <3>2. \A f \in breaks : f <= d <=> f <= d - 1
      BY <1>3
    <3>3. QED
      BY <3>1, <3>2 DEF Since
  <2>4. now \subseteq W /\ before \subseteq W
    BY DEF Since
  <2> HIDE DEF now, before
  <2>5. now = before \cup {d}
    BY <1>3, <2>2, <2>3, <2>4
  <2>6. Cardinality(now) = Cardinality(before) + 1
    BY <1>1, <2>1, <2>5, FS_AddElement
  <2>7. QED
    BY <1>3, <2>6 DEF RunStep, now, before
<1>4. CASE d \notin W
  <2>1. ASSUME NEW e \in W PROVE e \in now <=> e \in before
    <3>1. e <= d <=> e <= d - 1
      BY <1>4, <2>1
    <3>2. \A f \in breaks : f <= d <=> f <= d - 1
      BY <1>4
    <3>3. QED
      BY <3>1, <3>2 DEF Since
  <2>2. now \subseteq W /\ before \subseteq W
    BY DEF Since
  <2> HIDE DEF now, before
  <2>3. now = before
    BY <2>1, <2>2
  <2>4. QED
    BY <1>1, <1>4, <2>3 DEF RunStep, now, before
<1>5. QED
  BY <1>2, <1>3, <1>4

\* So the count exists, and has only one outcome.
LEMMA CountedRun ==
  ASSUME NEW W, IsFiniteSet(W), W \subseteq Nat, NEW breaks, breaks \subseteq W, NEW n \in Nat
  PROVE  /\ \E run : IsRun(W, breaks, n, run)
         /\ \A run : IsRun(W, breaks, n, run) => \A d \in -1..n : run[d] = Cardinality(Since(W, breaks, d))
<1>1. Cardinality(Since(W, breaks, -1)) = 0 /\ \A x : RunStep(W, breaks, -1, x) = 0
  <2>a. \A e \in W : ~(e <= -1)
    OBVIOUS
  <2>1. Since(W, breaks, -1) = {}
    BY <2>a DEF Since
  <2>2. Cardinality(Since(W, breaks, -1)) = 0
    BY <2>1, FS_EmptySet
  <2>3. QED
    BY <2>2 DEF RunStep
<1>2. \E run : IsRun(W, breaks, n, run)
  <2> DEFINE run == [d \in -1..n |-> Cardinality(Since(W, breaks, d))]
  <2>1. ASSUME NEW d \in -1..n PROVE run[d] = RunStep(W, breaks, d, run[d - 1])
    <3>1. CASE d = -1
      BY <1>1, <2>1, <3>1
    <3>2. CASE d # -1
      <4>1. d \in Nat /\ d - 1 \in -1..n
        BY <3>2
      <4>2. run[d] = Cardinality(Since(W, breaks, d)) /\ run[d - 1] = Cardinality(Since(W, breaks, d - 1))
        BY <4>1
      <4>3. QED
        BY <4>1, <4>2, SinceStep
    <3>3. QED
      BY <3>1, <3>2
  <2>2. run = [d \in -1..n |-> run[d]]
    OBVIOUS
  <2> HIDE DEF run
  <2>3. run = [d \in -1..n |-> RunStep(W, breaks, d, run[d - 1])]
    BY <2>1, <2>2
  <2>4. QED
    BY <2>3 DEF IsRun
<1>3. ASSUME NEW run, IsRun(W, breaks, n, run)
      PROVE  \A d \in -1..n : run[d] = Cardinality(Since(W, breaks, d))
  <2> DEFINE Amiss == {d \in -1..n : run[d] # Cardinality(Since(W, breaks, d))}
  <2> SUFFICES ASSUME Amiss # {} PROVE FALSE
    OBVIOUS
  <2>1. IsFiniteSet(Amiss) /\ \A d \in Amiss : d \in Int
    <3>1. Amiss \in SUBSET (-1..n) /\ -1..n \subseteq Int
      OBVIOUS
    <3>2. IsFiniteSet(-1..n)
      BY FS_Interval
    <3> HIDE DEF Amiss
    <3>3. QED
      BY <3>1, <3>2, FS_Subset
  <2> DEFINE d == Min(Amiss)
  <2>2. d \in Amiss /\ \A e \in Amiss : d <= e
    <3> HIDE DEF Amiss
    <3>1. QED
      BY <2>1, LeastOf
  <2> HIDE DEF d
  <2>3. d \in -1..n /\ run[d] # Cardinality(Since(W, breaks, d))
    BY <2>2
  <2>4. run[d] = RunStep(W, breaks, d, run[d - 1])
    BY <1>3, <2>3 DEF IsRun
  <2>5. CASE d = -1
    BY <1>1, <2>3, <2>4, <2>5
  <2>6. CASE d # -1
    <3>1. d - 1 \in -1..n /\ d \in Nat
      BY <2>3, <2>6
    <3>2. run[d - 1] = Cardinality(Since(W, breaks, d - 1))
      BY <2>2, <3>1
    <3>3. QED
      BY <2>3, <2>4, <3>1, <3>2, SinceStep
  <2>7. QED
    BY <2>5, <2>6
<1>4. QED
  BY <1>2, <1>3

\* The last so many days of a set.
After(W, d) == {e \in W : e > d}
Latest(W, least) == {d \in W : Cardinality(After(W, d)) < least}

\* There are so many, when the set has so many.
LEMMA LatestMany ==
  ASSUME NEW W, IsFiniteSet(W), W \subseteq Nat, NEW least \in Nat, least <= Cardinality(W)
  PROVE  Cardinality(Latest(W, least)) = least
<1> DEFINE Bad == {T \in SUBSET W : least <= Cardinality(T) /\ Cardinality(Latest(T, least)) # least}
<1> SUFFICES ASSUME Bad # {} PROVE FALSE
  OBVIOUS
<1>1. PICK T \in Bad : \A U \in Bad : ~(U \subseteq T /\ U # T)
  <2>1. Bad \in SUBSET (SUBSET W) /\ Bad # {} /\ IsFiniteSet(W)
    OBVIOUS
  <2> HIDE DEF Bad
  <2> QED
    BY ONLY <2>1, SmallestSubset
<1>2. /\ IsFiniteSet(T) /\ T \subseteq Nat /\ Cardinality(T) \in Nat /\ T \in SUBSET W
      /\ least <= Cardinality(T) /\ Cardinality(Latest(T, least)) # least
  BY <1>1, FS_Subset, FS_CardinalityType
<1>3. \A U \in SUBSET T : U # T /\ least <= Cardinality(U) => Cardinality(Latest(U, least)) = least
  BY <1>1, <1>2
<1> HIDE DEF Bad
<1>4. CASE least = Cardinality(T)
  <2>1. ASSUME NEW d \in T PROVE Cardinality(After(T, d)) < least
    <3>1. After(T, d) \subseteq T \ {d}
      BY <1>2 DEF After
    <3>2. IsFiniteSet(T \ {d}) /\ Cardinality(T \ {d}) = Cardinality(T) - 1
      BY <1>2, FS_RemoveElement
    <3>3. IsFiniteSet(After(T, d)) /\ Cardinality(After(T, d)) <= Cardinality(T \ {d})
      BY <3>1, <3>2, FS_Subset
    <3>4. Cardinality(After(T, d)) \in Nat
      BY <3>3, FS_CardinalityType
    <3>5. QED
      BY <1>2, <1>4, <3>2, <3>3, <3>4
  <2>2. Latest(T, least) = T
    BY <2>1 DEF Latest
  <2>3. QED
    BY <1>2, <1>4, <2>2
<1>5. CASE least < Cardinality(T)
  <2>1. T # {}
    <3>1. SUFFICES ASSUME T = {} PROVE FALSE
      OBVIOUS
    <3>2. Cardinality(T) = 0
      BY <3>1, FS_EmptySet
    <3>3. QED
      BY <1>5, <3>2
  <2> DEFINE m == Min(T)
             U == T \ {m}
  <2>2. m \in T /\ \A d \in T : m <= d
    <3>1. \A d \in T : d \in Int
      BY <1>2
    <3>2. QED
      BY <1>2, <2>1, <3>1, LeastOf
  <2> HIDE DEF m
  <2>3. Cardinality(U) = Cardinality(T) - 1 /\ IsFiniteSet(U)
    BY <1>2, <2>2, FS_RemoveElement
  <2>4. ASSUME NEW d \in U PROVE After(U, d) = After(T, d)
    <3>1. ~(m > d)
      BY <1>2, <2>2
    <3>2. QED
      BY <3>1 DEF After
  <2>5. After(T, m) = U
    <3>1. \A d \in T : d > m <=> d # m
      BY <1>2, <2>2
    <3>2. QED
      BY <3>1 DEF After
  <2>6. ~(Cardinality(After(T, m)) < least)
    BY <1>2, <1>5, <2>3, <2>5
  <2>7. Latest(T, least) = Latest(U, least)
    <3>1. \A d \in T : d = m \/ d \in U
      OBVIOUS
    <3>2. U \subseteq T
      OBVIOUS
    <3> HIDE DEF U
    <3>3. QED
      BY <2>4, <2>6, <3>1, <3>2 DEF Latest
  <2>8. Cardinality(Latest(U, least)) = least
    <3>1. U \in SUBSET T /\ U # T
      BY <2>2
    <3> HIDE DEF U
    <3>2. QED
      BY <1>2, <1>3, <1>5, <2>3, <3>1
  <2>9. QED
    BY <1>2, <2>7, <2>8
<1>6. QED
  BY <1>2, <1>4, <1>5

\* The streak is so long exactly when the last so many days are absences.
LEMMA StreakIsLatest ==
  ASSUME NEW n \in Nat, NEW W, IsFiniteSet(W), W \subseteq 0..n, NEW breaks, breaks \subseteq W, NEW least \in Nat \ {0}
  PROVE  Cardinality(Since(W, breaks, n)) >= least
           <=> Cardinality(Latest(W, least)) = least /\ Latest(W, least) \cap breaks = {}
<1> DEFINE run == Since(W, breaks, n)
           last == Latest(W, least)
<1>1. /\ run \subseteq W /\ last \subseteq W
      /\ \A e \in W : e \in run <=> \A f \in breaks : ~(e <= f)
  BY DEF Since, Latest
<1>2. \A e \in W : e \in Nat
  OBVIOUS
<1>3. \A d \in W : IsFiniteSet(After(W, d)) /\ Cardinality(After(W, d)) \in Nat
  <2>1. \A d \in W : After(W, d) \in SUBSET W
    BY DEF After
  <2>2. QED
    BY <2>1, FS_Subset, FS_CardinalityType
<1>4. IsFiniteSet(run) /\ Cardinality(run) \in Nat /\ Cardinality(W) \in Nat /\ Cardinality(run) <= Cardinality(W)
  <2>1. run \in SUBSET W
    BY <1>1
  <2> HIDE DEF run
  <2>2. QED
    BY <2>1, FS_Subset, FS_CardinalityType
<1>5. ASSUME Cardinality(run) >= least PROVE Cardinality(last) = least /\ last \cap breaks = {}
  <2>1. Cardinality(last) = least
    <3>1. least <= Cardinality(W) /\ W \subseteq Nat
      BY <1>2, <1>4, <1>5
    <3>2. QED
      BY <3>1, LatestMany
  <2>2. ASSUME NEW d \in last, d \in breaks PROVE FALSE
    <3>1. d \in W /\ Cardinality(After(W, d)) < least
      BY <2>2 DEF Latest
    <3>2. ASSUME NEW e \in run PROVE e > d
      <4>1. e \in W /\ ~(e <= d)
        BY <1>1, <2>2
      <4>2. e \in Nat /\ d \in Nat
        BY <1>2, <3>1, <4>1
      <4>3. QED
        BY <4>1, <4>2
    <3>3. run \subseteq After(W, d)
      BY <1>1, <3>2 DEF After
    <3>4. Cardinality(run) <= Cardinality(After(W, d))
      <4> HIDE DEF run
      <4>1. QED
        BY <1>3, <3>1, <3>3, FS_Subset
    <3>5. QED
      BY <1>3, <1>4, <1>5, <3>1, <3>4
  <2>3. QED
    BY <2>1, <2>2
<1>6. ASSUME Cardinality(last) = least, last \cap breaks = {} PROVE Cardinality(run) >= least
  <2>1. ASSUME NEW e \in last, NEW f \in breaks, e <= f PROVE FALSE
    <3>1. e \in W /\ f \in W /\ Cardinality(After(W, e)) < least
      BY DEF Latest
    <3>2. ASSUME NEW g \in After(W, f) PROVE g \in After(W, e)
      <4>1. g \in W /\ g > f
        BY DEF After
      <4>2. {e, f, g} \subseteq Nat
        BY <1>2, <3>1, <4>1
      <4>3. QED
        BY <2>1, <4>1, <4>2 DEF After
    <3>3. Cardinality(After(W, f)) <= Cardinality(After(W, e))
      <4>1. After(W, f) \subseteq After(W, e)
        BY <3>2
      <4>2. QED
        BY <1>3, <3>1, <4>1, FS_Subset
    <3>4. f \in last
      BY <1>3, <3>1, <3>3 DEF Latest
    <3>5. QED
      BY <1>6, <3>4
  <2>2. last \subseteq run
    BY <1>1, <2>1
  <2>3. Cardinality(last) <= Cardinality(run)
    <3> HIDE DEF last, run
    <3>1. QED
      BY <1>4, <2>2, FS_Subset
  <2>4. QED
    BY <1>4, <1>6, <2>3
<1>7. QED
  BY <1>5, <1>6

\* So it is for every student and day.
LEMMA StreakCounts ==
  ASSUME NEW s, NEW asOf \in Nat
  PROVE  LET days == MarkedDays(s, asOf)
         IN  Streak(s, asOf) = Cardinality(Since(days, {d \in days : StatusOf(<<s, d, None>>) # "absent"}, asOf))
<1> DEFINE days == MarkedDays(s, asOf)
           breaks == {d \in days : StatusOf(<<s, d, None>>) # "absent"}
           run == CHOOSE r : IsRun(days, breaks, asOf, r)
<1>1. Streak(s, asOf) = run[asOf]
  BY DEF Streak, IsRun, RunStep
<1>2. days \subseteq 0..asOf /\ IsFiniteSet(days)
  <2>1. days \in SUBSET (0..asOf)
    BY DEF MarkedDays
  <2>2. IsFiniteSet(0..asOf)
    BY FS_Interval
  <2> HIDE DEF days
  <2>3. QED
    BY <2>1, <2>2, FS_Subset
<1>3. breaks \subseteq days
  OBVIOUS
<1> HIDE DEF days, breaks
<1>7. days \subseteq Nat
  <2>1. 0..asOf \subseteq Nat
    OBVIOUS
  <2>2. QED
    BY <1>2, <2>1
<1>8. asOf \in -1..asOf
  OBVIOUS
<1>4. /\ \E r : IsRun(days, breaks, asOf, r)
      /\ \A r : IsRun(days, breaks, asOf, r) => \A d \in -1..asOf : r[d] = Cardinality(Since(days, breaks, d))
  BY <1>2, <1>3, <1>7, CountedRun
<1>5. run[asOf] = Cardinality(Since(days, breaks, asOf))
  BY <1>4, <1>8
<1>6. QED
  BY <1>1, <1>5 DEF days, breaks

\* A long absentee was absent on as many marked days as the report asks for.
LEMMA AbsencesAreLatest ==
  ASSUME AttendanceInv
  PROVE  LongAbsenceIsLatest
<1>1. SUFFICES ASSUME NEW least \in 1..(MaxDay + 1), NEW s \in Students
               PROVE  s \in long_absentees(today, least) <=>
                        LET days == {d \in 0..today : d \notin Off /\ rows[<<s, d, None>>] # <<>>}
                            last == {d \in days : Cardinality({e \in days : e > d}) < least}
                        IN  Cardinality(last) = least /\ \A d \in last : StatusOf(<<s, d, None>>) = "absent"
  BY DEF LongAbsenceIsLatest, long_absentees
<1> DEFINE days == MarkedDays(s, today)
           breaks == {d \in days : StatusOf(<<s, d, None>>) # "absent"}
           last == Latest(days, least)
<1>2. today \in Nat /\ least \in Nat \ {0}
  BY CalendarAssumption DEF AttendanceInv, RegisterShape, Days
<1>3. Streak(s, today) = Cardinality(Since(days, breaks, today))
  BY <1>2, StreakCounts
<1>4. days \subseteq 0..today /\ IsFiniteSet(days) /\ breaks \subseteq days
  <2>1. days \in SUBSET (0..today) /\ breaks \subseteq days
    BY DEF MarkedDays
  <2>2. IsFiniteSet(0..today)
    BY <1>2, FS_Interval
  <2> HIDE DEF days, breaks
  <2>3. QED
    BY <2>1, <2>2, FS_Subset
<1>5. (last \cap breaks = {}) <=> \A d \in last : StatusOf(<<s, d, None>>) = "absent"
  BY DEF Latest
<1> HIDE DEF days, breaks, last
<1>6. Cardinality(Since(days, breaks, today)) >= least <=> Cardinality(last) = least /\ last \cap breaks = {}
  BY <1>2, <1>4, StreakIsLatest DEF last
<1>7. s \in long_absentees(today, least) <=> Streak(s, today) >= least
  BY DEF long_absentees
<1>8. QED
  BY <1>3, <1>5, <1>6, <1>7 DEF last, days, MarkedDays, Latest, After

\* The reports of one register agree, in every state (percentage,
\* student_calendar, section_percentages, register, daily_summary and
\* long_absentees of apps/attendance/services.py), for any calendar and class.
THEOREM ReportsDoAgree == AttendanceSpec => []ReportsAgree
<1>1. AttendanceInv => ReportsAgree
  BY PercentagesDoAgree, AbsencesAreLatest, SummaryDoesAddUp DEF ReportsAgree
<1>2. QED
  BY <1>1, AttendanceInvariant, PTL DEF AttendanceSpec
=============================================================================
