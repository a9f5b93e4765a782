SPECIFICATION FairSpec
CONSTANTS
  s1 = s1
  s2 = s2
  s3 = s3
  x = x
  y = y
  half = half
  annual = annual
  maths = maths
  art = art
  maths2 = maths2
  None = None
  Students = {s1, s2, s3}
  Exams = {half, annual}
  Papers = {maths, art, maths2}
  Requests = {p1, p2}
  Sections = {x, y}
  SectionOf <- MCSectionOf
  ExamOf <- MCExamOf
  SubjectOf <- MCSubjectOf
  Credits <- MCCredits
  Weightage <- MCWeightage
  Batches <- MCBatches
  PaperEdits <- MCPaperEdits
  FirstPapers <- MCFirstPapers
  Scales <- MCScales
  Earlier <- MCEarlier
  MaxServed = 3
CHECK_DEADLOCK FALSE
INVARIANTS
  BatchesDoNotMix
  ResultsSound
PROPERTIES
  MarksCountFairly
  SavesEnd
