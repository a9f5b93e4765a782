----------------------------- MODULE ClassList ------------------------------
(***************************************************************************)
(* The active enrolments that exams and attendance read (apps/people): each*)
(* student is in one section.  The exams' stays as it is; attendance starts *)
(* with it and lets students change sections and leave.                    *)
(***************************************************************************)
EXTENDS FiniteSets

CONSTANTS
  Students, Sections,
  SectionOf     \* SectionOf[s]: the section of a student

ASSUME RosterAssumption == SectionOf \in [Students -> Sections] /\ IsFiniteSet(Students)

Roster(section) == {s \in Students : SectionOf[s] = section}
=============================================================================
