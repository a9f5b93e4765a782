-------------------------- MODULE TimetableProofs --------------------------
(***************************************************************************)
(* What the lock of the teacher gives in `place', for any timetable and    *)
(* any number of offices at work on it: no teacher stands in two places,   *)
(* and nobody's week is overfull.  Then what the checks and the unique     *)
(* index give a section, and, until two placements or two confirmations    *)
(* overlap, a room and the teacher who covers a lesson.                    *)
(***************************************************************************)
EXTENDS Timetable, FiniteSetTheorems, TLAPS

\* The types the argument about teachers and loads needs: it never looks at
\* rooms and covers.
Shape ==
  /\ entry \in [Ids -> Row \cup {None}] /\ made \in 0..MaxEntries
  /\ \A i \in Live : i <= made
  /\ time \in [Slots -> Times \cup {None}]
  /\ runs \in [Slots -> SUBSET Days]
  /\ teaches \in [Assignments -> Teachers] /\ load \in [Teachers -> Nat]
  /\ allotted \in [Assignments -> Allotments]
  /\ pc \in [Requests -> {"idle", "fetched", "placing", "removing", "asked", "covering"}]
  /\ DOMAIN seen = Requests
  /\ \A p \in Requests :
       /\ pc[p] \in {"fetched", "placing"} => seen[p] \in PlacingSeen
       /\ pc[p] = "removing" => seen[p] \in RemovingSeen

Placing(p) == pc[p] = "placing"
InGrid(row) == SlotSchedule[row.slot] = follows[row.section] /\ row.day \in runs[row.slot]

\* What a request fetched is still so, unless an edit is on record.
InPlace(p) == pc[p] \in {"fetched", "placing"}
AsFetched ==
  \A p \in Requests : InPlace(p) =>
    /\ "teachers" \notin disturbed => seen[p].teacher = TeacherOf(seen[p].row)
    /\ "times" \notin disturbed => time[seen[p].row.slot] \in {seen[p].period, None}
    /\ "loads" \notin disturbed => seen[p].allotted = allotted[seen[p].row.assignment]
    /\ disturbed \cap {"schedules", "days"} = {} => InGrid(seen[p].row)

Quiet == disturbed \cap {"times", "teachers"} = {}

\* select_for_update: one request at a time places lessons of a teacher.
LockHeld ==
  \A p, q \in Requests :
    Placing(p) /\ Placing(q) /\ seen[p].teacher = seen[q].teacher => p = q

\* What a request found stays true until it writes: the row is for the teacher
\* it locked, and none of the teacher's other lessons is at that time.
StillFree ==
  Quiet => \A p \in Requests : Placing(p) =>
    /\ seen[p].teacher = TeacherOf(seen[p].row)
    /\ time[seen[p].row.slot] # None =>
         \A j \in LessonsOf(seen[p].teacher) \ {seen[p].entry} : ~SameTime(entry[j], seen[p].row)

\* ... and with one lesson more neither the teacher nor the subject is over
\* its limit.
LoadQuiet == disturbed \cap {"teachers", "loads"} = {}
StillUnderLoad ==
  LoadQuiet => \A p \in Requests : Placing(p) =>
    /\ seen[p].teacher = TeacherOf(seen[p].row)
    /\ Cardinality(LessonsOf(seen[p].teacher) \ {seen[p].entry}) < load[seen[p].teacher]
    /\ allotted[seen[p].row.assignment] > 0 =>
         Cardinality(HeldFor(seen[p].row.assignment) \ {seen[p].entry})
           < allotted[seen[p].row.assignment]

FreeInv == StillFree /\ TeacherInOnePlace
LoadInv == StillUnderLoad /\ LoadsRespected
IInv == Shape /\ AsFetched /\ LockHeld /\ FreeInv /\ LoadInv

-----------------------------------------------------------------------------
\* Two lessons are at the same time in either order.
LEMMA SameTimeSymmetric ==
  ASSUME NEW r, NEW s
  PROVE  SameTime(r, s) <=> SameTime(s, r)
  BY DEF SameTime, Overlaps

\* A step that places nothing, and neither edits a period nor gives lessons to
\* another teacher, keeps the invariant; it may take lessons away, and remove
\* periods no lesson is left in.
LEMMA QuietForTimes ==
  ASSUME Shape, FreeInv, teaches' = teaches, disturbed \subseteq disturbed',
         \A p \in Requests : Placing(p)' => Placing(p) /\ seen'[p] = seen[p],
         \A i \in Live' : /\ i \in Live /\ entry'[i] = entry[i]
                          /\ time'[entry[i].slot] = time[entry[i].slot],
         \A s \in Slots : time'[s] = time[s] \/ time'[s] = None
  PROVE  FreeInv'
<1>1. Quiet' => Quiet
  BY DEF Quiet
<1>2. StillFree'
  <2> SUFFICES ASSUME Quiet', NEW p \in Requests, Placing(p)'
               PROVE  /\ seen'[p].teacher = TeacherOf(seen[p].row)'
                      /\ time'[seen'[p].row.slot] # None =>
                           \A j \in LessonsOf(seen[p].teacher)' \ {seen'[p].entry} :
                             ~SameTime(entry[j], seen[p].row)'
    BY DEF StillFree
  <2>1. Placing(p) /\ seen'[p] = seen[p] /\ seen[p] \in PlacingSeen /\ seen[p].row.slot \in Slots
    BY DEF Shape, Placing, PlacingSeen, Row
  <2>2. seen'[p].teacher = TeacherOf(seen[p].row)'
    BY <1>1, <2>1 DEF FreeInv, StillFree, TeacherOf
  <2>3. ASSUME time'[seen[p].row.slot] # None,
               NEW j \in LessonsOf(seen[p].teacher)' \ {seen[p].entry}
        PROVE  ~SameTime(entry[j], seen[p].row)'
    <3>1. time'[seen[p].row.slot] = time[seen[p].row.slot]
      BY <2>1, <2>3
    <3>2. j \in LessonsOf(seen[p].teacher)' /\ LessonsOf(seen[p].teacher)' \subseteq LessonsOf(seen[p].teacher)
      BY <2>1 DEF LessonsOf, TeacherOf
    <3>3. ~SameTime(entry[j], seen[p].row)
      BY <1>1, <2>1, <2>3, <3>1, <3>2 DEF FreeInv, StillFree
    <3>4. j \in Live'
      BY <3>2 DEF LessonsOf
    <3>5. entry'[j] = entry[j] /\ time'[entry[j].slot] = time[entry[j].slot]
      BY <3>4
    <3> QED
      BY <3>1, <3>3, <3>5, <2>1 DEF SameTime
  <2> QED
    BY <2>1, <2>2, <2>3
<1>3. TeacherInOnePlace'
  <2> SUFFICES ASSUME Quiet', NEW i \in Live', NEW j \in Live', i # j,
                      TeacherOf(entry[i])' = TeacherOf(entry[j])'
               PROVE  ~SameTime(entry[i], entry[j])'
    BY DEF TeacherInOnePlace, Quiet
  <2>1. ~SameTime(entry[i], entry[j])
    BY <1>1 DEF FreeInv, TeacherInOnePlace, Quiet, TeacherOf
  <2> QED
    BY <2>1 DEF SameTime
<1> QED
  BY <1>2, <1>3 DEF FreeInv

\* The lessons of a teacher, and those of a subject, can be counted.
LEMMA LessonsFinite ==
  ASSUME NEW S \in SUBSET Live
  PROVE  IsFiniteSet(S) /\ Cardinality(S) \in Nat
<1>1. IsFiniteSet(Ids)
  BY FS_Interval, BoundsAssumption DEF Ids
<1> QED
  BY <1>1, FS_Subset, FS_CardinalityType DEF Live

\* Among fewer lessons there are fewer of any kind.
LEMMA NotMore ==
  ASSUME NEW S \in SUBSET Live, NEW T \in SUBSET S
  PROVE  Cardinality(T) <= Cardinality(S) /\ Cardinality(S) \in Nat /\ Cardinality(T) \in Nat
  BY LessonsFinite, FS_Subset

\* A table without lessons is within every limit.
LEMMA EmptyTable ==
  ASSUME Shape, Live = {}
  PROVE  LoadsRespected
<1>1. \A t \in Teachers : load[t] \in Nat
  BY DEF Shape
<1>2. \A a \in Assignments : allotted[a] \in Nat
  BY BoundsAssumption DEF Shape
<1>3. Live = {} => \A t \in Teachers : Cardinality(LessonsOf(t)) = 0
  BY FS_EmptySet DEF LessonsOf
<1>4. Live = {} => \A a \in Assignments : Cardinality(HeldFor(a)) = 0
  BY FS_EmptySet DEF HeldFor
<1> QED
  BY <1>1, <1>2, <1>3, <1>4 DEF LoadsRespected, LoadQuiet

\* A timetable without lessons overloads nobody.
LEMMA EmptyWeeks ==
  ASSUME Shape', LoadQuiet' => Live' = {}
  PROVE  LoadsRespected'
<1>1. \A t \in Teachers : load'[t] \in Nat
  BY DEF Shape
<1>2. \A a \in Assignments : allotted'[a] \in Nat
  BY BoundsAssumption DEF Shape
<1>3. Live' = {} => \A t \in Teachers : Cardinality(LessonsOf(t)') = 0
  BY FS_EmptySet DEF LessonsOf
<1>4. Live' = {} => \A a \in Assignments : Cardinality(HeldFor(a)') = 0
  BY FS_EmptySet DEF HeldFor
<1> QED
  BY <1>1, <1>2, <1>3, <1>4 DEF LoadsRespected, LoadQuiet

\* A step that places nothing and leaves teachers and limits alone keeps the
\* weeks within their limits; it may take lessons away.
LEMMA QuietForLoads ==
  ASSUME Shape, LoadInv, UNCHANGED <<teaches, allotted, load>>, disturbed \subseteq disturbed',
         \A p \in Requests : Placing(p)' => Placing(p) /\ seen'[p] = seen[p],
         \A i \in Live' : i \in Live /\ entry'[i] = entry[i]
  PROVE  LoadInv'
<1>1. LoadQuiet' => LoadQuiet
  BY DEF LoadQuiet
<1>2. ASSUME NEW t PROVE LessonsOf(t)' \subseteq LessonsOf(t) /\ LessonsOf(t) \subseteq Live
  BY DEF LessonsOf, TeacherOf
<1>3. ASSUME NEW a PROVE HeldFor(a)' \subseteq HeldFor(a) /\ HeldFor(a) \subseteq Live
  BY DEF HeldFor
<1>4. StillUnderLoad'
  <2> SUFFICES ASSUME LoadQuiet', NEW p \in Requests, Placing(p)'
               PROVE  /\ seen'[p].teacher = TeacherOf(seen[p].row)'
                      /\ Cardinality(LessonsOf(seen[p].teacher)' \ {seen'[p].entry}) < load[seen[p].teacher]'
                      /\ allotted'[seen'[p].row.assignment] > 0 =>
                           Cardinality(HeldFor(seen[p].row.assignment)' \ {seen'[p].entry})
                             < allotted'[seen'[p].row.assignment]
    BY DEF StillUnderLoad
  <2> DEFINE t == seen[p].teacher
             i == seen[p].entry
             a == seen[p].row.assignment
  <2>1. Placing(p) /\ seen'[p] = seen[p] /\ t \in Teachers /\ a \in Assignments
    BY DEF Shape, Placing, PlacingSeen, Row
  <2>2. /\ t = TeacherOf(seen[p].row)
        /\ Cardinality(LessonsOf(t) \ {i}) < load[t]
        /\ allotted[a] > 0 => Cardinality(HeldFor(a) \ {i}) < allotted[a]
    BY <1>1, <2>1 DEF LoadInv, StillUnderLoad
  <2>3. load[t] \in Nat /\ allotted[a] \in Nat
    BY <2>1, BoundsAssumption DEF Shape
  <2>4. LessonsOf(seen[p].teacher)' \subseteq LessonsOf(t) /\ HeldFor(seen[p].row.assignment)' \subseteq HeldFor(a)
    BY <2>1 DEF LessonsOf, TeacherOf, HeldFor
  <2>5. /\ Cardinality(LessonsOf(seen[p].teacher)' \ {i}) <= Cardinality(LessonsOf(t) \ {i})
        /\ Cardinality(LessonsOf(seen[p].teacher)' \ {i}) \in Nat /\ Cardinality(LessonsOf(t) \ {i}) \in Nat
    BY <1>2, <2>4, NotMore
  <2>6. /\ Cardinality(HeldFor(seen[p].row.assignment)' \ {i}) <= Cardinality(HeldFor(a) \ {i})
        /\ Cardinality(HeldFor(seen[p].row.assignment)' \ {i}) \in Nat /\ Cardinality(HeldFor(a) \ {i}) \in Nat
    BY <1>3, <2>4, NotMore
  <2>7. seen'[p].teacher = TeacherOf(seen[p].row)' /\ load'[seen'[p].teacher] = load[t]
    BY <2>1, <2>2 DEF TeacherOf
  <2> QED
    BY <2>1, <2>2, <2>3, <2>5, <2>6, <2>7
<1>5. LoadsRespected'
  <2> SUFFICES ASSUME LoadQuiet'
               PROVE  /\ \A t \in Teachers : Cardinality(LessonsOf(t)') <= load'[t]
                      /\ \A a \in Assignments : allotted'[a] > 0 => Cardinality(HeldFor(a)') <= allotted'[a]
    BY DEF LoadsRespected, LoadQuiet
  <2>1. ASSUME NEW t \in Teachers PROVE Cardinality(LessonsOf(t)') <= load'[t]
    <3>1. Cardinality(LessonsOf(t)) <= load[t] /\ load[t] \in Nat
      BY <1>1 DEF LoadInv, LoadsRespected, LoadQuiet, Shape
    <3> QED
      BY <3>1, <1>2, NotMore
  <2>2. ASSUME NEW a \in Assignments, allotted'[a] > 0 PROVE Cardinality(HeldFor(a)') <= allotted'[a]
    <3>1. Cardinality(HeldFor(a)) <= allotted[a] /\ allotted[a] \in Nat
      BY <1>1, <2>2, BoundsAssumption DEF Shape, LoadInv, LoadsRespected, LoadQuiet
    <3> QED
      BY <3>1, <1>3, NotMore
  <2> QED
    BY <2>1, <2>2
<1> QED
  BY <1>4, <1>5 DEF LoadInv

-----------------------------------------------------------------------------
\* The types hold to begin with ...
LEMMA InitShape == Init => Shape
  BY TablesAssumption, BoundsAssumption, NoneAssumption DEF Init, Shape, Ids, Live

\* What a request that ends leaves behind.
LEMMA EndsShape ==
  ASSUME Shape, NEW p \in Requests,
         pc' = [pc EXCEPT ![p] = "idle"], seen' = [seen EXCEPT ![p] = None]
  PROVE  /\ pc' \in [Requests -> {"idle", "fetched", "placing", "removing", "asked", "covering"}]
         /\ DOMAIN seen' = Requests
         /\ \A q \in Requests : /\ pc'[q] \in {"fetched", "placing"} => seen'[q] \in PlacingSeen
                                /\ pc'[q] = "removing" => seen'[q] \in RemovingSeen
         /\ \A q \in Requests : pc'[q] # "idle" => q # p /\ pc'[q] = pc[q] /\ seen'[q] = seen[q]
  BY DEF Shape

\* ... when a request has fetched what a lesson needs ...
LEMMA PlaceFetchShape ==
  ASSUME Shape, NEW p \in Requests, NEW i \in Ids \cup {None}, NEW row \in Row, PlaceFetch(p, i, row)
  PROVE  Shape'
<1>1. TeacherOf(row) \in Teachers /\ time[row.slot] \in Times /\ allotted[row.assignment] \in Allotments
  BY DEF TeacherOf, Row, Shape, PlaceFetch, Fits
<1>2. [entry |-> i, row |-> row, teacher |-> TeacherOf(row),
       period |-> time[row.slot], allotted |-> allotted[row.assignment]] \in PlacingSeen
  BY <1>1 DEF PlacingSeen
<1> QED
  BY <1>2 DEF Shape, PlaceFetch, tables, Live

\* ... when it writes it ...
LEMMA PlaceWriteShape ==
  ASSUME Shape, NEW p \in Requests, PlaceWrite(p)
  PROVE  Shape'
<1> DEFINE i == IF seen[p].entry = None THEN made + 1 ELSE seen[p].entry
<1>1. seen[p] \in PlacingSeen
  BY DEF Shape, PlaceWrite
<1>2. i \in Ids /\ seen[p].row \in Row
  BY <1>1, BoundsAssumption DEF PlaceWrite, PlacingSeen, Ids, Shape
<1>3. entry' = [entry EXCEPT ![i] = seen[p].row] /\ made' = (IF i > made THEN i ELSE made)
  BY DEF PlaceWrite
<1>4. entry' \in [Ids -> Row \cup {None}] /\ made' \in 0..MaxEntries
  BY <1>2, <1>3, BoundsAssumption DEF Shape, Ids
<1>5. \A j \in Live' : j <= made'
  BY <1>2, <1>3, BoundsAssumption DEF Shape, Ids, Live
<1>6. pc' = [pc EXCEPT ![p] = "idle"] /\ seen' = [seen EXCEPT ![p] = None]
      /\ UNCHANGED <<time, runs, teaches, allotted, load>>
  BY DEF PlaceWrite
<1> QED
  BY <1>4, <1>5, <1>6, EndsShape DEF Shape

\* ... when a slot is removed ...
LEMMA RemoveSlotShape ==
  ASSUME Shape, NEW p \in Requests, RemoveSlot(p)
  PROVE  Shape'
<1> DEFINE gone == {i \in Live : entry[i].slot = seen[p].slot}
<1>1. entry' = [i \in Ids |-> IF i \in gone THEN None ELSE entry[i]]
  BY DEF RemoveSlot
<1>2. entry' \in [Ids -> Row \cup {None}] /\ Live' \subseteq Live
  BY <1>1 DEF Shape, Live
<1>3. time' \in [Slots -> Times \cup {None}] /\ UNCHANGED <<made, runs, teaches, allotted, load>>
  BY DEF RemoveSlot, Shape
<1>4. pc' = [pc EXCEPT ![p] = "idle"] /\ seen' = [seen EXCEPT ![p] = None]
  BY DEF RemoveSlot
<1> QED
  BY <1>2, <1>3, <1>4, EndsShape DEF Shape

\* ... and after any step.
LEMMA NextShape == Shape /\ [Next]_vars => Shape'
<1> SUFFICES ASSUME Shape, [Next]_vars PROVE Shape'
  OBVIOUS
<1>1. ASSUME NEW p \in Requests, PlaceStep(p) PROVE Shape'
  <2>1. ASSUME NEW row \in Wanted, PlaceFetch(p, None, row) PROVE Shape'
    BY <2>1, PlaceFetchShape, WantedAssumption
  <2>2. ASSUME NEW i \in Live, NEW row \in Wanted, PlaceFetch(p, i, row) PROVE Shape'
    BY <2>2, PlaceFetchShape, WantedAssumption DEF Live
  <2>3. CASE PlaceCheck(p)
    BY <2>3 DEF PlaceCheck, tables, Shape, Live
  <2> QED
    BY <1>1, <2>1, <2>2, <2>3, PlaceWriteShape DEF PlaceStep
<1>2. ASSUME NEW p \in Requests, CoverStep(p) PROVE Shape'
  <2>1. ASSUME NEW i, NEW t, NEW d, ConfirmFetch(p, i, t, d) PROVE Shape'
    BY <2>1 DEF ConfirmFetch, tables, Shape, Live
  <2>2. CASE ConfirmCheck(p)
    BY <2>2 DEF ConfirmCheck, tables, Shape, Live
  <2>3. CASE ConfirmWrite(p)
    BY <2>3, EndsShape DEF ConfirmWrite, Shape, Live
  <2> QED
    BY <1>2, <2>1, <2>2, <2>3 DEF CoverStep
<1>3. ASSUME NEW p \in Requests, ScheduleStep(p) PROVE Shape'
  <2>1. ASSUME NEW s \in Slots \cap Edited, RemoveCheck(p, s) PROVE Shape'
    <3>1. [slot |-> s] \in RemovingSeen
      BY DEF RemovingSeen
    <3> QED
      BY <2>1, <3>1 DEF RemoveCheck, tables, Shape, Live
  <2> QED
    BY <1>3, <2>1, RemoveSlotShape DEF ScheduleStep
<1>4. ASSUME NEW p \in Requests, Abort(p) PROVE Shape'
  BY <1>4, EndsShape DEF Abort, tables, Shape, Live
<1>5. ASSUME NEW i \in Ids, DeleteEntry(i) PROVE Shape'
  BY <1>5 DEF DeleteEntry, Shape, Live
<1>6. ASSUME NEW t, NEW d, SetAway(t, d) PROVE Shape'
  BY <1>6 DEF SetAway, Shape, Live
<1>7. ASSUME NEW i, NEW d, Uncover(i, d) PROVE Shape'
  BY <1>7 DEF Uncover, Shape, Live
<1>8. CASE Edit
  <2>1. ASSUME NEW s \in Slots, NEW t \in Times, NEW days \in Weeks, Retime(s, t, days) PROVE Shape'
    BY <2>1, BoundsAssumption DEF Retime, Shape, Live
  <2>2. ASSUME NEW x, NEW b, Follow(x, b) PROVE Shape'
    BY <2>2 DEF Follow, Shape, Live
  <2>3. ASSUME NEW a \in Assignments, NEW t \in Teachers, Reassign(a, t) PROVE Shape'
    BY <2>3 DEF Reassign, Shape, Live
  <2>4. ASSUME NEW t \in Teachers, NEW n \in Loads, SetLoad(t, n) PROVE Shape'
    BY <2>4, BoundsAssumption DEF SetLoad, Shape, Live
  <2>5. ASSUME NEW a \in Assignments, NEW n \in Allotments, Allot(a, n) PROVE Shape'
    BY <2>5 DEF Allot, Shape, Live
  <2> QED
    BY <1>8, <2>1, <2>2, <2>3, <2>4, <2>5 DEF Edit
<1>9. CASE UNCHANGED vars
  BY <1>9 DEF vars, tables, Shape, Live
<1> QED
  BY <1>1, <1>2, <1>3, <1>4, <1>5, <1>6, <1>7, <1>8, <1>9 DEF Next
-----------------------------------------------------------------------------
\* What requests have fetched stays so, when the tables change only on record.
LEMMA FetchedKept ==
  ASSUME Shape, AsFetched, disturbed \subseteq disturbed',
         \A p \in Requests : InPlace(p)' => InPlace(p) /\ seen'[p] = seen[p],
         teaches' = teaches \/ "teachers" \in disturbed',
         allotted' = allotted \/ "loads" \in disturbed',
         follows' = follows \/ "schedules" \in disturbed',
         \A s \in Slots : time'[s] \in {time[s], None} \/ "times" \in disturbed',
         \A s \in Slots : runs[s] \subseteq runs'[s] \/ "days" \in disturbed'
  PROVE  AsFetched'
<1> SUFFICES ASSUME NEW p \in Requests, InPlace(p)'
             PROVE  /\ "teachers" \notin disturbed' => seen'[p].teacher = TeacherOf(seen[p].row)'
                    /\ "times" \notin disturbed' => time'[seen'[p].row.slot] \in {seen'[p].period, None}
                    /\ "loads" \notin disturbed' => seen'[p].allotted = allotted'[seen'[p].row.assignment]
                    /\ disturbed' \cap {"schedules", "days"} = {} => InGrid(seen[p].row)'
  BY DEF AsFetched
<1>1. InPlace(p) /\ seen'[p] = seen[p] /\ seen[p].row.slot \in Slots
  BY DEF Shape, InPlace, PlacingSeen, Row
<1>2. "teachers" \notin disturbed' => seen'[p].teacher = TeacherOf(seen[p].row)'
  BY <1>1 DEF AsFetched, TeacherOf
<1>3. "times" \notin disturbed' => time'[seen'[p].row.slot] \in {seen'[p].period, None}
  BY <1>1 DEF AsFetched
<1>4. "loads" \notin disturbed' => seen'[p].allotted = allotted'[seen'[p].row.assignment]
  BY <1>1 DEF AsFetched
<1>5. disturbed' \cap {"schedules", "days"} = {} => InGrid(seen[p].row)'
  BY <1>1 DEF AsFetched, InGrid
<1> QED
  BY <1>2, <1>3, <1>4, <1>5

\* An edit of the tables is on record when somebody works with them.
LEMMA EditsRecorded ==
  ASSUME Shape, Edit
  PROVE  /\ UNCHANGED <<entry, made, pc, seen, cover>> /\ disturbed \subseteq disturbed'
         /\ \/ ~Standing
            \/ /\ teaches' = teaches \/ "teachers" \in disturbed'
               /\ allotted' = allotted \/ "loads" \in disturbed'
               /\ load' = load \/ "loads" \in disturbed'
               /\ follows' = follows \/ "schedules" \in disturbed'
               /\ time' = time \/ "times" \in disturbed'
               /\ \A s \in Slots : runs[s] \subseteq runs'[s] \/ "days" \in disturbed'
         /\ \A s \in Slots : time[s] # None => time'[s] # None
<1> DEFINE R == /\ teaches' = teaches \/ "teachers" \in disturbed'
                /\ allotted' = allotted \/ "loads" \in disturbed'
                /\ load' = load \/ "loads" \in disturbed'
                /\ follows' = follows \/ "schedules" \in disturbed'
                /\ time' = time \/ "times" \in disturbed'
                /\ \A s \in Slots : runs[s] \subseteq runs'[s] \/ "days" \in disturbed'
           Q == /\ UNCHANGED <<entry, made, pc, seen, cover>> /\ disturbed \subseteq disturbed' /\ (~Standing \/ R)
                /\ \A s \in Slots : time[s] # None => time'[s] # None
<1>1. ASSUME NEW s \in Slots, NEW t \in Times, NEW days, Retime(s, t, days) PROVE Q
  <2>1. UNCHANGED <<entry, made, pc, seen, cover, teaches, allotted, load, follows>> /\ disturbed \subseteq disturbed'
    BY <1>1 DEF Retime, Disturb
  <2>2. time' = [time EXCEPT ![s] = t] /\ runs' = [runs EXCEPT ![s] = days]
    BY <1>1 DEF Retime
  <2>3. Standing => /\ t = time[s] \/ "times" \in disturbed'
                    /\ runs[s] \subseteq days \/ "days" \in disturbed'
    BY <1>1 DEF Retime, Disturb
  <2>4. Standing => time' = time \/ "times" \in disturbed'
    BY <2>2, <2>3 DEF Shape
  <2>5. Standing => \A r \in Slots : runs[r] \subseteq runs'[r] \/ "days" \in disturbed'
    BY <2>2, <2>3 DEF Shape
  <2>6. \A r \in Slots : time[r] # None => time'[r] # None
    BY <2>2, TimesAssumption, NoneAssumption DEF Shape
  <2> QED
    BY <2>1, <2>4, <2>5, <2>6
<1>2. ASSUME NEW x, NEW b, Follow(x, b) PROVE Q
  BY <1>2 DEF Follow, Disturb
<1>3. ASSUME NEW a, NEW t, Reassign(a, t) PROVE Q
  BY <1>3 DEF Reassign, Disturb
<1>4. ASSUME NEW a, NEW n, Allot(a, n) PROVE Q
  BY <1>4 DEF Allot, Disturb
<1>5. ASSUME NEW t, NEW n, SetLoad(t, n) PROVE Q
  BY <1>5 DEF SetLoad, Disturb
<1> HIDE DEF Q
<1>6. Q
  BY <1>1, <1>2, <1>3, <1>4, <1>5 DEF Edit
<1> QED
  BY <1>6 DEF Q

\* Everything but an edit leaves the tables alone; a period may be taken away.
LEMMA TablesKept ==
  ASSUME Shape, [Next]_vars, ~Edit
  PROVE  /\ UNCHANGED <<teaches, allotted, load, follows, runs>> /\ disturbed \subseteq disturbed'
         /\ \A s \in Slots : time'[s] \in {time[s], None}
<1> DEFINE R == /\ UNCHANGED <<teaches, allotted, load, follows, runs>> /\ disturbed \subseteq disturbed'
                /\ \A s \in Slots : time'[s] \in {time[s], None}
<1>1. ASSUME NEW p \in Requests, PlaceStep(p) PROVE R
  BY <1>1 DEF PlaceStep, PlaceFetch, PlaceCheck, PlaceWrite, tables
<1>2. ASSUME NEW p \in Requests, CoverStep(p) PROVE R
  BY <1>2 DEF CoverStep, ConfirmFetch, ConfirmCheck, ConfirmWrite, tables
<1>3. ASSUME NEW p \in Requests, ScheduleStep(p) PROVE R
  <2>1. ASSUME NEW s, RemoveCheck(p, s) PROVE R
    BY <2>1 DEF RemoveCheck, tables
  <2>2. ASSUME RemoveSlot(p) PROVE R
    BY <2>2 DEF RemoveSlot, Shape
  <2> QED
    BY <1>3, <2>1, <2>2 DEF ScheduleStep
<1>4. ASSUME NEW p \in Requests, Abort(p) PROVE R
  BY <1>4 DEF Abort, tables
<1>5. ASSUME NEW i, DeleteEntry(i) PROVE R
  BY <1>5 DEF DeleteEntry
<1>6. ASSUME NEW t, NEW d, SetAway(t, d) \/ Uncover(t, d) PROVE R
  BY <1>6 DEF SetAway, Uncover
<1>7. ASSUME UNCHANGED vars PROVE R
  BY <1>7 DEF vars, tables
<1> HIDE DEF R
<1>8. R
  <2>1. ASSUME Next PROVE R
    BY <1>1, <1>2, <1>3, <1>4, <1>5, <1>6, <2>1 DEF Next
  <2> QED
    BY <1>7, <2>1
<1> QED
  BY <1>8 DEF R

\* Which requests are at work on a lesson: those that were, and those that fetch.
LEMMA InPlaceMoves ==
  ASSUME Shape, [Next]_vars, NEW q \in Requests, InPlace(q)'
  PROVE  \/ InPlace(q) /\ seen'[q] = seen[q]
         \/ \E i \in Ids \cup {None}, row \in Row : PlaceFetch(q, i, row)
<1> DEFINE R == \/ InPlace(q) /\ seen'[q] = seen[q]
                \/ \E i \in Ids \cup {None}, row \in Row : PlaceFetch(q, i, row)
<1>1. ASSUME NEW p \in Requests, pc' = [pc EXCEPT ![p] = "idle"], seen' = [seen EXCEPT ![p] = None] PROVE R
  BY <1>1 DEF Shape, InPlace
<1>2. ASSUME UNCHANGED <<pc, seen>> PROVE R
  BY <1>2 DEF InPlace
<1>3. ASSUME NEW p \in Requests, NEW i \in Ids \cup {None}, NEW row \in Row, PlaceFetch(p, i, row) PROVE R
  BY <1>3 DEF PlaceFetch, Shape, InPlace
<1>4. ASSUME NEW p \in Requests, PlaceCheck(p) PROVE R
  BY <1>4 DEF PlaceCheck, Shape, InPlace
<1>5. ASSUME NEW p \in Requests, NEW i, NEW t, NEW d, ConfirmFetch(p, i, t, d) PROVE R
  BY <1>5 DEF ConfirmFetch, Shape, InPlace
<1>6. ASSUME NEW p \in Requests, ConfirmCheck(p) PROVE R
  BY <1>6 DEF ConfirmCheck, Shape, InPlace
<1>7. ASSUME NEW p \in Requests, NEW s, RemoveCheck(p, s) PROVE R
  BY <1>7 DEF RemoveCheck, Shape, InPlace
<1>8. ASSUME NEW p \in Requests, PlaceWrite(p) \/ ConfirmWrite(p) \/ RemoveSlot(p) \/ Abort(p) PROVE R
  BY <1>1, <1>8 DEF PlaceWrite, ConfirmWrite, RemoveSlot, Abort
<1>9. ASSUME NEW t, NEW d, SetAway(t, d) \/ Uncover(t, d) PROVE R
  BY <1>2, <1>9 DEF SetAway, Uncover
<1>14. ASSUME NEW i, DeleteEntry(i) PROVE R
  BY <1>2, <1>14 DEF DeleteEntry
<1>10. ASSUME Edit \/ UNCHANGED vars PROVE R
  BY <1>2, <1>10, EditsRecorded DEF vars
<1> HIDE DEF R
<1>11. ASSUME NEW p \in Requests, PlaceStep(p) PROVE R
  <2>1. PlaceCheck(p) \/ PlaceWrite(p) \/ \E i \in Ids \cup {None}, row \in Row : PlaceFetch(p, i, row)
    BY <1>11, WantedAssumption DEF PlaceStep, Live
  <2> QED
    BY <1>3, <1>4, <1>8, <2>1
<1>12. ASSUME NEW p \in Requests, CoverStep(p) \/ ScheduleStep(p) \/ Abort(p) PROVE R
  BY <1>5, <1>6, <1>7, <1>8, <1>12 DEF CoverStep, ScheduleStep
<1>13. R
  <2>1. ASSUME Next PROVE R
    BY <1>9, <1>10, <1>11, <1>12, <1>14, <2>1 DEF Next
  <2> QED
    BY <1>10, <2>1
<1> QED
  BY <1>13 DEF R

\* What requests have fetched stays so through every step.
LEMMA NextFetched ==
  ASSUME Shape, AsFetched, [Next]_vars
  PROVE  AsFetched'
<1>1. ASSUME NEW p \in Requests, NEW i \in Ids \cup {None}, NEW row \in Row, PlaceFetch(p, i, row)
      PROVE  AsFetched'
  <2>1. UNCHANGED <<time, runs, follows, teaches, allotted, disturbed>> /\ Fits(row)
    BY <1>1 DEF PlaceFetch, tables
  <2>2. seen'[p] = [entry |-> i, row |-> row, teacher |-> TeacherOf(row),
                    period |-> time[row.slot], allotted |-> allotted[row.assignment]]
    BY <1>1 DEF PlaceFetch, Shape
  <2>3. ASSUME NEW q \in Requests, q # p, InPlace(q)' PROVE InPlace(q) /\ seen'[q] = seen[q]
    BY <1>1, <2>3 DEF PlaceFetch, Shape, InPlace
  <2> SUFFICES ASSUME NEW q \in Requests, InPlace(q)'
        PROVE  /\ "teachers" \notin disturbed' => seen'[q].teacher = TeacherOf(seen[q].row)'
               /\ "times" \notin disturbed' => time'[seen'[q].row.slot] \in {seen'[q].period, None}
               /\ "loads" \notin disturbed' => seen'[q].allotted = allotted'[seen'[q].row.assignment]
               /\ disturbed' \cap {"schedules", "days"} = {} => InGrid(seen[q].row)'
    BY DEF AsFetched
  <2>5. CASE q = p
    BY <2>1, <2>2, <2>5 DEF TeacherOf, InGrid, Fits
  <2>6. CASE q # p
    <3>1. InPlace(q) /\ seen'[q] = seen[q]
      BY <2>3, <2>6
    <3>2. /\ "teachers" \notin disturbed => seen[q].teacher = TeacherOf(seen[q].row)
          /\ "times" \notin disturbed => time[seen[q].row.slot] \in {seen[q].period, None}
          /\ "loads" \notin disturbed => seen[q].allotted = allotted[seen[q].row.assignment]
          /\ disturbed \cap {"schedules", "days"} = {} => InGrid(seen[q].row)
      BY <3>1 DEF AsFetched
    <3> QED
      BY <2>1, <3>1, <3>2 DEF TeacherOf, InGrid
  <2> QED
    BY <2>5, <2>6
<1> DEFINE Same == \A q \in Requests : InPlace(q)' => InPlace(q) /\ seen'[q] = seen[q]
<1>2. CASE Same /\ ~Edit
  BY <1>2, TablesKept, FetchedKept
<1>3. CASE Edit
  <2>1. CASE ~Standing
    BY <1>3, <2>1, EditsRecorded DEF Standing, AsFetched, InPlace
  <2>2. CASE Standing
    BY <1>3, <2>2, EditsRecorded, FetchedKept DEF InPlace
  <2> QED
    BY <2>1, <2>2
<1>4. Same \/ \E p \in Requests, i \in Ids \cup {None}, row \in Row : PlaceFetch(p, i, row)
  BY InPlaceMoves
<1> QED
  BY <1>1, <1>2, <1>3, <1>4

-----------------------------------------------------------------------------
\* A step that starts no placement keeps the lock ...
LEMMA LockKept ==
  ASSUME LockHeld, \A p \in Requests : Placing(p)' => Placing(p) /\ seen'[p] = seen[p]
  PROVE  LockHeld'
  BY DEF LockHeld

\* ... and so the whole invariant, unless it edits what placements rely on.
LEMMA QuietStep ==
  ASSUME IInv, Shape', AsFetched', UNCHANGED <<teaches, allotted, load>>, disturbed \subseteq disturbed',
         \A p \in Requests : Placing(p)' => Placing(p) /\ seen'[p] = seen[p],
         \A i \in Live' : /\ i \in Live /\ entry'[i] = entry[i]
                          /\ time'[entry[i].slot] = time[entry[i].slot],
         \A s \in Slots : time'[s] = time[s] \/ time'[s] = None
  PROVE  IInv'
  BY LockKept, QuietForTimes, QuietForLoads DEF IInv

\* The checks of `place', with the teacher locked: what was fetched earlier is
\* what the tables hold now, or an edit is on record.
LEMMA PlaceCheckStep ==
  ASSUME IInv, Shape', AsFetched', NEW p \in Requests, PlaceCheck(p)
  PROVE  IInv'
<1> DEFINE i == seen[p].entry
           row == seen[p].row
           t == seen[p].teacher
<1>1. /\ Placing(p)' /\ ~Placing(p) /\ InPlace(p) /\ UNCHANGED seen
      /\ \A q \in Requests \ {p} : Placing(q)' = Placing(q)
      /\ UNCHANGED <<entry, time, teaches, allotted, load>>
      /\ Quiet' => Quiet
      /\ LoadQuiet' => LoadQuiet
  BY DEF IInv, Shape, PlaceCheck, Placing, InPlace, tables, Quiet, LoadQuiet
<1>2. /\ TeacherFree(p, t) /\ UnderLoad(seen[p])
      /\ ~Busy(OnDay(LessonsOf(t), row.day) \ {i}, seen[p].period)
  BY DEF PlaceCheck
<1>3. LockHeld'
  BY <1>1, <1>2 DEF IInv, LockHeld, TeacherFree, Placing
<1>4. /\ Quiet => t = TeacherOf(row) /\ time[row.slot] \in {seen[p].period, None}
      /\ LoadQuiet => t = TeacherOf(row) /\ seen[p].allotted = allotted[row.assignment]
  BY <1>1 DEF IInv, AsFetched, Quiet, LoadQuiet
<1>5. StillFree'
  <2> SUFFICES ASSUME Quiet', NEW q \in Requests, Placing(q)'
               PROVE  /\ seen'[q].teacher = TeacherOf(seen[q].row)'
                      /\ time'[seen'[q].row.slot] # None =>
                           \A j \in LessonsOf(seen[q].teacher)' \ {seen'[q].entry} :
                             ~SameTime(entry[j], seen[q].row)'
    BY DEF StillFree
  <2>1. /\ Quiet
        /\ TeacherOf(seen[q].row)' = TeacherOf(seen[q].row)
        /\ LessonsOf(seen[q].teacher)' = LessonsOf(seen[q].teacher)
        /\ \A j : SameTime(entry[j], seen[q].row)' <=> SameTime(entry[j], seen[q].row)
    BY <1>1 DEF TeacherOf, LessonsOf, Live, SameTime
  <2>2. CASE q = p
    <3>1. ASSUME time[row.slot] # None, NEW j \in LessonsOf(t) \ {i} PROVE ~SameTime(entry[j], row)
      BY <1>2, <1>4, <2>1, <3>1 DEF Busy, OnDay, SameTime
    <3> QED
      BY <1>1, <1>4, <2>1, <2>2, <3>1
  <2>3. CASE q # p
    BY <1>1, <2>1, <2>3 DEF IInv, FreeInv, StillFree
  <2> QED
    BY <2>2, <2>3
<1>6. StillUnderLoad'
  <2> SUFFICES ASSUME LoadQuiet', NEW q \in Requests, Placing(q)'
               PROVE  /\ seen'[q].teacher = TeacherOf(seen[q].row)'
                      /\ Cardinality(LessonsOf(seen[q].teacher)' \ {seen'[q].entry}) < load'[seen'[q].teacher]
                      /\ allotted'[seen'[q].row.assignment] > 0 =>
                           Cardinality(HeldFor(seen[q].row.assignment)' \ {seen'[q].entry})
                             < allotted'[seen'[q].row.assignment]
    BY DEF StillUnderLoad
  <2>1. /\ LoadQuiet
        /\ TeacherOf(seen[q].row)' = TeacherOf(seen[q].row)
        /\ LessonsOf(seen[q].teacher)' = LessonsOf(seen[q].teacher)
        /\ HeldFor(seen[q].row.assignment)' = HeldFor(seen[q].row.assignment)
    BY <1>1 DEF TeacherOf, LessonsOf, HeldFor, Live
  <2>2. CASE q = p
    BY <1>1, <1>2, <1>4, <2>1, <2>2 DEF UnderLoad
  <2>3. CASE q # p
    BY <1>1, <2>1, <2>3 DEF IInv, LoadInv, StillUnderLoad
  <2> QED
    BY <2>2, <2>3
<1>7. TeacherInOnePlace'
  BY <1>1 DEF IInv, FreeInv, TeacherInOnePlace, Quiet, Live, TeacherOf, SameTime
<1>8. LoadsRespected'
  BY <1>1 DEF IInv, LoadInv, LoadsRespected, LoadQuiet, Live, TeacherOf, LessonsOf, HeldFor
<1> QED
  BY <1>3, <1>5, <1>6, <1>7, <1>8 DEF IInv, FreeInv, LoadInv

\* The write: the lesson that is added or moved fits among those of its
\* teacher, and is none of a teacher somebody else has locked.
LEMMA PlaceWriteStep ==
  ASSUME IInv, AsFetched', NEW p \in Requests, PlaceWrite(p)
  PROVE  IInv'
<1> DEFINE i == IF seen[p].entry = None THEN made + 1 ELSE seen[p].entry
           row == seen[p].row
           t == seen[p].teacher
<1>1. Shape'
  BY PlaceWriteShape DEF IInv
<1>2. /\ Placing(p) /\ seen[p] \in PlacingSeen /\ row \in Row /\ t \in Teachers
      /\ row.assignment \in Assignments /\ row.slot \in Slots
  BY DEF IInv, Shape, PlaceWrite, Placing, PlacingSeen, Row
<1>3. i \in Ids
  <2>1. made \in Nat /\ seen[p].entry \in Ids \cup {None} /\ i <= MaxEntries
    BY <1>2, BoundsAssumption DEF IInv, Shape, PlaceWrite, PlacingSeen
  <2> QED
    BY <2>1, BoundsAssumption DEF Ids
<1>4. /\ entry' = [entry EXCEPT ![i] = row] /\ UNCHANGED <<time, teaches, allotted, load>>
      /\ pc' = [pc EXCEPT ![p] = "idle"] /\ seen' = [seen EXCEPT ![p] = None]
      /\ disturbed \subseteq disturbed' /\ time[row.slot] # None
  BY DEF PlaceWrite
<1>5. \A q \in Requests : Placing(q)' => q # p /\ Placing(q) /\ seen'[q] = seen[q]
  BY <1>4, EndsShape DEF IInv, Placing
<1>6. /\ \A j \in Live' : j # i => j \in Live /\ entry'[j] = entry[j]
      /\ entry'[i] = row
  BY <1>3, <1>4 DEF IInv, Shape, Live
<1>7. \A S \in SUBSET Live : S \ {i} \subseteq S \ {seen[p].entry}
  <2>1. CASE seen[p].entry = None
    <3>1. None \notin Ids
      BY NoneAssumption, BoundsAssumption DEF Ids
    <3> QED
      BY <2>1, <3>1 DEF Live
  <2>2. CASE seen[p].entry # None
    BY <2>2
  <2> QED
    BY <2>1, <2>2
<1>8. Quiet' => Quiet /\ t = TeacherOf(row)
  BY <1>2, <1>4 DEF Quiet, IInv, FreeInv, StillFree
<1>9. LoadQuiet' => LoadQuiet /\ t = TeacherOf(row)
  BY <1>2, <1>4 DEF LoadQuiet, IInv, LoadInv, StillUnderLoad
<1>10. LockHeld'
  BY <1>5, LockKept DEF IInv
<1>11. ASSUME NEW q \in Requests, Placing(q)', t = TeacherOf(row)
       PROVE  /\ LessonsOf(seen[q].teacher)' \subseteq LessonsOf(seen[q].teacher) \ {i}
              /\ seen[q] \in PlacingSeen /\ seen[q].teacher # t
  <2>1. Placing(q) /\ q # p /\ seen'[q] = seen[q] /\ seen[q] \in PlacingSeen
    BY <1>5, <1>11 DEF IInv, Shape, Placing
  <2>2. seen[q].teacher # t
    BY <1>2, <2>1 DEF IInv, LockHeld
  <2> QED
    BY <1>4, <1>6, <1>11, <2>1, <2>2 DEF LessonsOf, TeacherOf
<1>12. StillFree'
  <2> SUFFICES ASSUME Quiet', NEW q \in Requests, Placing(q)'
               PROVE  /\ seen'[q].teacher = TeacherOf(seen[q].row)'
                      /\ time'[seen'[q].row.slot] # None =>
                           \A j \in LessonsOf(seen[q].teacher)' \ {seen'[q].entry} :
                             ~SameTime(entry[j], seen[q].row)'
    BY DEF StillFree
  <2>1. seen'[q] = seen[q] /\ Placing(q) /\ Quiet
    BY <1>5, <1>8
  <2>2. LessonsOf(seen[q].teacher)' \subseteq LessonsOf(seen[q].teacher) \ {i}
    BY <1>8, <1>11
  <2>3. \A j \in LessonsOf(seen[q].teacher)' : entry'[j] = entry[j]
    BY <1>6, <2>2 DEF LessonsOf
  <2> QED
    BY <1>4, <2>1, <2>2, <2>3 DEF IInv, FreeInv, StillFree, TeacherOf, SameTime
<1>13. TeacherInOnePlace'
  <2> SUFFICES ASSUME Quiet', NEW j \in Live', NEW k \in Live', j # k,
                      TeacherOf(entry[j])' = TeacherOf(entry[k])'
               PROVE  ~SameTime(entry[j], entry[k])'
    BY DEF TeacherInOnePlace, Quiet
  <2>1. ASSUME NEW l \in Live', l # i, TeacherOf(entry[l])' = TeacherOf(row)
        PROVE  ~SameTime(entry[l], row)
    <3>1. l \in LessonsOf(t) /\ LessonsOf(t) \subseteq Live
      BY <1>4, <1>6, <1>8, <2>1 DEF LessonsOf, TeacherOf
    <3>2. l \in LessonsOf(t) \ {seen[p].entry}
      BY <1>7, <2>1, <3>1
    <3> QED
      BY <1>2, <1>4, <1>8, <3>2 DEF IInv, FreeInv, StillFree
  <2>2. CASE j = i
    BY <1>4, <1>6, <2>1, <2>2, SameTimeSymmetric DEF TeacherOf, SameTime
  <2>3. CASE k = i
    BY <1>4, <1>6, <2>1, <2>3 DEF TeacherOf, SameTime
  <2>4. CASE j # i /\ k # i
    <3>1. ~SameTime(entry[j], entry[k])
      BY <1>4, <1>6, <1>8, <2>4 DEF IInv, FreeInv, TeacherInOnePlace, Quiet, TeacherOf
    <3> QED
      BY <1>4, <1>6, <2>4, <3>1 DEF SameTime
  <2> QED
    BY <2>2, <2>3, <2>4
<1>14. ASSUME NEW S \in SUBSET Live, NEW T, NEW n \in Nat,
              T \subseteq (S \ {i}) \cup {i}, Cardinality(S \ {seen[p].entry}) < n
       PROVE  Cardinality(T) <= n
  <2>1. /\ IsFiniteSet(S \ {i}) /\ Cardinality(S \ {i}) \in Nat
        /\ Cardinality(S \ {i}) <= Cardinality(S \ {seen[p].entry})
        /\ Cardinality(S \ {seen[p].entry}) \in Nat
    BY <1>7, NotMore, LessonsFinite
  <2>2. /\ IsFiniteSet((S \ {i}) \cup {i})
        /\ Cardinality((S \ {i}) \cup {i}) = Cardinality(S \ {i}) + 1
    BY <2>1, FS_AddElement
  <2>3. Cardinality(T) <= Cardinality((S \ {i}) \cup {i}) /\ Cardinality(T) \in Nat
    BY <1>14, <2>2, FS_Subset, FS_CardinalityType
  <2> QED
    BY <1>14, <2>1, <2>2, <2>3
<1>15. LoadsRespected'
  <2> SUFFICES ASSUME LoadQuiet'
               PROVE  /\ \A u \in Teachers : Cardinality(LessonsOf(u)') <= load'[u]
                      /\ \A a \in Assignments : allotted'[a] > 0 => Cardinality(HeldFor(a)') <= allotted'[a]
    BY DEF LoadsRespected, LoadQuiet
  <2> DEFINE b == row.assignment
  <2>1. /\ Cardinality(LessonsOf(t) \ {seen[p].entry}) < load[t]
        /\ allotted[b] > 0 => Cardinality(HeldFor(b) \ {seen[p].entry}) < allotted[b]
    BY <1>2, <1>9 DEF IInv, LoadInv, StillUnderLoad
  <2>2. ASSUME NEW u \in Teachers PROVE Cardinality(LessonsOf(u)') <= load'[u]
    <3>1. /\ LessonsOf(u) \in SUBSET Live /\ load'[u] = load[u] /\ load[u] \in Nat
          /\ LessonsOf(u)' \subseteq (LessonsOf(u) \ {i}) \cup (IF u = t THEN {i} ELSE {})
      BY <1>4, <1>6, <1>9 DEF LessonsOf, TeacherOf, IInv, Shape
    <3>2. CASE u = t
      BY <1>14, <2>1, <3>1, <3>2
    <3>3. CASE u # t
      <4>1. Cardinality(LessonsOf(u)) <= load[u]
        BY <1>9 DEF IInv, LoadInv, LoadsRespected, LoadQuiet
      <4> QED
        BY <3>1, <3>3, <4>1, NotMore
    <3> QED
      BY <3>2, <3>3
  <2>3. ASSUME NEW a \in Assignments, allotted'[a] > 0 PROVE Cardinality(HeldFor(a)') <= allotted'[a]
    <3>1. /\ HeldFor(a) \in SUBSET Live /\ allotted[a] \in Nat /\ allotted'[a] = allotted[a]
          /\ HeldFor(a)' \subseteq (HeldFor(a) \ {i}) \cup (IF a = b THEN {i} ELSE {})
      BY <1>4, <1>6, BoundsAssumption DEF HeldFor, IInv, Shape
    <3>2. CASE a = b
      BY <1>14, <2>1, <2>3, <3>1, <3>2
    <3>3. CASE a # b
      <4>1. Cardinality(HeldFor(a)) <= allotted[a]
        BY <1>9, <2>3, <3>1 DEF IInv, LoadInv, LoadsRespected, LoadQuiet
      <4> QED
        BY <3>1, <3>3, <4>1, NotMore
    <3> QED
      BY <3>2, <3>3
  <2> QED
    BY <2>2, <2>3
<1>16. StillUnderLoad'
  <2> SUFFICES ASSUME LoadQuiet', NEW q \in Requests, Placing(q)'
               PROVE  /\ seen'[q].teacher = TeacherOf(seen[q].row)'
                      /\ Cardinality(LessonsOf(seen[q].teacher)' \ {seen'[q].entry}) < load'[seen'[q].teacher]
                      /\ allotted'[seen'[q].row.assignment] > 0 =>
                           Cardinality(HeldFor(seen[q].row.assignment)' \ {seen'[q].entry})
                             < allotted'[seen'[q].row.assignment]
    BY DEF StillUnderLoad
  <2> DEFINE u == seen[q].teacher
             e == seen[q].entry
             a == seen[q].row.assignment
  <2>1. /\ seen'[q] = seen[q] /\ Placing(q) /\ u \in Teachers /\ a \in Assignments
        /\ LessonsOf(seen[q].teacher)' \subseteq LessonsOf(u) \ {i} /\ u # t
    BY <1>5, <1>9, <1>11 DEF PlacingSeen, Row
  <2>2. /\ u = TeacherOf(seen[q].row)
        /\ Cardinality(LessonsOf(u) \ {e}) < load[u]
        /\ allotted[a] > 0 => Cardinality(HeldFor(a) \ {e}) < allotted[a]
    BY <1>9, <2>1 DEF IInv, LoadInv, StillUnderLoad
  <2>3. a # row.assignment
    BY <1>9, <2>1, <2>2 DEF TeacherOf
  <2>4. HeldFor(seen[q].row.assignment)' \subseteq HeldFor(a)
    BY <1>6, <2>1, <2>3 DEF HeldFor
  <2>5. load[u] \in Nat /\ allotted[a] \in Nat /\ LessonsOf(u) \subseteq Live /\ HeldFor(a) \subseteq Live
    BY <2>1, BoundsAssumption DEF IInv, Shape, LessonsOf, HeldFor
  <2>6. /\ Cardinality(LessonsOf(seen[q].teacher)' \ {e}) <= Cardinality(LessonsOf(u) \ {e})
        /\ Cardinality(LessonsOf(seen[q].teacher)' \ {e}) \in Nat /\ Cardinality(LessonsOf(u) \ {e}) \in Nat
    BY <2>1, <2>5, NotMore
  <2>7. /\ Cardinality(HeldFor(seen[q].row.assignment)' \ {e}) <= Cardinality(HeldFor(a) \ {e})
        /\ Cardinality(HeldFor(seen[q].row.assignment)' \ {e}) \in Nat /\ Cardinality(HeldFor(a) \ {e}) \in Nat
    BY <2>4, <2>5, NotMore
  <2>8. /\ seen'[q].teacher = TeacherOf(seen[q].row)' /\ load'[seen'[q].teacher] = load[u]
        /\ allotted'[seen'[q].row.assignment] = allotted[a]
    BY <1>4, <2>1, <2>2 DEF TeacherOf
  <2> QED
    BY <2>1, <2>2, <2>5, <2>6, <2>7, <2>8
<1> QED
  BY <1>1, <1>10, <1>12, <1>13, <1>15, <1>16 DEF IInv, FreeInv, LoadInv

\* An edit of the tables: nothing stands and no placement relies on them, or the
\* history says so, or what a teacher's lessons depend on stays as it was.
LEMMA EditStep ==
  ASSUME IInv, Edit, Shape', AsFetched'
  PROVE  IInv'
<1>1. UNCHANGED <<entry, made, pc, seen>> /\ disturbed \subseteq disturbed'
  BY EditsRecorded DEF IInv
<1>2. /\ \A p \in Requests : Placing(p)' => Placing(p) /\ seen'[p] = seen[p]
      /\ \A i \in Live' : i \in Live /\ entry'[i] = entry[i]
  BY <1>1 DEF Placing, Live
<1>3. LockHeld'
  BY <1>1, <1>2, LockKept DEF IInv
<1>4. CASE ~Standing
  <2>1. Live' = {} /\ \A p \in Requests : ~Placing(p)'
    BY <1>1, <1>4 DEF Standing, Live, Placing
  <2>2. FreeInv'
    BY <2>1 DEF FreeInv, StillFree, TeacherInOnePlace
  <2>3. LoadInv'
    BY <2>1, EmptyWeeks DEF LoadInv, StillUnderLoad
  <2> QED
    BY <1>3, <2>2, <2>3 DEF IInv
<1>5. CASE Standing
  <2>1. /\ teaches' = teaches \/ "teachers" \in disturbed'
        /\ allotted' = allotted \/ "loads" \in disturbed'
        /\ load' = load \/ "loads" \in disturbed'
        /\ time' = time \/ "times" \in disturbed'
    BY <1>5, EditsRecorded DEF IInv
  <2>2. FreeInv'
    <3>1. CASE time' = time /\ teaches' = teaches
      BY <1>1, <1>2, <3>1, QuietForTimes DEF IInv
    <3>2. CASE ~Quiet'
      BY <3>2 DEF FreeInv, StillFree, TeacherInOnePlace, Quiet
    <3> QED
      BY <2>1, <3>1, <3>2 DEF Quiet
  <2>3. LoadInv'
    <3>1. CASE UNCHANGED <<teaches, allotted, load>>
      BY <1>1, <1>2, <3>1, QuietForLoads DEF IInv
    <3>2. CASE ~LoadQuiet'
      BY <3>2 DEF LoadInv, StillUnderLoad, LoadsRespected, LoadQuiet
    <3> QED
      BY <2>1, <3>1, <3>2 DEF LoadQuiet
  <2> QED
    BY <1>3, <2>2, <2>3 DEF IInv
<1> QED
  BY <1>4, <1>5

\* Every step keeps the invariant.
LEMMA NextStep == IInv /\ [Next]_vars => IInv'
<1> SUFFICES ASSUME IInv, [Next]_vars PROVE IInv'
  OBVIOUS
<1>0. Shape' /\ AsFetched'
  BY NextShape, NextFetched DEF IInv
<1> DEFINE Placings == \A p \in Requests : Placing(p)' => Placing(p) /\ seen'[p] = seen[p]
           Lessons == \A i \in Live' : /\ i \in Live /\ entry'[i] = entry[i]
                                       /\ time'[entry[i].slot] = time[entry[i].slot]
           Same == UNCHANGED <<teaches, allotted, load>> /\ disturbed \subseteq disturbed'
<1>1. ASSUME NEW p \in Requests, PlaceStep(p) PROVE IInv'
  <2>1. ASSUME NEW i, NEW row, PlaceFetch(p, i, row) PROVE IInv'
    <3>1. Same /\ UNCHANGED <<entry, time>>
      BY <2>1 DEF PlaceFetch, tables
    <3>2. Placings
      BY <2>1 DEF PlaceFetch, IInv, Shape, Placing
    <3>3. Lessons
      BY <3>1 DEF Live
    <3> QED
      BY <1>0, <3>1, <3>2, <3>3, QuietStep
  <2> QED
    BY <1>0, <1>1, <2>1, PlaceCheckStep, PlaceWriteStep DEF PlaceStep
<1>2. ASSUME NEW p \in Requests, CoverStep(p) PROVE IInv'
  <2>1. Same /\ UNCHANGED <<entry, time>>
    BY <1>2 DEF CoverStep, ConfirmFetch, ConfirmCheck, ConfirmWrite, tables
  <2>2. Placings
    <3>1. ASSUME NEW i, NEW t, NEW d, ConfirmFetch(p, i, t, d) PROVE Placings
      BY <3>1 DEF ConfirmFetch, IInv, Shape, Placing
    <3>2. ASSUME ConfirmCheck(p) PROVE Placings
      BY <3>2 DEF ConfirmCheck, IInv, Shape, Placing
    <3>3. ASSUME ConfirmWrite(p) PROVE Placings
      BY <3>3, EndsShape DEF ConfirmWrite, IInv, Shape, Placing
    <3> QED
      BY <1>2, <3>1, <3>2, <3>3 DEF CoverStep
  <2>3. Lessons
    BY <2>1 DEF Live
  <2> QED
    BY <1>0, <2>1, <2>2, <2>3, QuietStep
<1>3. ASSUME NEW p \in Requests, ScheduleStep(p) PROVE IInv'
  <2>1. ASSUME NEW s \in Slots \cap Edited, RemoveCheck(p, s) PROVE IInv'
    <3>1. Same /\ UNCHANGED <<entry, time>>
      BY <2>1 DEF RemoveCheck, tables
    <3>2. Placings
      BY <2>1 DEF RemoveCheck, IInv, Shape, Placing
    <3>3. Lessons
      BY <3>1 DEF Live
    <3> QED
      BY <1>0, <3>1, <3>2, <3>3, QuietStep
  <2>2. CASE RemoveSlot(p)
    <3> DEFINE gone == {i \in Live : entry[i].slot = seen[p].slot}
    <3>1. Same
      BY <2>2 DEF RemoveSlot
    <3>2. Placings
      BY <2>2, EndsShape DEF RemoveSlot, IInv, Placing
    <3>3. /\ entry' = [i \in Ids |-> IF i \in gone THEN None ELSE entry[i]]
          /\ time' = [time EXCEPT ![seen[p].slot] = None]
      BY <2>2 DEF RemoveSlot
    <3>4. \A s \in Slots : time'[s] = time[s] \/ time'[s] = None
      BY <3>3 DEF IInv, Shape
    <3>5. ASSUME NEW i \in Live'
          PROVE  /\ i \in Live /\ entry'[i] = entry[i]
                 /\ time'[entry[i].slot] = time[entry[i].slot]
      <4>1. i \in Live /\ entry'[i] = entry[i] /\ i \notin gone
        BY <3>3 DEF Live
      <4>2. entry[i].slot # seen[p].slot /\ entry[i] \in Row /\ entry[i].slot \in Slots
        BY <4>1 DEF IInv, Shape, Live, Row
      <4> QED
        BY <3>3, <4>1, <4>2 DEF IInv, Shape
    <3> QED
      BY <1>0, <3>1, <3>2, <3>4, <3>5, QuietStep
  <2> QED
    BY <1>3, <2>1, <2>2 DEF ScheduleStep
<1>4. ASSUME NEW p \in Requests, Abort(p) PROVE IInv'
  <2>1. Same /\ UNCHANGED <<entry, time>>
    BY <1>4 DEF Abort, tables
  <2>2. Placings
    BY <1>4, EndsShape DEF Abort, IInv, Placing
  <2>3. Lessons
    BY <2>1 DEF Live
  <2> QED
    BY <1>0, <2>1, <2>2, <2>3, QuietStep
<1>5. ASSUME NEW i \in Ids, DeleteEntry(i) PROVE IInv'
  <2>1. Same /\ UNCHANGED <<time, pc, seen>>
    BY <1>5 DEF DeleteEntry
  <2>2. Placings
    BY <2>1 DEF Placing
  <2>3. Lessons
    BY <1>5, <2>1 DEF DeleteEntry, IInv, Shape, Live
  <2> QED
    BY <1>0, <2>1, <2>2, <2>3, QuietStep
<1>6. ASSUME NEW t, NEW d, SetAway(t, d) \/ Uncover(t, d) PROVE IInv'
  <2>1. Same /\ UNCHANGED <<entry, time, pc, seen>>
    BY <1>6 DEF SetAway, Uncover
  <2>2. Placings /\ Lessons
    BY <2>1 DEF Placing, Live
  <2> QED
    BY <1>0, <2>1, <2>2, QuietStep
<1>7. CASE Edit
  BY <1>0, <1>7, EditStep
<1>8. CASE UNCHANGED vars
  <2>1. Same /\ UNCHANGED <<entry, time, pc, seen>>
    BY <1>8 DEF vars, tables
  <2>2. Placings /\ Lessons
    BY <2>1 DEF Placing, Live
  <2> QED
    BY <1>0, <2>1, <2>2, QuietStep
<1> QED
  BY <1>1, <1>2, <1>3, <1>4, <1>5, <1>6, <1>7, <1>8 DEF Next

\* An empty timetable respects teachers and weeks.
LEMMA InitInv == Init => IInv
<1> SUFFICES ASSUME Init PROVE IInv
  OBVIOUS
<1>1. Live = {} /\ \A p \in Requests : ~Placing(p)
  BY DEF Init, Live, Placing
<1>2. Shape /\ AsFetched
  BY InitShape DEF Init, AsFetched, InPlace
<1>3. LockHeld /\ FreeInv
  BY <1>1 DEF LockHeld, FreeInv, StillFree, TeacherInOnePlace
<1>4. LoadInv
  BY <1>1, <1>2, EmptyTable DEF LoadInv, StillUnderLoad
<1> QED
  BY <1>2, <1>3, <1>4 DEF IInv

-----------------------------------------------------------------------------
\* "lock the teacher's row so two offices can't double-book at once": however
\* many requests place and move lessons, no teacher has two lessons at one
\* time, while periods and allocations are not edited under the lessons.
THEOREM TeachersNotDoubleBooked == Spec => []TeacherInOnePlace
<1>1. IInv => TeacherInOnePlace
  BY DEF IInv, FreeInv
<1> QED
  BY InitInv, NextStep, <1>1, PTL DEF Spec

\* ... and no teacher has more lessons than the limit, no subject more than
\* its periods a week, while allocations and limits are not edited under them.
THEOREM WeeksWithinLimits == Spec => []LoadsRespected
<1>1. IInv => LoadsRespected
  BY DEF IInv, LoadInv
<1> QED
  BY InitInv, NextStep, <1>1, PTL DEF Spec

-----------------------------------------------------------------------------
(***************************************************************************)
(* Sections.  The unique index keeps two lessons of a section out of one   *)
(* period; that different periods do not overlap is up to the schedule.    *)
(***************************************************************************)
InOnePeriod(r, s) == r.section = s.section /\ r.day = s.day /\ r.slot = s.slot

Once == \A i, j \in Live : i # j => ~InOnePeriod(entry[i], entry[j])
Timed == \A i \in Live : time[entry[i].slot] # None
OnGrid == disturbed \cap {"schedules", "days"} = {} => \A i \in Live : InGrid(entry[i])
SectionInv == Once /\ Timed /\ OnGrid

(***************************************************************************)
(* Rooms.  One office that places lessons finds the room as it left it.    *)
(***************************************************************************)
RoomQuiet == disturbed \cap {"times", "parallel"} = {}
OnePlacing == "parallel" \notin disturbed => \A p, q \in Requests : Placing(p) /\ Placing(q) => p = q
SameRoom(r, s) == r.room # None /\ r.room = s.room
StillRoomy ==
  RoomQuiet => \A p \in Requests : Placing(p) /\ time[seen[p].row.slot] # None =>
      \A j \in Live \ {seen[p].entry} :
        SameRoom(seen[p].row, entry[j]) => ~SameTime(entry[j], seen[p].row)
RoomInv == OnePlacing /\ StillRoomy /\ RoomInOnePlace

(***************************************************************************)
(* Substitutes.  A request that confirms one alone finds it as free as it  *)
(* was, unless a covered lesson is moved meanwhile.                        *)
(***************************************************************************)
CoverQuiet == disturbed \cap {"times", "moved", "covers"} = {}
Confirming(p) == pc[p] = "covering"
Asking(p) == pc[p] \in {"asked", "covering"}
CoverShape ==
  /\ cover \in [Ids -> [Dates -> CoverRow \cup {None}]]
  /\ \A i \in Ids : entry[i] = None => cover[i] = NoCover
  /\ \A p \in Requests : Asking(p) => seen[p] \in CoveringSeen
OneConfirming ==
  "covers" \notin disturbed => \A p, q \in Requests : Confirming(p) /\ Confirming(q) => p = q
AsAsked ==
  CoverQuiet => \A p \in Requests : Asking(p) /\ entry[seen[p].entry] # None =>
    /\ seen[p].day = entry[seen[p].entry].day
    /\ seen[p].period = time[entry[seen[p].entry].slot]
StillCoverable ==
  CoverQuiet => \A p \in Requests : Confirming(p) /\ entry[seen[p].entry] # None =>
    \A j \in Covering(seen[p].row.substitute, seen[p].date) : ~SameTime(entry[j], entry[seen[p].entry])
CoverInv == CoverShape /\ OneConfirming /\ AsAsked /\ StillCoverable /\ CoverNotTwice

-----------------------------------------------------------------------------
\* A step that places nothing and takes no weekday from a period nor a section
\* from its schedule; it may take lessons away, and remove empty periods.
LEMMA QuietForSections ==
  ASSUME Shape, SectionInv, disturbed \subseteq disturbed',
         follows' = follows \/ "schedules" \in disturbed',
         \A s \in Slots : runs[s] \subseteq runs'[s] \/ "days" \in disturbed',
         \A i \in Live' : /\ i \in Live /\ entry'[i] = entry[i]
                          /\ time'[entry[i].slot] # None
  PROVE  SectionInv'
<1>1. Once' /\ Timed'
  BY DEF SectionInv, Once, Timed, InOnePeriod
<1>2. OnGrid'
  <2> SUFFICES ASSUME disturbed' \cap {"schedules", "days"} = {}, NEW i \in Live' PROVE InGrid(entry[i])'
    BY DEF OnGrid
  <2>1. InGrid(entry[i]) /\ i \in Live /\ entry'[i] = entry[i] /\ follows' = follows
    BY DEF SectionInv, OnGrid
  <2>2. entry[i].slot \in Slots
    BY <2>1 DEF Shape, Live, Row
  <2>3. runs[entry[i].slot] \subseteq runs'[entry[i].slot]
    BY <2>2
  <2>4. QED
    BY <2>1, <2>3 DEF InGrid
<1>3. QED
  BY <1>1, <1>2 DEF SectionInv

\* What the write of a lesson does to the lessons, and who still places one.
LEMMA WriteMoves ==
  ASSUME Shape, NEW p \in Requests, PlaceWrite(p)
  PROVE  \E i \in Ids :
           /\ i = IF seen[p].entry = None THEN made + 1 ELSE seen[p].entry
           /\ Placing(p) /\ seen[p] \in PlacingSeen
           /\ entry' = [entry EXCEPT ![i] = seen[p].row] /\ entry'[i] = seen[p].row
           /\ \A j \in Ids \ {i} : entry'[j] = entry[j]
           /\ i \in Live' /\ \A j \in Live' \ {i} : j \in Live
           /\ \A j \in Live : j \in Live'
           /\ IndexFree(i, seen[p].row)
           /\ disturbed' = IF CoversMove(i, seen[p].row) THEN disturbed \cup {"moved"} ELSE disturbed
           /\ \A q \in Requests : Placing(q)' => q # p /\ Placing(q) /\ seen'[q] = seen[q]
<1> DEFINE i == IF seen[p].entry = None THEN made + 1 ELSE seen[p].entry
<1>1. Placing(p) /\ seen[p] \in PlacingSeen
  BY DEF Shape, PlaceWrite, Placing
<1>2. i \in Ids
  <2>1. made \in Nat /\ seen[p].entry \in Ids \cup {None} /\ i <= MaxEntries
    BY <1>1, BoundsAssumption DEF Shape, PlaceWrite, PlacingSeen
  <2>2. QED
    BY <2>1, BoundsAssumption DEF Ids
<1>3. /\ entry' = [entry EXCEPT ![i] = seen[p].row]
      /\ IndexFree(i, seen[p].row)
      /\ disturbed' = IF CoversMove(i, seen[p].row) THEN disturbed \cup {"moved"} ELSE disturbed
      /\ pc' = [pc EXCEPT ![p] = "idle"] /\ seen' = [seen EXCEPT ![p] = None]
  BY DEF PlaceWrite
<1>4. \A q \in Requests : Placing(q)' => q # p /\ Placing(q) /\ seen'[q] = seen[q]
  BY <1>3, EndsShape DEF Placing
<1>5. entry'[i] = seen[p].row /\ \A j \in Ids \ {i} : entry'[j] = entry[j]
  BY <1>2, <1>3 DEF Shape
<1>6. seen[p].row # None
  BY <1>1, NoneAssumption DEF PlacingSeen
<1>7. i \in Live' /\ (\A j \in Live' \ {i} : j \in Live) /\ \A j \in Live : j \in Live'
  BY <1>2, <1>5, <1>6 DEF Live
<1>8. QED
  BY <1>1, <1>2, <1>3, <1>4, <1>5, <1>7

Checks == \E p \in Requests : PlaceCheck(p)
Writes == \E p \in Requests : PlaceWrite(p)

\* Any other step places nothing: it may take lessons away, and remove periods
\* in which none is left.
LEMMA OtherSteps ==
  ASSUME Shape, [Next]_vars, ~Checks, ~Writes, ~Edit
  PROVE  /\ \A p \in Requests : Placing(p)' => Placing(p) /\ seen'[p] = seen[p]
         /\ \A i \in Live' : /\ i \in Live /\ entry'[i] = entry[i]
                             /\ time'[entry[i].slot] = time[entry[i].slot]
<1> DEFINE P == /\ \A p \in Requests : Placing(p)' => Placing(p) /\ seen'[p] = seen[p]
                /\ \A i \in Live' : /\ i \in Live /\ entry'[i] = entry[i]
                                    /\ time'[entry[i].slot] = time[entry[i].slot]
<1>1. ASSUME UNCHANGED <<entry, time>>,
             \A p \in Requests : Placing(p)' => Placing(p) /\ seen'[p] = seen[p]
      PROVE  P
  BY <1>1 DEF Live
<1>2. ASSUME NEW p \in Requests, CoverStep(p) PROVE P
  <2>1. UNCHANGED <<entry, time>>
    BY <1>2 DEF CoverStep, ConfirmFetch, ConfirmCheck, ConfirmWrite, tables
  <2>2. ASSUME NEW i, NEW t, NEW d, ConfirmFetch(p, i, t, d)
        PROVE  \A q \in Requests : Placing(q)' => Placing(q) /\ seen'[q] = seen[q]
    BY <2>2 DEF ConfirmFetch, Shape, Placing
  <2>3. ConfirmCheck(p) => \A q \in Requests : Placing(q)' => Placing(q) /\ seen'[q] = seen[q]
    BY DEF ConfirmCheck, Shape, Placing
  <2>4. ConfirmWrite(p) => \A q \in Requests : Placing(q)' => Placing(q) /\ seen'[q] = seen[q]
    BY EndsShape DEF ConfirmWrite, Shape, Placing
  <2>5. QED
    BY <1>1, <1>2, <2>1, <2>2, <2>3, <2>4 DEF CoverStep
<1>3. ASSUME NEW p \in Requests, NEW s \in Slots, RemoveCheck(p, s) PROVE P
  BY <1>1, <1>3 DEF RemoveCheck, tables, Shape, Placing
<1>4. ASSUME NEW p \in Requests, RemoveSlot(p) PROVE P
  <2> DEFINE gone == {i \in Live : entry[i].slot = seen[p].slot}
  <2>1. \A q \in Requests : Placing(q)' => Placing(q) /\ seen'[q] = seen[q]
    BY <1>4, EndsShape DEF RemoveSlot, Shape, Placing
  <2>2. /\ entry' = [i \in Ids |-> IF i \in gone THEN None ELSE entry[i]]
        /\ time' = [time EXCEPT ![seen[p].slot] = None]
    BY <1>4 DEF RemoveSlot
  <2>3. ASSUME NEW i \in Live'
        PROVE  /\ i \in Live /\ entry'[i] = entry[i]
               /\ time'[entry[i].slot] = time[entry[i].slot]
    <3>1. i \in Live /\ entry'[i] = entry[i] /\ i \notin gone
      BY <2>2 DEF Live
    <3>2. entry[i].slot # seen[p].slot /\ entry[i] \in Row /\ entry[i].slot \in Slots
      BY <3>1 DEF Shape, Live, Row
    <3>3. QED
      BY <2>2, <3>1, <3>2 DEF Shape
  <2>4. QED
    BY <2>1, <2>3
<1>5. ASSUME NEW p \in Requests, Abort(p) PROVE P
  <2>1. \A q \in Requests : Placing(q)' => Placing(q) /\ seen'[q] = seen[q]
    BY <1>5, EndsShape DEF Abort, Shape, Placing
  <2>2. UNCHANGED <<entry, time>>
    BY <1>5 DEF Abort, tables
  <2>3. QED
    BY <1>1, <2>1, <2>2
<1>6. ASSUME NEW i \in Ids, DeleteEntry(i) PROVE P
  <2>1. entry' = [entry EXCEPT ![i] = None] /\ UNCHANGED <<time, pc, seen>>
    BY <1>6 DEF DeleteEntry
  <2>2. \A j \in Live' : j \in Live /\ entry'[j] = entry[j]
    BY <2>1 DEF Live, Shape
  <2>3. QED
    BY <2>1, <2>2 DEF Placing
<1>7. ASSUME NEW t, NEW d, SetAway(t, d) \/ Uncover(t, d) PROVE P
  BY <1>1, <1>7 DEF SetAway, Uncover, Placing
<1>8. ASSUME NEW p \in Requests, NEW i, NEW row, PlaceFetch(p, i, row) PROVE P
  BY <1>1, <1>8 DEF PlaceFetch, tables, Shape, Placing
<1>9. ASSUME UNCHANGED vars PROVE P
  BY <1>1, <1>9 DEF vars, tables, Placing
<1> HIDE DEF P
<1>10. ASSUME NEW p \in Requests, PlaceStep(p) PROVE P
  BY <1>8, <1>10 DEF PlaceStep, Checks, Writes
<1>11. ASSUME NEW p \in Requests, ScheduleStep(p) PROVE P
  BY <1>3, <1>4, <1>11 DEF ScheduleStep
<1>12. P
  <2>1. ASSUME Next PROVE P
    BY <1>2, <1>5, <1>6, <1>7, <1>10, <1>11, <2>1 DEF Next
  <2>2. QED
    BY <1>9, <2>1
<1>13. QED
  BY <1>12 DEF P

\* A write keeps the lessons of a section apart.
LEMMA WriteSections ==
  ASSUME Shape, AsFetched, SectionInv, NEW p \in Requests, PlaceWrite(p)
  PROVE  SectionInv'
<1>1. PICK i \in Ids :
        /\ Placing(p) /\ entry'[i] = seen[p].row
        /\ \A j \in Ids \ {i} : entry'[j] = entry[j]
        /\ \A j \in Live' \ {i} : j \in Live
        /\ IndexFree(i, seen[p].row)
        /\ disturbed \subseteq disturbed'
        /\ \A q \in Requests : Placing(q)' => q # p /\ Placing(q) /\ seen'[q] = seen[q]
  BY WriteMoves
<1>2. UNCHANGED <<time, follows, runs>> /\ time[seen[p].row.slot] # None
  BY DEF PlaceWrite
<1>3. \A j \in Live' : j \in Ids /\ (j = i \/ (j \in Live /\ entry'[j] = entry[j]))
  BY <1>1 DEF Live
<1>4. Once'
  <2>1. \A j \in Live \ {i} : ~InOnePeriod(entry[j], seen[p].row)
    BY <1>1 DEF IndexFree, SectionFree, InOnePeriod
  <2>2. ASSUME NEW j \in Live', NEW k \in Live', j # k PROVE ~InOnePeriod(entry'[j], entry'[k])
    <3>1. CASE j # i /\ k # i
      BY <1>3, <2>2, <3>1 DEF SectionInv, Once
    <3>2. CASE j = i
      BY <1>1, <1>3, <2>1, <2>2, <3>2 DEF InOnePeriod
    <3>3. CASE k = i
      BY <1>1, <1>3, <2>1, <2>2, <3>3
    <3>4. QED
      BY <3>1, <3>2, <3>3
  <2>3. QED
    BY <2>2 DEF Once, InOnePeriod
<1>5. Timed'
  BY <1>1, <1>2, <1>3 DEF SectionInv, Timed
<1>6. OnGrid'
  <2> SUFFICES ASSUME disturbed' \cap {"schedules", "days"} = {}, NEW j \in Live' PROVE InGrid(entry[j])'
    BY DEF OnGrid
  <2>1. disturbed \cap {"schedules", "days"} = {}
    BY <1>1
  <2>2. InGrid(entry'[j])
    BY <1>1, <1>3, <2>1 DEF SectionInv, OnGrid, AsFetched, InPlace, Placing
  <2>3. QED
    BY <1>2, <2>2 DEF InGrid
<1>7. QED
  BY <1>4, <1>5, <1>6 DEF SectionInv

\* Every step keeps the lessons of a section apart ...
LEMMA NextSections ==
  ASSUME Shape, AsFetched, SectionInv, [Next]_vars
  PROVE  SectionInv'
<1>1. \A i \in Live : entry[i].slot \in Slots
  BY DEF Shape, Live, Row
<1>2. CASE Checks
  BY <1>2, QuietForSections DEF Checks, PlaceCheck, tables, Live, SectionInv, Timed
<1>3. CASE Writes
  BY <1>3, WriteSections DEF Writes
<1>4. CASE Edit
  <2>1. /\ UNCHANGED entry /\ disturbed \subseteq disturbed'
        /\ \A s \in Slots : time[s] # None => time'[s] # None
        /\ \/ ~Standing
           \/ /\ follows' = follows \/ "schedules" \in disturbed'
              /\ \A s \in Slots : runs[s] \subseteq runs'[s] \/ "days" \in disturbed'
    BY <1>4, EditsRecorded
  <2>2. \A i \in Live' : i \in Live /\ entry'[i] = entry[i] /\ time'[entry[i].slot] # None
    BY <1>1, <2>1 DEF Live, SectionInv, Timed
  <2>3. CASE ~Standing
    BY <2>2, <2>3 DEF Standing, SectionInv, Once, Timed, OnGrid
  <2>4. CASE Standing
    BY <2>1, <2>2, <2>4, QuietForSections
  <2>5. QED
    BY <2>3, <2>4
<1>5. CASE ~Checks /\ ~Writes /\ ~Edit
  <2>1. \A i \in Live' : i \in Live /\ entry'[i] = entry[i] /\ time'[entry[i].slot] # None
    BY <1>5, OtherSteps DEF SectionInv, Timed
  <2>2. UNCHANGED <<follows, runs>> /\ disturbed \subseteq disturbed'
    BY <1>5, TablesKept
  <2>3. QED
    BY <2>1, <2>2, QuietForSections
<1>6. QED
  BY <1>2, <1>3, <1>4, <1>5

\* Lessons of one section in different periods are apart when the periods are.
LEMMA SectionsApart ==
  ASSUME Shape, SectionInv
  PROVE  SectionInOnePlace
<1> SUFFICES ASSUME PeriodsApart, disturbed \cap {"schedules", "days"} = {},
                    NEW i \in Live, NEW j \in Live, i # j, entry[i].section = entry[j].section,
                    entry[i].day = entry[j].day
             PROVE  ~Overlaps(time[entry[i].slot], time[entry[j].slot])
  BY DEF SectionInOnePlace, SameTime
<1> DEFINE s == entry[i].slot
           r == entry[j].slot
<1>1. s \in Slots /\ r \in Slots /\ time[s] # None /\ time[r] # None
  BY DEF Shape, Live, Row, SectionInv, Timed
<1>2. s # r
  BY DEF SectionInv, Once, InOnePeriod
<1>3. SlotSchedule[s] = SlotSchedule[r] /\ entry[i].day \in runs[s] \cap runs[r]
  BY DEF SectionInv, OnGrid, InGrid
<1>4. QED
  BY <1>1, <1>2, <1>3 DEF PeriodsApart

\* A step that places nothing and gives no period another time; it may take
\* lessons away, and remove periods no lesson is left in.
LEMMA QuietForRooms ==
  ASSUME Shape, RoomInv, disturbed \subseteq disturbed',
         \A p \in Requests : Placing(p)' => Placing(p) /\ seen'[p] = seen[p],
         \A i \in Live' : /\ i \in Live /\ entry'[i] = entry[i]
                          /\ time'[entry[i].slot] = time[entry[i].slot],
         \A s \in Slots : time'[s] = time[s] \/ time'[s] = None
  PROVE  RoomInv'
<1>1. RoomQuiet' => RoomQuiet
  BY DEF RoomQuiet
<1>2. OnePlacing'
  BY DEF RoomInv, OnePlacing
<1>3. StillRoomy'
  <2> SUFFICES ASSUME RoomQuiet', NEW p \in Requests, Placing(p)', time'[seen'[p].row.slot] # None,
                      NEW j \in Live' \ {seen'[p].entry}, SameRoom(seen'[p].row, entry'[j])
               PROVE  ~SameTime(entry[j], seen[p].row)'
    BY DEF StillRoomy, SameRoom
  <2>1. Placing(p) /\ seen'[p] = seen[p] /\ seen[p].row.slot \in Slots
    BY DEF Shape, Placing, PlacingSeen, Row
  <2>2. time'[seen[p].row.slot] = time[seen[p].row.slot]
    BY <2>1
  <2>3. j \in Live /\ entry'[j] = entry[j] /\ time'[entry[j].slot] = time[entry[j].slot]
    OBVIOUS
  <2>4. ~SameTime(entry[j], seen[p].row)
    BY <1>1, <2>1, <2>2, <2>3 DEF RoomInv, StillRoomy
  <2>5. QED
    BY <2>1, <2>2, <2>3, <2>4 DEF SameTime
<1>4. RoomInOnePlace'
  <2> SUFFICES ASSUME RoomQuiet', NEW i \in Live', NEW j \in Live', i # j,
                      entry'[i].room # None, entry'[i].room = entry'[j].room
               PROVE  ~SameTime(entry[i], entry[j])'
    BY DEF RoomInOnePlace, RoomQuiet
  <2>1. ~SameTime(entry[i], entry[j])
    BY <1>1 DEF RoomInv, RoomInOnePlace, RoomQuiet
  <2>2. QED
    BY <2>1 DEF SameTime
<1>5. QED
  BY <1>2, <1>3, <1>4 DEF RoomInv

\* The check finds no lesson in the room at the time that was fetched, which is
\* the time of the period still; a second office at it is recorded.
LEMMA CheckRooms ==
  ASSUME Shape, AsFetched, RoomInv, NEW p \in Requests, PlaceCheck(p)
  PROVE  RoomInv'
<1>1. /\ UNCHANGED <<entry, time, seen>> /\ disturbed \subseteq disturbed'
      /\ (\E q \in Requests : Placing(q)) => "parallel" \in disturbed'
      /\ RoomFree(seen[p]) /\ InPlace(p)
  BY DEF PlaceCheck, tables, Placing, InPlace
<1>2. /\ Placing(p)' /\ \A q \in Requests \ {p} : Placing(q)' <=> Placing(q)
      /\ seen[p] \in PlacingSeen
  BY DEF PlaceCheck, Placing, Shape
<1>3. "parallel" \notin disturbed' => \A q \in Requests : Placing(q)' => q = p
  BY <1>1, <1>2
<1>4. OnePlacing'
  BY <1>3 DEF OnePlacing
<1>5. StillRoomy'
  <2> DEFINE row == seen[p].row
  <2> SUFFICES ASSUME RoomQuiet', time[row.slot] # None,
                      NEW j \in Live \ {seen[p].entry}, SameRoom(row, entry[j])
               PROVE  ~SameTime(entry[j], row)
    BY <1>1, <1>3 DEF StillRoomy, RoomQuiet, SameRoom, SameTime, Live
  <2>1. time[row.slot] = seen[p].period
    BY <1>1 DEF AsFetched, RoomQuiet
  <2>2. QED
    BY <1>1, <2>1 DEF RoomFree, Busy, OnDay, SameRoom, SameTime
<1>6. RoomInOnePlace'
  BY <1>1 DEF RoomInv, RoomInOnePlace, Live, SameTime
<1>7. QED
  BY <1>4, <1>5, <1>6 DEF RoomInv

\* The write puts the lesson into a room that is still free.
LEMMA WriteRooms ==
  ASSUME Shape, RoomInv, NEW p \in Requests, PlaceWrite(p)
  PROVE  RoomInv'
<1>1. PICK i \in Ids :
        /\ i = IF seen[p].entry = None THEN made + 1 ELSE seen[p].entry
        /\ Placing(p) /\ seen[p] \in PlacingSeen
        /\ entry'[i] = seen[p].row
        /\ \A j \in Ids \ {i} : entry'[j] = entry[j]
        /\ \A j \in Live' \ {i} : j \in Live
        /\ disturbed \subseteq disturbed'
        /\ \A q \in Requests : Placing(q)' => q # p /\ Placing(q) /\ seen'[q] = seen[q]
  BY WriteMoves
<1>2. UNCHANGED time /\ time[seen[p].row.slot] # None
  BY DEF PlaceWrite
<1>3. "parallel" \notin disturbed' => \A q \in Requests : ~Placing(q)'
  BY <1>1 DEF RoomInv, OnePlacing
<1>4. OnePlacing' /\ StillRoomy'
  BY <1>3 DEF OnePlacing, StillRoomy, RoomQuiet
<1>5. \A j \in Live' \ {i} : j \in Live \ {seen[p].entry} /\ entry'[j] = entry[j]
  BY <1>1, NoneAssumption DEF Live, Ids
<1>6. RoomInOnePlace'
  <2> SUFFICES ASSUME RoomQuiet', NEW j \in Live', NEW k \in Live', j # k, SameRoom(entry'[j], entry'[k])
               PROVE  ~SameTime(entry[j], entry[k])'
    BY DEF RoomInOnePlace, RoomQuiet, SameRoom
  <2>1. RoomQuiet
    BY <1>1 DEF RoomQuiet
  <2>2. ASSUME NEW l \in Live' \ {i}, SameRoom(seen[p].row, entry'[l])
        PROVE  ~SameTime(entry[l], seen[p].row) /\ ~SameTime(seen[p].row, entry[l])
    BY <1>1, <1>2, <1>5, <2>1, <2>2, SameTimeSymmetric DEF RoomInv, StillRoomy
  <2>3. \A r, s : SameTime(r, s)' <=> SameTime(r, s)
    BY <1>2 DEF SameTime
  <2>4. CASE j = i
    BY <1>1, <1>2, <1>5, <2>2, <2>4 DEF SameTime
  <2>5. CASE k = i
    BY <1>1, <1>2, <1>5, <2>2, <2>5 DEF SameTime, SameRoom
  <2>6. CASE j # i /\ k # i
    BY <1>2, <1>5, <2>1, <2>6 DEF RoomInv, RoomInOnePlace, RoomQuiet, SameRoom, SameTime
  <2>7. QED
    BY <2>4, <2>5, <2>6
<1>7. QED
  BY <1>4, <1>6 DEF RoomInv

\* ... and the lessons of a room ...
LEMMA NextRooms ==
  ASSUME Shape, AsFetched, RoomInv, [Next]_vars
  PROVE  RoomInv'
<1>1. CASE Checks
  BY <1>1, CheckRooms DEF Checks
<1>2. CASE Writes
  BY <1>2, WriteRooms DEF Writes
<1>3. CASE Edit
  <2>1. /\ UNCHANGED <<entry, pc, seen>> /\ disturbed \subseteq disturbed'
        /\ ~Standing \/ time' = time \/ "times" \in disturbed'
    BY <1>3, EditsRecorded
  <2>2. CASE time' = time
    BY <2>1, <2>2, QuietForRooms DEF Live, Placing
  <2>3. CASE ~Standing
    BY <2>1, <2>3 DEF Standing, RoomInv, OnePlacing, StillRoomy, RoomInOnePlace, Placing, Live
  <2>4. CASE "times" \in disturbed'
    BY <2>1, <2>4 DEF RoomInv, OnePlacing, StillRoomy, RoomInOnePlace, RoomQuiet, Placing
  <2>5. QED
    BY <2>1, <2>2, <2>3, <2>4
<1>4. CASE ~Checks /\ ~Writes /\ ~Edit
  <2>1. disturbed \subseteq disturbed' /\ \A s \in Slots : time'[s] = time[s] \/ time'[s] = None
    BY <1>4, TablesKept
  <2>2. QED
    BY <1>4, <2>1, OtherSteps, QuietForRooms
<1>5. QED
  BY <1>1, <1>2, <1>3, <1>4

\* The rows of substitutions, and what a request that confirms one is given.
LEMMA NextCoverShape ==
  ASSUME Shape, SectionInv, CoverShape, [Next]_vars
  PROVE  CoverShape'
<1> DEFINE Covers == cover' \in [Ids -> [Dates -> CoverRow \cup {None}]]
           Bare == \A i \in Ids : entry'[i] = None => cover'[i] = NoCover
           Asked == \A p \in Requests :
                      Asking(p)' => (Asking(p) /\ seen'[p] = seen[p]) \/ seen'[p] \in CoveringSeen
<1>1. ASSUME Covers, Bare, Asked PROVE CoverShape'
  <2>1. \A p \in Requests : Asking(p)' => seen'[p] \in CoveringSeen
    BY <1>1 DEF CoverShape
  <2>2. QED
    BY <1>1, <2>1 DEF CoverShape
<1>2. NoCover \in [Dates -> CoverRow \cup {None}]
  BY DEF NoCover
<1>3. /\ cover \in [Ids -> [Dates -> CoverRow \cup {None}]]
      /\ \A i \in Ids : entry[i] = None => cover[i] = NoCover
  BY DEF CoverShape
<1>4. ASSUME NEW gone, cover' = Uncovered(gone) PROVE Covers
  BY <1>2, <1>3, <1>4 DEF Uncovered
<1>5. ASSUME UNCHANGED <<entry, cover>> PROVE Covers /\ Bare
  BY <1>3, <1>5
<1>6. ASSUME NEW p \in Requests, pc' = [pc EXCEPT ![p] = "idle"], seen' = [seen EXCEPT ![p] = None]
      PROVE  Asked
  BY <1>6 DEF Shape, Asking
<1>7. ASSUME UNCHANGED <<pc, seen>> PROVE Asked
  BY <1>7 DEF Asking
<1> HIDE DEF Covers, Bare, Asked
<1>8. ASSUME NEW p \in Requests, PlaceStep(p) PROVE CoverShape'
  <2>1. ASSUME NEW i, NEW row, PlaceFetch(p, i, row) PROVE Asked /\ UNCHANGED <<entry, cover>>
    BY <2>1 DEF PlaceFetch, tables, Asked, Shape, Asking
  <2>2. ASSUME PlaceCheck(p) PROVE Asked /\ UNCHANGED <<entry, cover>>
    BY <2>2 DEF PlaceCheck, tables, Asked, Shape, Asking
  <2>3. ASSUME PlaceWrite(p) PROVE CoverShape'
    <3>1. Covers /\ Asked
      BY <1>3, <1>6, <2>3 DEF PlaceWrite, Covers
    <3>2. \A j \in Live : j \in Live'
      BY <2>3, WriteMoves
    <3>3. Bare
      BY <1>3, <2>3, <3>2 DEF Bare, Live, PlaceWrite
    <3>4. QED
      BY <1>1, <3>1, <3>3
  <2>4. QED
    BY <1>1, <1>5, <1>8, <2>1, <2>2, <2>3 DEF PlaceStep
<1>9. ASSUME NEW p \in Requests, CoverStep(p) PROVE CoverShape'
  <2>1. ASSUME NEW i \in Live, NEW t \in Teachers, NEW d \in Dates, ConfirmFetch(p, i, t, d)
        PROVE  CoverShape'
    <3> DEFINE fetched == [entry |-> i, date |-> d, day |-> entry[i].day, period |-> time[entry[i].slot],
                           row |-> [absent |-> TeacherOf(entry[i]), substitute |-> t]]
    <3>1. UNCHANGED <<entry, cover>> /\ pc' = [pc EXCEPT ![p] = "asked"]
          /\ seen' = [seen EXCEPT ![p] = fetched]
      BY <2>1 DEF ConfirmFetch, tables
    <3>2. /\ i \in Ids /\ entry[i].day \in Days /\ TeacherOf(entry[i]) \in Teachers
          /\ time[entry[i].slot] \in Times
      BY DEF Shape, Live, Row, TeacherOf, SectionInv, Timed
    <3>3. fetched \in CoveringSeen
      BY <3>2 DEF CoveringSeen, CoverRow
    <3> HIDE DEF fetched
    <3>4. Asked
      BY <3>1, <3>3 DEF Asked, Shape, Asking
    <3>5. QED
      BY <1>1, <1>5, <3>1, <3>4
  <2>2. ASSUME ConfirmCheck(p) PROVE CoverShape'
    <3>1. Asked /\ UNCHANGED <<entry, cover>>
      BY <2>2 DEF ConfirmCheck, tables, Asked, Shape, Asking
    <3>2. QED
      BY <1>1, <1>5, <3>1
  <2>3. ASSUME ConfirmWrite(p) PROVE CoverShape'
    <3>1. seen[p] \in CoveringSeen /\ entry[seen[p].entry] # None
      BY <2>3 DEF ConfirmWrite, CoverShape, Asking
    <3>2. cover' = [cover EXCEPT ![seen[p].entry][seen[p].date] = seen[p].row] /\ UNCHANGED entry
      BY <2>3 DEF ConfirmWrite
    <3>3. seen[p].entry \in Ids /\ seen[p].date \in Dates /\ seen[p].row \in CoverRow
      BY <3>1 DEF CoveringSeen
    <3>4. Covers
      BY <1>3, <3>2, <3>3 DEF Covers
    <3>5. Bare
      BY <1>3, <3>1, <3>2 DEF Bare
    <3>6. Asked
      BY <1>6, <2>3 DEF ConfirmWrite
    <3>7. QED
      BY <1>1, <3>4, <3>5, <3>6
  <2>4. QED
    BY <1>9, <2>1, <2>2, <2>3, WantedAssumption DEF CoverStep
<1>11. ASSUME NEW p \in Requests, ScheduleStep(p) PROVE CoverShape'
  <2>1. ASSUME NEW s \in Slots \cap Edited, RemoveCheck(p, s) PROVE CoverShape'
    <3>1. UNCHANGED <<entry, cover>>
      BY <2>1 DEF RemoveCheck, tables
    <3>2. Asked
      BY <2>1 DEF RemoveCheck, Asked, Shape, Asking
    <3>3. QED
      BY <1>1, <1>5, <3>1, <3>2
  <2>2. ASSUME RemoveSlot(p) PROVE CoverShape'
    <3> DEFINE gone == {i \in Live : entry[i].slot = seen[p].slot}
    <3>1. cover' = Uncovered(gone) /\ entry' = [i \in Ids |-> IF i \in gone THEN None ELSE entry[i]]
      BY <2>2 DEF RemoveSlot
    <3> HIDE DEF gone
    <3>2. Covers
      BY <1>4, <3>1
    <3>3. Bare
      BY <1>3, <3>1 DEF Bare, Uncovered
    <3>4. Asked
      BY <1>6, <2>2 DEF RemoveSlot
    <3>5. QED
      BY <1>1, <3>2, <3>3, <3>4
  <2>3. QED
    BY <1>11, <2>1, <2>2 DEF ScheduleStep
<1>12. ASSUME NEW p \in Requests, Abort(p) PROVE CoverShape'
  BY <1>1, <1>5, <1>6, <1>12 DEF Abort, tables
<1>13. ASSUME NEW i \in Ids, DeleteEntry(i) PROVE CoverShape'
  <2>1. entry' = [entry EXCEPT ![i] = None] /\ cover' = Uncovered({i}) /\ UNCHANGED <<pc, seen>>
    BY <1>13 DEF DeleteEntry
  <2>2. Covers /\ Asked
    BY <1>4, <1>7, <2>1
  <2>3. Bare
    BY <1>3, <2>1 DEF Bare, Uncovered, Shape
  <2>4. QED
    BY <1>1, <2>2, <2>3
<1>14. ASSUME NEW i \in Ids, NEW d \in Dates, Uncover(i, d) PROVE CoverShape'
  <2>1. cover' = [cover EXCEPT ![i][d] = None] /\ UNCHANGED <<entry, pc, seen>>
    BY <1>14 DEF Uncover
  <2>2. Covers
    BY <1>3, <2>1 DEF Covers
  <2>3. cover[i] # NoCover
    BY <1>14 DEF Uncover, NoCover
  <2>4. Bare
    BY <1>3, <2>1, <2>3 DEF Bare
  <2>5. QED
    BY <1>1, <1>7, <2>1, <2>2, <2>4
<1>15. ASSUME UNCHANGED <<entry, cover, pc, seen>> PROVE CoverShape'
  BY <1>1, <1>5, <1>7, <1>15
<1>17. ASSUME Edit PROVE CoverShape'
  BY <1>15, <1>17, EditsRecorded
<1>18. ASSUME NEW t, NEW d, SetAway(t, d) PROVE CoverShape'
  BY <1>15, <1>18 DEF SetAway
<1>19. CASE UNCHANGED vars
  BY <1>15, <1>19 DEF vars, tables
<1>20. QED
  BY <1>8, <1>9, <1>11, <1>12, <1>13, <1>14, <1>17, <1>18, <1>19 DEF Next

\* Lesson i is where it was: the same day, the same period, the same time.
StaysPut(i) ==
  /\ entry[i] # None /\ entry'[i].day = entry[i].day /\ entry'[i].slot = entry[i].slot
  /\ time'[entry[i].slot] = time[entry[i].slot]

\* A step in which nobody asks for a substitute or goes on to confirm one, and
\* which leaves every lesson that is covered, or for which one is asked, where
\* it was.
LEMMA QuietForCovers ==
  ASSUME CoverShape', CoverInv, disturbed \subseteq disturbed',
         \A p \in Requests : Asking(p)' => Asking(p) /\ seen'[p] = seen[p],
         \A p \in Requests : Confirming(p)' => Confirming(p),
         CoverQuiet' => \A i \in Live', d \in Dates :
           cover'[i][d] # None => i \in Live /\ cover'[i][d] = cover[i][d] /\ StaysPut(i),
         CoverQuiet' => \A p \in Requests :
           Asking(p)' /\ entry'[seen[p].entry] # None => StaysPut(seen[p].entry)
  PROVE  CoverInv'
<1>0. CoverQuiet' => CoverQuiet
  BY DEF CoverQuiet
<1>1. CoverNotTwice'
  <2> SUFFICES ASSUME CoverQuiet', NEW d \in Dates, NEW t \in Teachers,
                      NEW i \in Covering(t, d)', NEW j \in Covering(t, d)', i # j
               PROVE  ~SameTime(entry[i], entry[j])'
    BY DEF CoverNotTwice, CoverQuiet
  <2>1. ASSUME NEW k \in Covering(t, d)' PROVE k \in Covering(t, d) /\ StaysPut(k)
    BY <2>1 DEF Covering
  <2>2. ~SameTime(entry[i], entry[j])
    BY <1>0, <2>1 DEF CoverInv, CoverNotTwice, CoverQuiet
  <2>3. QED
    BY <2>1, <2>2 DEF StaysPut, SameTime
<1>2. StillCoverable'
  <2> SUFFICES ASSUME CoverQuiet', NEW p \in Requests, Confirming(p)', entry'[seen'[p].entry] # None,
                      NEW j \in Covering(seen[p].row.substitute, seen[p].date)'
               PROVE  ~SameTime(entry[j], entry[seen[p].entry])'
    BY DEF StillCoverable
  <2>1. Confirming(p) /\ Asking(p) /\ Asking(p)'
    BY DEF Confirming, Asking
  <2>2. seen'[p] = seen[p] /\ StaysPut(seen[p].entry) /\ seen[p].date \in Dates
    BY <2>1 DEF CoverInv, CoverShape, CoveringSeen
  <2>3. j \in Covering(seen[p].row.substitute, seen[p].date) /\ StaysPut(j)
    BY <2>1, <2>2 DEF Covering
  <2>4. ~SameTime(entry[j], entry[seen[p].entry])
    BY <1>0, <2>1, <2>2, <2>3 DEF CoverInv, StillCoverable, StaysPut
  <2>5. QED
    BY <2>2, <2>3, <2>4 DEF StaysPut, SameTime
<1>3. OneConfirming'
  BY DEF CoverInv, OneConfirming
<1>4. AsAsked'
  <2> SUFFICES ASSUME CoverQuiet', NEW p \in Requests, Asking(p)', entry'[seen'[p].entry] # None
               PROVE  /\ seen'[p].day = entry'[seen'[p].entry].day
                      /\ seen'[p].period = time'[entry'[seen'[p].entry].slot]
    BY DEF AsAsked
  <2>1. Asking(p) /\ seen'[p] = seen[p] /\ StaysPut(seen[p].entry)
    OBVIOUS
  <2>2. seen[p].day = entry[seen[p].entry].day /\ seen[p].period = time[entry[seen[p].entry].slot]
    BY <1>0, <2>1 DEF CoverInv, AsAsked, StaysPut
  <2>3. QED
    BY <2>1, <2>2 DEF StaysPut
<1>5. QED
  BY <1>1, <1>2, <1>3, <1>4 DEF CoverInv

\* A step that leaves the lessons that remain, and their covers, as they were.
LEMMA CoversKept ==
  ASSUME CoverShape', CoverInv, disturbed \subseteq disturbed',
         \A p \in Requests : Asking(p)' => Asking(p) /\ seen'[p] = seen[p],
         \A p \in Requests : Confirming(p)' => Confirming(p),
         \A i \in Live' : /\ i \in Live /\ entry'[i] = entry[i]
                          /\ time'[entry[i].slot] = time[entry[i].slot]
                          /\ \A d \in Dates : cover'[i][d] # None => cover'[i][d] = cover[i][d]
  PROVE  CoverInv'
<1>2. \A i \in Live' : StaysPut(i)
  BY DEF StaysPut, Live
<1>3. ASSUME NEW p \in Requests, Asking(p)', entry'[seen[p].entry] # None PROVE seen[p].entry \in Live'
  BY <1>3 DEF CoverInv, CoverShape, CoveringSeen, Live
<1>4. QED
  BY <1>2, <1>3, QuietForCovers

\* Moving a lesson that is covered, or about to be, is recorded.
LEMMA WriteCovers ==
  ASSUME Shape, CoverInv, CoverShape', NEW p \in Requests, PlaceWrite(p)
  PROVE  CoverInv'
<1>1. PICK i \in Ids :
        /\ entry'[i] = seen[p].row
        /\ \A j \in Ids \ {i} : entry'[j] = entry[j]
        /\ \A j \in Live' \ {i} : j \in Live
        /\ disturbed' = IF CoversMove(i, seen[p].row) THEN disturbed \cup {"moved"} ELSE disturbed
  BY WriteMoves
<1>2. UNCHANGED <<time, cover>> /\ pc' = [pc EXCEPT ![p] = "idle"] /\ seen' = [seen EXCEPT ![p] = None]
  BY DEF PlaceWrite
<1>3. disturbed \subseteq disturbed' /\ (CoverQuiet' => ~CoversMove(i, seen[p].row))
  BY <1>1 DEF CoverQuiet
<1>4. \A q \in Requests : /\ Asking(q)' => Asking(q) /\ seen'[q] = seen[q]
                          /\ Confirming(q)' => Confirming(q)
  BY <1>2 DEF Shape, Asking, Confirming
<1>5. \A j \in Live' \ {i} : StaysPut(j)
  BY <1>1, <1>2 DEF StaysPut, Live
<1>6. ASSUME ~CoversMove(i, seen[p].row), i \in Live',
             (\E d \in Dates : cover[i][d] # None) \/ (\E q \in Requests : Asking(q) /\ seen[q].entry = i)
      PROVE  i \in Live /\ StaysPut(i)
  BY <1>1, <1>2, <1>6 DEF CoversMove, StaysPut, Live, Asking
<1>7. ASSUME CoverQuiet', NEW j \in Live', NEW d \in Dates, cover'[j][d] # None
      PROVE  j \in Live /\ cover'[j][d] = cover[j][d] /\ StaysPut(j)
  BY <1>1, <1>2, <1>3, <1>5, <1>6, <1>7
<1>8. ASSUME CoverQuiet', NEW q \in Requests, Asking(q)', entry'[seen[q].entry] # None
      PROVE  StaysPut(seen[q].entry)
  <2>1. Asking(q) /\ seen[q].entry \in Live'
    BY <1>4, <1>8 DEF CoverInv, CoverShape, CoveringSeen, Live
  <2>2. QED
    BY <1>3, <1>5, <1>6, <1>8, <2>1
<1>9. QED
  BY <1>3, <1>4, <1>7, <1>8, QuietForCovers

\* The lesson to be covered is fetched ...
LEMMA FetchCovers ==
  ASSUME Shape, CoverInv, CoverShape', NEW p \in Requests,
         NEW i \in Live, NEW t \in Teachers, NEW d \in Dates, ConfirmFetch(p, i, t, d)
  PROVE  CoverInv'
<1>1. /\ UNCHANGED <<entry, time, cover, disturbed>> /\ pc[p] = "idle" /\ pc' = [pc EXCEPT ![p] = "asked"]
      /\ seen' = [seen EXCEPT ![p] =
           [entry |-> i, date |-> d, day |-> entry[i].day, period |-> time[entry[i].slot],
            row |-> [absent |-> TeacherOf(entry[i]), substitute |-> t]]]
  BY DEF ConfirmFetch, tables
<1>2. /\ seen'[p].entry = i /\ seen'[p].day = entry[i].day /\ seen'[p].period = time[entry[i].slot]
      /\ \A q \in Requests \ {p} : seen'[q] = seen[q] /\ (Asking(q)' => Asking(q))
      /\ \A q \in Requests : Confirming(q)' => Confirming(q) /\ q # p
  BY <1>1 DEF Shape, Asking, Confirming
<1>3. OneConfirming'
  BY <1>1, <1>2 DEF CoverInv, OneConfirming
<1>4. AsAsked'
  <2> SUFFICES ASSUME CoverQuiet', NEW q \in Requests, Asking(q)', entry'[seen'[q].entry] # None
               PROVE  /\ seen'[q].day = entry'[seen'[q].entry].day
                      /\ seen'[q].period = time'[entry'[seen'[q].entry].slot]
    BY DEF AsAsked
  <2>1. CASE q = p
    BY <1>1, <1>2, <2>1
  <2>2. CASE q # p
    <3>1. Asking(q) /\ seen'[q] = seen[q] /\ entry' = entry /\ time' = time /\ CoverQuiet
      BY <1>1, <1>2, <2>2 DEF CoverQuiet
    <3>2. QED
      BY <3>1 DEF CoverInv, AsAsked
  <2>3. QED
    BY <2>1, <2>2
<1>5. StillCoverable'
  <2> SUFFICES ASSUME CoverQuiet', NEW q \in Requests, Confirming(q)', entry'[seen'[q].entry] # None,
                      NEW j \in Covering(seen[q].row.substitute, seen[q].date)'
               PROVE  ~SameTime(entry[j], entry[seen[q].entry])'
    BY DEF StillCoverable
  <2>1. Confirming(q) /\ seen'[q] = seen[q] /\ CoverQuiet
    BY <1>1, <1>2 DEF CoverQuiet
  <2>2. j \in Covering(seen[q].row.substitute, seen[q].date)
    BY <1>1, <2>1 DEF Covering, Live
  <2>3. QED
    BY <1>1, <2>1, <2>2 DEF CoverInv, StillCoverable, SameTime
<1>6. CoverNotTwice'
  BY <1>1 DEF CoverInv, CoverNotTwice, Covering, Live, SameTime
<1>7. QED
  BY <1>3, <1>4, <1>5, <1>6 DEF CoverInv

\* ... the substitute is found free at the time that was fetched, which is the
\* lesson's time still; a second desk at it is recorded ...
LEMMA CheckCovers ==
  ASSUME Shape, CoverInv, CoverShape', NEW p \in Requests, ConfirmCheck(p)
  PROVE  CoverInv'
<1>1. /\ UNCHANGED <<entry, time, cover, seen>> /\ pc[p] = "asked" /\ pc' = [pc EXCEPT ![p] = "covering"]
      /\ disturbed \subseteq disturbed'
      /\ (\E q \in Requests : Confirming(q)) => "covers" \in disturbed'
      /\ FreeToCover(seen[p].row.substitute, seen[p])
  BY DEF ConfirmCheck, tables, Suggested, Confirming
<1>2. /\ Asking(p) /\ \A q \in Requests : Asking(q)' => Asking(q)
      /\ \A q \in Requests \ {p} : Confirming(q)' => Confirming(q)
  BY <1>1 DEF Shape, Asking, Confirming
<1>3. "covers" \notin disturbed' => \A q \in Requests : Confirming(q)' => q = p
  BY <1>1, <1>2
<1>4. CoverQuiet' => CoverQuiet
  BY <1>1 DEF CoverQuiet
<1>5. OneConfirming'
  BY <1>3 DEF OneConfirming
<1>6. AsAsked'
  BY <1>1, <1>2, <1>4 DEF CoverInv, AsAsked
<1>7. CoverNotTwice'
  BY <1>1 DEF CoverInv, CoverNotTwice, Covering, Live, SameTime
<1>8. StillCoverable'
  <2> DEFINE e == seen[p].entry
  <2> SUFFICES ASSUME CoverQuiet', entry[e] # None,
                      NEW j \in Covering(seen[p].row.substitute, seen[p].date)
               PROVE  ~SameTime(entry[j], entry[e])
    BY <1>1, <1>3 DEF StillCoverable, CoverQuiet, Covering, Live, SameTime
  <2>1. seen[p].period = time[entry[e].slot]
    BY <1>2, <1>4 DEF CoverInv, AsAsked
  <2>2. QED
    BY <1>1, <2>1 DEF FreeToCover, Busy, SameTime
<1>9. QED
  BY <1>5, <1>6, <1>7, <1>8 DEF CoverInv

\* ... and confirmed for a lesson apart from those taken over already.
LEMMA ConfirmCovers ==
  ASSUME Shape, CoverInv, CoverShape', NEW p \in Requests, ConfirmWrite(p)
  PROVE  CoverInv'
<1> DEFINE e == seen[p].entry
           u == seen[p].row.substitute
<1>1. Confirming(p) /\ seen[p] \in CoveringSeen
  BY DEF ConfirmWrite, Confirming, Asking, CoverInv, CoverShape
<1>2. /\ UNCHANGED <<entry, time, disturbed>>
      /\ cover' = [cover EXCEPT ![e][seen[p].date] = seen[p].row] /\ entry[e] # None
      /\ pc' = [pc EXCEPT ![p] = "idle"] /\ seen' = [seen EXCEPT ![p] = None]
  BY DEF ConfirmWrite
<1>3. \A q \in Requests : /\ Confirming(q)' => q # p /\ Confirming(q)
                          /\ Asking(q)' => Asking(q) /\ seen'[q] = seen[q]
  BY <1>2 DEF Shape, Confirming, Asking
<1>4. OneConfirming' /\ AsAsked'
  BY <1>2, <1>3 DEF CoverInv, OneConfirming, AsAsked, CoverQuiet
<1>5. StillCoverable'
  BY <1>1, <1>2, <1>3 DEF CoverInv, OneConfirming, StillCoverable, CoverQuiet
<1>6. CoverNotTwice'
  <2> SUFFICES ASSUME CoverQuiet', NEW d \in Dates, NEW t \in Teachers,
                      NEW i \in Covering(t, d)', NEW j \in Covering(t, d)', i # j
               PROVE  ~SameTime(entry[i], entry[j])'
    BY DEF CoverNotTwice, CoverQuiet
  <2>1. CoverQuiet
    BY <1>2 DEF CoverQuiet
  <2>2. ASSUME NEW k \in Covering(t, d)', k # e
        PROVE  k \in Covering(t, d)
    BY <1>1, <1>2, <2>2 DEF Covering, Live, CoverInv, CoverShape
  <2>3. ASSUME e \in Covering(t, d)', NEW k \in Covering(t, d), k # e
        PROVE  ~SameTime(entry[k], entry[e])
    <3>1. CASE d = seen[p].date
      <4>1. cover'[e][d] = seen[p].row
        BY <1>1, <1>2, <3>1 DEF CoverInv, CoverShape, CoveringSeen
      <4>2. t = u
        BY <2>3, <4>1 DEF Covering
      <4>3. QED
        BY <1>1, <1>2, <2>1, <2>3, <3>1, <4>2 DEF CoverInv, StillCoverable
    <3>2. CASE d # seen[p].date
      <4>1. cover'[e][d] = cover[e][d] /\ e \in Ids
        BY <1>1, <1>2, <3>2 DEF CoverInv, CoverShape, CoveringSeen
      <4>2. e \in Covering(t, d)
        BY <1>2, <2>3, <4>1 DEF Covering, Live
      <4>3. QED
        BY <2>1, <2>3, <4>2 DEF CoverInv, CoverNotTwice, CoverQuiet
    <3>3. QED
      BY <3>1, <3>2
  <2>4. ~SameTime(entry[i], entry[j])
    <3>1. CASE i = e
      BY <2>2, <2>3, <3>1, SameTimeSymmetric
    <3>2. CASE j = e
      BY <2>2, <2>3, <3>2
    <3>3. CASE i # e /\ j # e
      BY <2>1, <2>2, <3>3 DEF CoverInv, CoverNotTwice, CoverQuiet
    <3>4. QED
      BY <3>1, <3>2, <3>3
  <2>5. QED
    BY <1>2, <2>4 DEF SameTime
<1>7. QED
  BY <1>4, <1>5, <1>6 DEF CoverInv

\* ... and the covers of a teacher.
LEMMA NextCovers ==
  ASSUME Shape, SectionInv, CoverInv, [Next]_vars
  PROVE  CoverInv'
<1> DEFINE Asked == \A q \in Requests : /\ Asking(q)' => Asking(q) /\ seen'[q] = seen[q]
                                        /\ Confirming(q)' => Confirming(q)
           Lessons == \A i \in Live' : /\ i \in Live /\ entry'[i] = entry[i]
                                       /\ time'[entry[i].slot] = time[entry[i].slot]
           Covers == \A i \in Live', d \in Dates : cover'[i][d] # None => cover'[i][d] = cover[i][d]
<1>0. CoverShape'
  BY NextCoverShape DEF CoverInv
<1>1. ASSUME NEW p \in Requests, pc' = [pc EXCEPT ![p] = "idle"], seen' = [seen EXCEPT ![p] = None]
      PROVE  Asked
  BY <1>1 DEF Shape, Confirming, Asking
<1>2. ASSUME UNCHANGED <<pc, seen>> PROVE Asked
  BY <1>2 DEF Confirming, Asking
<1>3. ASSUME disturbed \subseteq disturbed', Asked, Lessons, Covers PROVE CoverInv'
  BY <1>0, <1>3, CoversKept
<1>4. ASSUME UNCHANGED <<entry, time>> PROVE Lessons
  BY <1>4 DEF Live
<1>5. CASE Checks
  <2>1. PICK p \in Requests : PlaceCheck(p)
    BY <1>5 DEF Checks
  <2>2. UNCHANGED <<entry, time, cover, seen>> /\ disturbed \subseteq disturbed'
        /\ pc' = [pc EXCEPT ![p] = "placing"]
    BY <2>1 DEF PlaceCheck, tables
  <2>3. Asked
    BY <2>2 DEF Shape, Confirming, Asking
  <2>4. QED
    BY <1>3, <1>4, <2>2, <2>3
<1>6. CASE Writes
  BY <1>0, <1>6, WriteCovers DEF Writes
<1>7. CASE Edit
  <2>1. /\ UNCHANGED <<entry, pc, seen, cover>> /\ disturbed \subseteq disturbed'
        /\ ~Standing \/ time' = time \/ "times" \in disturbed'
    BY <1>7, EditsRecorded
  <2>2. CASE time' = time
    BY <1>2, <1>3, <1>4, <2>1, <2>2
  <2>3. CASE ~Standing
    <3>1. Live' = {} /\ \A p \in Requests : ~Asking(p)' /\ ~Confirming(p)'
      BY <2>1, <2>3 DEF Standing, Live, Asking, Confirming
    <3>2. Asked /\ Lessons /\ Covers
      BY <3>1
    <3>3. QED
      BY <1>3, <2>1, <3>2
  <2>4. CASE "times" \in disturbed'
    <3>1. OneConfirming'
      BY <2>1 DEF CoverInv, OneConfirming, Confirming
    <3>2. AsAsked' /\ StillCoverable' /\ CoverNotTwice'
      BY <2>4 DEF AsAsked, StillCoverable, CoverNotTwice, CoverQuiet
    <3>3. QED
      BY <1>0, <3>1, <3>2 DEF CoverInv
  <2>5. QED
    BY <2>1, <2>2, <2>3, <2>4
<1>8. ASSUME ~Checks, ~Writes, ~Edit PROVE Lessons /\ disturbed \subseteq disturbed'
  BY <1>8, OtherSteps, TablesKept
<1> HIDE DEF Asked, Lessons, Covers
<1>9. ASSUME ~Checks, ~Writes, ~Edit, Asked, Covers PROVE CoverInv'
  BY <1>3, <1>8, <1>9
<1>10. ASSUME UNCHANGED cover PROVE Covers
  BY <1>10 DEF Covers
<1>11. ASSUME NEW gone, cover' = Uncovered(gone) PROVE Covers
  BY <1>11 DEF Covers, Uncovered, NoCover, Live
<1>12. ASSUME NEW p \in Requests, CoverStep(p) PROVE CoverInv'
  BY <1>0, <1>12, FetchCovers, CheckCovers, ConfirmCovers, WantedAssumption DEF CoverStep
<1>13. ASSUME ~Checks, ~Writes, ~Edit, NEW p \in Requests, ScheduleStep(p) PROVE CoverInv'
  <2>1. ASSUME NEW s \in Slots \cap Edited, RemoveCheck(p, s) PROVE Asked /\ Covers
    BY <1>10, <2>1 DEF RemoveCheck, tables, Asked, Shape, Confirming, Asking
  <2>2. RemoveSlot(p) => Asked /\ Covers
    BY <1>1, <1>11 DEF RemoveSlot
  <2>3. QED
    BY <1>9, <1>13, <2>1, <2>2 DEF ScheduleStep
<1>14. ASSUME ~Checks, ~Writes, ~Edit, NEW p \in Requests, Abort(p) PROVE CoverInv'
  BY <1>1, <1>9, <1>10, <1>14 DEF Abort, tables
<1>15. ASSUME ~Checks, ~Writes, ~Edit, NEW i \in Ids, DeleteEntry(i) PROVE CoverInv'
  BY <1>2, <1>9, <1>11, <1>15 DEF DeleteEntry
<1>16. ASSUME ~Checks, ~Writes, ~Edit, NEW i \in Ids, NEW d \in Dates, Uncover(i, d) PROVE CoverInv'
  <2>1. cover' = [cover EXCEPT ![i][d] = None] /\ UNCHANGED <<pc, seen>>
    BY <1>16 DEF Uncover
  <2>2. Covers
    BY <2>1 DEF Covers, CoverInv, CoverShape, Live
  <2>3. QED
    BY <1>2, <1>9, <1>16, <2>1, <2>2
<1>17. ASSUME ~Checks, ~Writes, ~Edit, UNCHANGED <<cover, pc, seen>> PROVE CoverInv'
  BY <1>2, <1>9, <1>10, <1>17
<1>18. ASSUME ~Checks, ~Writes, ~Edit, NEW p \in Requests, NEW i, NEW row, PlaceFetch(p, i, row) PROVE CoverInv'
  <2>1. Asked /\ UNCHANGED cover
    BY <1>18 DEF PlaceFetch, tables, Asked, Shape, Asking, Confirming
  <2>2. QED
    BY <1>9, <1>10, <1>18, <2>1
<1>19. ASSUME ~Checks, ~Writes, ~Edit, NEW t, NEW d, SetAway(t, d) PROVE CoverInv'
  <2>1. UNCHANGED <<cover, pc, seen>>
    BY <1>19 DEF SetAway
  <2>2. QED
    BY <1>17, <1>19, <2>1
<1>20. ASSUME ~Checks, ~Writes, ~Edit, UNCHANGED vars PROVE CoverInv'
  BY <1>17, <1>20 DEF vars, tables
<1>21. ASSUME ~Checks, ~Writes, ~Edit, NEW p \in Requests, PlaceStep(p) PROVE CoverInv'
  BY <1>18, <1>21 DEF PlaceStep, Checks, Writes
<1>22. QED
  <2>1. CASE ~Checks /\ ~Writes /\ ~Edit
    BY <1>12, <1>13, <1>14, <1>15, <1>16, <1>19, <1>20, <1>21, <2>1 DEF Next
  <2>2. QED
    BY <1>5, <1>6, <1>7, <2>1

\* An empty timetable books nobody twice.
LEMMA InitBookings == Init => AsFetched /\ SectionInv /\ RoomInv /\ CoverInv
<1> SUFFICES ASSUME Init PROVE AsFetched /\ SectionInv /\ RoomInv /\ CoverInv
  OBVIOUS
<1>1. Live = {} /\ \A p \in Requests : ~InPlace(p) /\ ~Placing(p) /\ ~Asking(p) /\ ~Confirming(p)
  BY DEF Init, Live, InPlace, Placing, Asking, Confirming
<1>2. AsFetched /\ SectionInv
  BY <1>1 DEF AsFetched, SectionInv, Once, Timed, OnGrid
<1>3. RoomInv
  BY <1>1 DEF RoomInv, OnePlacing, StillRoomy, RoomInOnePlace
<1>4. CoverShape
  BY <1>1 DEF Init, CoverShape, NoCover
<1>5. CoverInv
  BY <1>1, <1>4 DEF CoverInv, OneConfirming, AsAsked, StillCoverable, CoverNotTwice, Covering
<1>6. QED
  BY <1>2, <1>3, <1>5

-----------------------------------------------------------------------------
\* Sections, rooms and substitutes, which `place' and `confirm' do not lock,
\* for any number of offices and through every edit: the unique index keeps a
\* section in one place while its periods are apart and stay where its lessons
\* are; rooms are booked once until two placements overlap or a period is
\* given other times, and substitutes until two confirmations do or a covered
\* lesson is moved.
THEOREM NobodyBookedTwice == Spec => []NothingBookedTwice
<1> DEFINE Inv == Shape /\ AsFetched /\ SectionInv /\ RoomInv /\ CoverInv
<1>1. Init => Inv
  BY InitShape, InitBookings
<1>2. Inv /\ [Next]_vars => Inv'
  BY NextShape, NextFetched, NextSections, NextRooms, NextCovers
<1>3. Inv => NothingBookedTwice
  BY SectionsApart DEF NothingBookedTwice, RoomInv, CoverInv
<1>4. QED
  BY <1>1, <1>2, <1>3, PTL DEF Spec
=============================================================================
