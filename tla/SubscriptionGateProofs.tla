----------------------- MODULE SubscriptionGateProofs -----------------------
(***************************************************************************)
(* What the gate and the nightly task guarantee for any number of clients, *)
(* requests, modules, edits and lost workers.                              *)
(***************************************************************************)
EXTENDS SubscriptionGate, TLAPS

Answers == {None, "subscription_inactive", "module_not_licensed", "served"}
Reading == [client : Clients \cup {None}, module : Modules \cup {None},
            status : Statuses \cup {None}, modules : SUBSET Modules, answer : Answers]

Places == {"idle", "miss", "modules", "fill", "answered"}

\* What a request has read by the time it is at a place.
ReadBy(reading, place) ==
  /\ place \in {"miss", "modules", "fill"} => reading.client \in Clients
  /\ place = "miss" => reading.modules = {}
  /\ place \in {"modules", "fill"} => reading.status \in Statuses

\* The types the arguments need, those of the requests first.
WebShape ==
  /\ pc \in [Requests -> Places]
  /\ req \in [Requests -> Reading]
  /\ \A q \in Requests : ReadBy(req[q], pc[q])
Shape ==
  /\ today \in Nat
  /\ row \in [Clients -> Row \cup {None}]
  /\ saving \in [Clients -> Row \cup {None}]
  /\ plan \subseteq Modules
  /\ cache \in [Clients -> State \cup {None}]
  /\ WebShape
  /\ DOMAIN batch \subseteq Clients
  /\ \A t \in DOMAIN batch : batch[t] \in Row

\* What is about to be cached already grants nothing when access is closed.
ClosedRequests ==
  \A q \in Requests : pc[q] = "fill" /\ ~is_access_allowed(req[q].status) => req[q].modules = {}

\* A row the task has read still exists: subscriptions are not deleted.
BatchExists == \A t \in DOMAIN batch : row[t] # None

-----------------------------------------------------------------------------
\* The status the task computes is one of the four, and it neither ends a
\* contract nor revives one: recompute_status.
LEMMA StatusOfRow ==
  ASSUME Shape, NEW r \in Row
  PROVE  /\ recompute_status(r) \in Statuses
         /\ recompute_status(r) = "terminated" <=> r.status = "terminated"
<1>1. r.end \in Nat /\ r.grace \in Nat /\ today \in Nat
  <2>1. r.end \in 0..LastEnd /\ r.grace \in Graces
    BY DEF Row
  <2>2. LastEnd \in Nat /\ Graces \subseteq Nat /\ today \in Nat
    BY SetsAssumption, CalendarAssumption DEF Shape, SetsAssumption, CalendarAssumption
  <2>3. r.end \in Nat
    BY <2>1, <2>2
  <2>4. r.grace \in Nat
    BY <2>1, <2>2
  <2>5. QED
    BY <2>2, <2>3, <2>4
<1>2. CASE r.status = "terminated"
  BY <1>2 DEF recompute_status, Statuses
<1>3. CASE r.status # "terminated" /\ today <= r.end
  BY <1>3 DEF recompute_status, Statuses
<1>4. CASE r.status # "terminated" /\ ~(today <= r.end)
  <2>1. today > r.end
    BY <1>1, <1>4
  <2>2. recompute_status(r) = IF today <= r.end + r.grace THEN "grace_period" ELSE "suspended"
    BY <1>4, <2>1 DEF recompute_status
  <2>3. QED
    BY <1>4, <2>2 DEF Statuses
<1>5. QED
  BY <1>2, <1>3, <1>4

\* Writing a status leaves a proper row.
LEMMA StatusIsWritable ==
  ASSUME NEW r \in Row, NEW status \in Statuses
  PROVE  [r EXCEPT !.status = status] \in Row
  BY DEF Row

\* The invariant holds before the first request, edit and nightly run.
LEMMA InitShape == Init => Shape /\ ClosedRequests /\ ClosedMeansEmpty /\ BatchExists
  BY DEF Init, Shape, WebShape, Places, ReadBy, NoRequest, Reading, Answers, ClosedRequests, ClosedMeansEmpty, BatchExists

\* A request that moves to a place with what that place needs stays in shape.
LEMMA RequestMoves ==
  ASSUME WebShape, NEW q \in Requests, NEW reading \in Reading, NEW place \in Places,
         ReadBy(reading, place),
         req' = [req EXCEPT ![q] = reading], pc' = [pc EXCEPT ![q] = place]
  PROVE  WebShape'
<1>1. ASSUME NEW p \in Requests PROVE ReadBy(req'[p], pc'[p])
  BY <1>1 DEF WebShape
<1>2. QED
  BY <1>1 DEF WebShape

\* Every step keeps the types.
LEMMA ShapeKept ==
  ASSUME Shape, BatchExists, [Next]_vars
  PROVE  Shape'
<1>1. CASE UNCHANGED vars
  BY <1>1 DEF Shape, WebShape, vars, admin, web, nightly
<1>2. ASSUME NEW q \in Requests, NEW t \in Clients, NEW m \in Modules, Arrive(q, t, m) PROVE Shape'
  <2>1. Answer(cache[t], m) \in Answers
    BY DEF Answer, Answers
  <2>2. /\ [NoRequest EXCEPT !.answer = Answer(cache[t], m)] \in Reading
        /\ [NoRequest EXCEPT !.client = t, !.module = m] \in Reading
        /\ [NoRequest EXCEPT !.client = t, !.module = m].client = t
        /\ [NoRequest EXCEPT !.client = t, !.module = m].modules = {}
    BY <2>1 DEF NoRequest, Reading, Answers
  <2>3. PICK reading \in Reading, place \in Places :
          /\ ReadBy(reading, place)
          /\ req' = [req EXCEPT ![q] = reading] /\ pc' = [pc EXCEPT ![q] = place]
    BY <1>2, <2>2 DEF Arrive, Places, ReadBy
  <2>4. WebShape'
    BY <2>3, RequestMoves DEF Shape
  <2>5. QED
    BY <1>2, <2>4 DEF Shape, Arrive, admin, nightly
<1>3. ASSUME NEW q \in Requests, ReadRow(q) PROVE Shape'
  <2>1. pc[q] = "miss" /\ req[q] \in Reading /\ req[q].client \in Clients
    BY <1>3 DEF Shape, WebShape, ReadBy, ReadRow
  <2>2. row[req[q].client] # None => row[req[q].client].status \in Statuses
    BY <2>1 DEF Shape, Row
  <2>3. PICK status \in Statuses, place \in {"fill", "modules"} :
          req' = [req EXCEPT ![q].status = status] /\ pc' = [pc EXCEPT ![q] = place]
    BY <1>3, <2>2 DEF ReadRow, Statuses
  <2> DEFINE reading == [req[q] EXCEPT !.status = status]
  <2>4. reading \in Reading /\ ReadBy(reading, place) /\ place \in Places
    BY <2>1 DEF Reading, ReadBy, Places
  <2>5. req' = [req EXCEPT ![q] = reading]
    BY <2>3
  <2> HIDE DEF reading
  <2>6. WebShape'
    BY <2>3, <2>4, <2>5, RequestMoves DEF Shape
  <2>7. QED
    BY <1>3, <2>6 DEF Shape, ReadRow, admin, nightly
<1>4. ASSUME NEW q \in Requests, ReadModules(q) PROVE Shape'
  <2> DEFINE r == row[req[q].client]
             read == IF r = None THEN plan ELSE active_modules(r)
             granted == granted_modules(req[q].status, read)
             reading == [req[q] EXCEPT !.modules = granted]
  <2>1. /\ pc[q] = "modules" /\ req[q] \in Reading
        /\ req[q].client \in Clients /\ req[q].status \in Statuses
    BY <1>4 DEF Shape, WebShape, ReadBy, ReadModules
  <2>2. read \subseteq Modules
    BY <2>1 DEF Shape, active_modules, Row
  <2>3. granted \in SUBSET Modules
    BY <2>2 DEF granted_modules
  <2>4. req' = [req EXCEPT ![q].modules = granted] /\ pc' = [pc EXCEPT ![q] = "fill"]
    BY <1>4 DEF ReadModules
  <2> HIDE DEF granted
  <2>5. reading \in Reading /\ ReadBy(reading, "fill") /\ "fill" \in Places
    BY <2>1, <2>3 DEF Reading, ReadBy, Places
  <2>6. req' = [req EXCEPT ![q] = reading]
    BY <2>4
  <2> HIDE DEF reading
  <2>7. WebShape'
    BY <2>4, <2>5, <2>6, RequestMoves DEF Shape
  <2>8. QED
    BY <1>4, <2>7 DEF Shape, ReadModules, admin, nightly
<1>5. ASSUME NEW q \in Requests, Fill(q) PROVE Shape'
  <2> DEFINE state == [status |-> req[q].status, modules |-> req[q].modules]
             reading == [NoRequest EXCEPT !.answer = Answer(state, req[q].module)]
  <2>1. state \in State /\ req[q].client \in Clients
    BY <1>5 DEF Shape, WebShape, ReadBy, Reading, Fill, State
  <2>2. cache' \in [Clients -> State \cup {None}]
    BY <1>5, <2>1 DEF Shape, Fill
  <2>3. Answer(state, req[q].module) \in Answers
    BY DEF Answer, Answers
  <2>4. req' = [req EXCEPT ![q] = reading] /\ pc' = [pc EXCEPT ![q] = "answered"]
    BY <1>5 DEF Fill
  <2>5. reading \in Reading /\ ReadBy(reading, "answered") /\ "answered" \in Places
    BY <2>3 DEF NoRequest, Reading, ReadBy, Places, Answers
  <2> HIDE DEF reading
  <2>6. WebShape'
    BY <2>4, <2>5, RequestMoves DEF Shape
  <2>7. QED
    BY <1>5, <2>2, <2>6 DEF Shape, Fill, admin, nightly
<1>6. ASSUME NEW q \in Requests, Leave(q) PROVE Shape'
  <2>1. NoRequest \in Reading /\ ReadBy(NoRequest, "idle") /\ "idle" \in Places
    BY DEF NoRequest, Reading, ReadBy, Places, Answers
  <2>2. WebShape'
    BY <1>6, <2>1, RequestMoves DEF Shape, Leave
  <2>3. QED
    BY <1>6, <2>2 DEF Shape, Leave, admin, nightly
<1>7. ASSUME NEW t \in Clients, Expire(t) PROVE Shape'
  BY <1>7 DEF Shape, WebShape, Expire, admin, web, nightly
<1>8. ASSUME NEW t \in Clients, NEW r \in Row, AdminSave(t, r) PROVE Shape'
  BY <1>8 DEF Shape, WebShape, AdminSave, web, nightly
<1>9. ASSUME NEW t \in Clients, AdminCommit(t) PROVE Shape'
  BY <1>9 DEF Shape, WebShape, AdminCommit, web, nightly
<1>10. ASSUME NEW m \in Modules, EditPlan(m) PROVE Shape'
  BY <1>10 DEF Shape, WebShape, EditPlan, web, nightly
<1>11. CASE NextDay
  BY <1>11, CalendarAssumption DEF CalendarAssumption, Shape, WebShape, NextDay, admin, web
<1>12. CASE TaskStart
  BY <1>12 DEF Shape, WebShape, TaskStart, admin, web
<1>13. ASSUME NEW t \in Clients, TaskRow(t) PROVE Shape'
  <2>1. batch[t] \in Row
    BY <1>13 DEF Shape, TaskRow
  <2>2. /\ DOMAIN batch' \subseteq Clients
        /\ \A c \in DOMAIN batch' : batch'[c] \in Row
    BY <1>13 DEF Shape, TaskRow
  <2>3. CASE Changes(t)
    <3>1. recompute_status(batch[t]) \in Statuses
      BY <2>1, StatusOfRow
    <3>2. row' \in [Clients -> Row \cup {None}]
      <4>1. row[t] \in Row
        BY <1>13 DEF Shape, BatchExists, TaskRow
      <4>2. WriteStatus(t, recompute_status(batch[t])) \in Row
        BY <3>1, <4>1, StatusIsWritable DEF WriteStatus
      <4>3. QED
        BY <1>13, <2>3, <4>2 DEF Shape, TaskRow
    <3>3. QED
      BY <1>13, <2>2, <2>3, <3>2 DEF Shape, WebShape, TaskRow, admin, web
  <2>4. CASE ~Changes(t)
    BY <1>13, <2>2, <2>4 DEF Shape, WebShape, TaskRow, admin, web
  <2>5. QED
    BY <2>3, <2>4
<1>14. CASE TaskEnd
  BY <1>14 DEF Shape, WebShape, TaskEnd, admin, web
<1>15. CASE Crash
  BY <1>15 DEF Shape, WebShape, Crash, admin, web
<1>16. QED
  BY <1>1, <1>2, <1>3, <1>4, <1>5, <1>6, <1>7, <1>8, <1>9, <1>10, <1>11, <1>12, <1>13, <1>14, <1>15
  DEF Next, WebStep, Handle, AdminStep, TaskStep

-----------------------------------------------------------------------------
\* Only a fill puts an entry into the cache, and it caches what it has read.
LEMMA GateKept ==
  ASSUME Shape, ClosedRequests, ClosedMeansEmpty, [Next]_vars
  PROVE  ClosedRequests' /\ ClosedMeansEmpty'
<1>1. CASE UNCHANGED vars
  BY <1>1 DEF ClosedRequests, ClosedMeansEmpty, vars, web
<1>2. ASSUME NEW q \in Requests, NEW t \in Clients, NEW m \in Modules, Arrive(q, t, m)
      PROVE  ClosedRequests' /\ ClosedMeansEmpty'
  BY <1>2 DEF Shape, WebShape, ClosedRequests, ClosedMeansEmpty, Arrive
<1>3. ASSUME NEW q \in Requests, ReadRow(q) PROVE ClosedRequests' /\ ClosedMeansEmpty'
  <2>1. pc[q] = "miss" /\ req[q] \in Reading /\ req[q].modules = {}
    BY <1>3 DEF Shape, WebShape, ReadBy, ReadRow
  <2>2. PICK status \in {"suspended", row[req[q].client].status}, place \in {"fill", "modules"} :
          req' = [req EXCEPT ![q].status = status] /\ pc' = [pc EXCEPT ![q] = place]
    BY <1>3 DEF ReadRow
  <2>3. req'[q].modules = {} /\ \A p \in Requests \ {q} : req'[p] = req[p] /\ pc'[p] = pc[p]
    BY <2>1, <2>2 DEF Shape, WebShape, Reading
  <2>4. cache' = cache
    BY <1>3 DEF ReadRow
  <2>5. QED
    BY <2>3, <2>4 DEF ClosedRequests, ClosedMeansEmpty
<1>4. ASSUME NEW q \in Requests, ReadModules(q) PROVE ClosedRequests' /\ ClosedMeansEmpty'
  BY <1>4 DEF Shape, WebShape, ClosedRequests, ClosedMeansEmpty, ReadModules, granted_modules
<1>5. ASSUME NEW q \in Requests, Fill(q) PROVE ClosedRequests' /\ ClosedMeansEmpty'
  BY <1>5 DEF Shape, WebShape, ClosedRequests, ClosedMeansEmpty, Fill
<1>6. ASSUME NEW q \in Requests, Leave(q) PROVE ClosedRequests' /\ ClosedMeansEmpty'
  BY <1>6 DEF Shape, WebShape, ClosedRequests, ClosedMeansEmpty, Leave
<1>7. ASSUME UNCHANGED web, \A t \in Clients : cache'[t] = cache[t] \/ cache'[t] = None
      PROVE  ClosedRequests' /\ ClosedMeansEmpty'
  BY <1>7 DEF ClosedRequests, ClosedMeansEmpty, web
<1>8. ASSUME NEW t \in Clients,
             \/ Expire(t) \/ AdminCommit(t) \/ TaskRow(t) \/ \E r \in Row : AdminSave(t, r)
      PROVE  ClosedRequests' /\ ClosedMeansEmpty'
  BY <1>7, <1>8 DEF Shape, Expire, AdminCommit, TaskRow, AdminSave
<1>9. ASSUME \/ NextDay \/ TaskStart \/ TaskEnd \/ Crash \/ \E m \in Modules : EditPlan(m)
      PROVE  ClosedRequests' /\ ClosedMeansEmpty'
  BY <1>7, <1>9 DEF NextDay, TaskStart, TaskEnd, Crash, EditPlan
<1>10. QED
  BY <1>1, <1>2, <1>3, <1>4, <1>5, <1>6, <1>8, <1>9
  DEF Next, WebStep, Handle, AdminStep, TaskStep

\* No step deletes a subscription, so the rows the task has read stay.
LEMMA BatchKept ==
  ASSUME Shape, BatchExists, [Next]_vars
  PROVE  BatchExists'
<1>1. ASSUME row' = row, \/ batch' = batch \/ batch' = <<>> PROVE BatchExists'
  BY <1>1 DEF BatchExists
<1>2. ASSUME NEW t \in Clients, AdminCommit(t) PROVE BatchExists'
  BY <1>2 DEF Shape, BatchExists, AdminCommit, nightly
<1>3. CASE TaskStart
  BY <1>3 DEF BatchExists, TaskStart
<1>4. ASSUME NEW t \in Clients, TaskRow(t) PROVE BatchExists'
  <2>1. DOMAIN batch' = DOMAIN batch \ {t} /\ \A c \in DOMAIN batch' : row'[c] = row[c]
    BY <1>4 DEF Shape, TaskRow
  <2>2. QED
    BY <2>1 DEF BatchExists
<1>5. CASE UNCHANGED vars
  BY <1>1, <1>5 DEF vars, nightly
<1>6. ASSUME NEW q \in Requests, WebStep(q) PROVE BatchExists'
  BY <1>1, <1>6 DEF WebStep, Arrive, Handle, ReadRow, ReadModules, Fill, Leave, nightly
<1>7. ASSUME NEW t \in Clients, Expire(t) \/ \E r \in Row : AdminSave(t, r) PROVE BatchExists'
  BY <1>1, <1>7 DEF Expire, AdminSave, nightly
<1>8. ASSUME NextDay \/ TaskEnd \/ Crash \/ \E m \in Modules : EditPlan(m) PROVE BatchExists'
  BY <1>1, <1>8 DEF NextDay, TaskEnd, Crash, EditPlan, nightly
<1>9. QED
  BY <1>2, <1>3, <1>4, <1>5, <1>6, <1>7, <1>8 DEF Next, AdminStep, TaskStep

IInv == Shape /\ ClosedRequests /\ ClosedMeansEmpty /\ BatchExists

\* The inductive invariant of the module, from which the theorems follow.
LEMMA Invariance == Spec => []IInv
<1>1. Init => IInv
  BY InitShape DEF IInv
<1>2. IInv /\ [Next]_vars => IInv'
  BY ShapeKept, GateKept, BatchKept DEF IInv
<1>3. QED
  BY <1>1, <1>2, PTL DEF Spec

\* "An unauthorized tenant has zero modules", for any number of requests that
\* fill the cache while rows, plans and statuses change under them.
THEOREM GateStaysClosed == Spec => []ClosedMeansEmpty
<1>1. IInv => ClosedMeansEmpty
  BY DEF IInv
<1>2. QED
  BY <1>1, Invariance, PTL

-----------------------------------------------------------------------------
\* Only the loop over the rows takes a row out of the batch of a task that
\* goes on.
LEMMA SaveIsTaskRow ==
  ASSUME IInv, [Next]_vars, NEW t \in Clients, TaskSaves(t)
  PROVE  TaskRow(t)
<1>1. t \in DOMAIN batch /\ t \notin DOMAIN batch' /\ task = "running" /\ task' = "running"
  BY DEF TaskSaves
<1>2. batch' # batch
  BY <1>1
<1>3. ASSUME NEW c \in Clients, TaskRow(c) PROVE c = t
  BY <1>1, <1>3 DEF TaskRow
<1>4. \E c \in Clients : TaskRow(c)
  BY <1>1, <1>2 DEF Next, WebStep, Handle, Arrive, ReadRow, ReadModules, Fill, Leave, Expire,
     AdminStep, AdminSave, AdminCommit, EditPlan, NextDay, TaskStep, TaskStart, TaskEnd, Crash,
     vars, nightly
<1>5. QED
  BY <1>3, <1>4

\* What the loop does to the row it saves.
LEMMA TaskRowWrites ==
  ASSUME IInv, NEW t \in Clients, TaskRow(t)
  PROVE  /\ row[t] \in Row
         /\ \/ row'[t] = row[t]
            \/ /\ row'[t] = [row[t] EXCEPT !.status = recompute_status(batch[t])]
               /\ batch[t] \in Row /\ Changes(t)
               /\ recompute_status(batch[t]) \in Statuses
<1>1. row[t] \in Row /\ batch[t] \in Row
  BY DEF IInv, Shape, BatchExists, TaskRow
<1>2. recompute_status(batch[t]) \in Statuses
  BY <1>1, StatusOfRow DEF IInv
<1>3. QED
  BY <1>1, <1>2 DEF IInv, Shape, TaskRow, WriteStatus

\* A renewal or a change of modules committed after the task read the rows
\* survives its save.
THEOREM ContractsSurviveTheTask == Spec => TaskLeavesContract
<1>1. ASSUME IInv, [Next]_vars, NEW t \in Clients, TaskSaves(t)
      PROVE  row'[t] # None /\ row[t] # None /\ row'[t] = [row[t] EXCEPT !.status = row'[t].status]
  <2>1. row[t] \in Row
    BY <1>1, SaveIsTaskRow, TaskRowWrites
  <2>2. row'[t] \in Row /\ row'[t] = [row[t] EXCEPT !.status = row'[t].status]
    <3>1. CASE row'[t] = row[t]
      BY <2>1, <3>1 DEF Row
    <3>2. PICK status \in Statuses : row'[t] = row[t] \/ row'[t] = [row[t] EXCEPT !.status = status]
      BY <1>1, SaveIsTaskRow, TaskRowWrites, <2>1 DEF Row
    <3>3. QED
      BY <2>1, <3>1, <3>2 DEF Row
  <2>3. QED
    BY <2>1, <2>2, NoneAssumption DEF NoneAssumption
<1>2. IInv /\ [Next]_vars => [\A t \in Clients : TaskSaves(t) =>
         row'[t] # None /\ row[t] # None /\ row'[t] = [row[t] EXCEPT !.status = row'[t].status]]_vars
  BY <1>1
<1>3. QED
  BY <1>2, Invariance, PTL DEF Spec, TaskLeavesContract

\* The task ends no contract, whatever it read and however long ago.
THEOREM TaskEndsNoContract == Spec => TaskNeverTerminates
<1>1. ASSUME IInv, [Next]_vars, NEW t \in Clients, TaskSaves(t), row'[t].status = "terminated"
      PROVE  row[t].status = "terminated"
  <2>1. CASE row'[t] = row[t]
    BY <1>1, <2>1
  <2>2. CASE row'[t] # row[t]
    <3>1. /\ row[t] \in Row /\ batch[t] \in Row /\ Changes(t)
          /\ row'[t] = [row[t] EXCEPT !.status = recompute_status(batch[t])]
      BY <1>1, <2>2, SaveIsTaskRow, TaskRowWrites
    <3>2. recompute_status(batch[t]) = "terminated"
      BY <1>1, <3>1 DEF Row
    <3>3. batch[t].status = "terminated"
      BY <1>1, <3>1, <3>2, StatusOfRow DEF IInv
    <3>4. QED
      BY <3>1, <3>2, <3>3 DEF Changes
  <2>3. QED
    BY <2>1, <2>2
<1>2. IInv /\ [Next]_vars =>
        [\A t \in Clients : TaskSaves(t) /\ row'[t].status = "terminated" => row[t].status = "terminated"]_vars
  BY <1>1
<1>3. QED
  BY <1>2, Invariance, PTL DEF Spec, TaskNeverTerminates

-----------------------------------------------------------------------------
\* What the counters and the calendar stay within.
Bounded ==
  /\ today \in 0..MaxDay /\ edits \in 0..MaxEdits /\ crashes \in 0..MaxCrashes
  /\ task \in {"idle", "queued", "running"}

\* Every step keeps the counters and the calendar within their bounds.
LEMMA BoundsKept ==
  ASSUME Bounded, [Next]_vars
  PROVE  Bounded'
<1>1. MaxDay \in Nat /\ MaxEdits \in Nat /\ MaxCrashes \in Nat
  BY CalendarAssumption, LimitAssumption DEF CalendarAssumption, LimitAssumption
<1>2. ASSUME UNCHANGED <<today, edits, crashes, task>> PROVE Bounded'
  BY <1>2 DEF Bounded
<1>3. ASSUME NEW q \in Requests, WebStep(q) PROVE Bounded'
  BY <1>2, <1>3 DEF WebStep, Handle, Arrive, ReadRow, ReadModules, Fill, Leave, admin, nightly
<1>4. ASSUME NEW t \in Clients, Expire(t) \/ AdminCommit(t) \/ TaskRow(t) PROVE Bounded'
  BY <1>2, <1>4 DEF Expire, AdminCommit, TaskRow, admin, nightly
<1>5. ASSUME NEW t, NEW r, NEW m, AdminSave(t, r) \/ EditPlan(m) PROVE Bounded'
  BY <1>1, <1>5 DEF AdminSave, EditPlan, nightly, Bounded
<1>6. ASSUME NextDay PROVE Bounded'
  BY <1>1, <1>6 DEF NextDay, admin, Bounded
<1>7. ASSUME TaskStart \/ TaskEnd \/ Crash PROVE Bounded'
  BY <1>1, <1>7 DEF TaskStart, TaskEnd, Crash, admin, Bounded
<1>8. ASSUME AdminStep PROVE Bounded'
  BY <1>4, <1>5, <1>8 DEF AdminStep
<1>9. CASE UNCHANGED vars
  BY <1>2, <1>9 DEF vars, admin, nightly
<1>10. QED
  BY <1>3, <1>4, <1>6, <1>7, <1>8, <1>9 DEF Next, TaskStep

\* Rows, cached entries and what requests and the task have read keep their
\* shape, through lost workers and edits at any moment.
THEOREM EntriesWellFormed == Spec => []TypeOK
<1>1. Init => Bounded
  BY CalendarAssumption, LimitAssumption DEF CalendarAssumption, LimitAssumption, Init, Bounded
<1>2. Bounded /\ [Next]_vars => Bounded'
  BY BoundsKept
<1>3. IInv /\ Bounded => TypeOK
  <2> SUFFICES ASSUME Shape, Bounded PROVE TypeOK
    BY DEF IInv
  <2>1. \A q \in Requests :
          /\ req[q].modules \subseteq Modules
          /\ pc[q] \in {"miss", "modules", "fill"} => req[q].client \in Clients
          /\ pc[q] \in {"modules", "fill"} => req[q].status \in Statuses
    BY DEF Shape, WebShape, ReadBy, Reading
  <2>2. QED
    BY <2>1 DEF Shape, WebShape, Places, Bounded, TypeOK
<1>4. QED
  BY <1>1, <1>2, <1>3, Invariance, PTL DEF Spec
=============================================================================
