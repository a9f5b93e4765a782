-------------------------- MODULE SubscriptionGate --------------------------
(***************************************************************************)
(* Who gets in: the Subscription row of each client, the cached state the  *)
(* middleware decides by, the superadmin who edits the row, and the nightly*)
(* task that moves its status along the calendar (apps/core).              *)
(*                                                                         *)
(* A cache miss is filled in four steps (cache.get, the row, its modules,  *)
(* cache.set) that any write may fall between.  The admin saves inside a   *)
(* transaction, so post_save deletes the cache entry before the row is     *)
(* committed.  The task reads all rows first and saves them one at a time. *)
(*                                                                         *)
(* Abstractions.  All clients are on one plan.  Of the TTL only that an    *)
(* entry expires is kept.  Days after MaxDay are alike: every end date and *)
(* grace period is over by then.                                           *)
(***************************************************************************)
EXTENDS Naturals, FiniteSets

CONSTANTS
  Clients,
  Modules,
  Requests,     \* requests the web workers serve at the same time
  Graces,       \* grace_period_days a superadmin may choose
  LastEnd,      \* the latest end_date in use
  MaxDay,       \* bound: the last day told apart
  MaxEdits,     \* bound: edits of the superadmin
  MaxCrashes,   \* bound: workers lost in the middle of the nightly task
  None

ASSUME SetsAssumption == /\ None \notin Modules
                         /\ Graces \subseteq Nat
ASSUME CalendarAssumption ==
  /\ MaxDay \in Nat /\ LastEnd \in Nat
  /\ \A g \in Graces : LastEnd + g < MaxDay
ASSUME LimitAssumption == MaxEdits \in Nat /\ MaxCrashes \in Nat

VARIABLES
  today,
  row,          \* committed Subscription rows, None while there is none
  plan,         \* modules of the PlanModule rows
  cache,        \* "subscription_state:<schema>" entries, None when absent
  saving,       \* the row an open admin transaction is about to commit
  edits,
  pc, req,      \* where each request is, and what it has read
  task,         \* "idle", "queued" or "running"
  batch,        \* rows the running task has read and not yet handled
  crashes

admin == <<saving, edits>>
web == <<pc, req>>
nightly == <<task, batch, crashes>>
vars == <<today, row, plan, cache, admin, web, nightly>>

Statuses == {"active", "grace_period", "suspended", "terminated"}
Row == [status : Statuses, end : 0..LastEnd, grace : Graces, extra : SUBSET Modules]
State == [status : Statuses, modules : SUBSET Modules]
ASSUME NoneAssumption == None \notin Row /\ None \notin State

is_access_allowed(status) == status \in {"active", "grace_period"}
active_modules(r) == plan \cup r.extra
\* Fault: the modules of the plan are listed whatever the status.
ungated_modules(status, modules) == modules
granted_modules(status, modules) == IF is_access_allowed(status) THEN modules ELSE {}

recompute_status(r) ==
  CASE r.status = "terminated"               -> "terminated"
    [] r.status # "terminated" /\ today <= r.end -> "active"
    [] r.status # "terminated" /\ today > r.end  ->
         IF today <= r.end + r.grace THEN "grace_period" ELSE "suspended"

-----------------------------------------------------------------------------
(***************************************************************************)
(* SubscriptionEnforcementMiddleware and get_subscription_state.           *)
(***************************************************************************)
NoRequest == [client |-> None, module |-> None, status |-> None, modules |-> {}, answer |-> None]

Answer(state, module) ==
  IF ~is_access_allowed(state.status) THEN "subscription_inactive"
  ELSE IF module \notin state.modules THEN "module_not_licensed" ELSE "served"

\* A request for a module arrives; on a cache hit it is answered at once.
Arrive(q, t, m) ==
  /\ pc[q] = "idle"
  /\ IF cache[t] # None
       THEN /\ req' = [req EXCEPT ![q] = [NoRequest EXCEPT !.answer = Answer(cache[t], m)]]
            /\ pc' = [pc EXCEPT ![q] = "answered"]
       ELSE /\ req' = [req EXCEPT ![q] = [NoRequest EXCEPT !.client = t, !.module = m]]
            /\ pc' = [pc EXCEPT ![q] = "miss"]
  /\ UNCHANGED <<today, row, plan, cache, admin, nightly>>

\* Fault: no row leaves the status unset.
ReadMissingRow(q) ==
  LET r == row[req[q].client]
  IN  /\ pc[q] = "miss"
      /\ req' = [req EXCEPT ![q].status = IF r = None THEN None ELSE r.status]
      /\ pc' = [pc EXCEPT ![q] = IF r = None THEN "fill" ELSE "modules"]
      /\ UNCHANGED <<today, row, plan, cache, admin, nightly>>
\* Subscription.objects.get(client=client); no row counts as suspended.
ReadRow(q) ==
  LET r == row[req[q].client]
  IN  /\ pc[q] = "miss"
      /\ IF r = None
           THEN /\ req' = [req EXCEPT ![q].status = "suspended"]
                /\ pc' = [pc EXCEPT ![q] = "fill"]
           ELSE /\ req' = [req EXCEPT ![q].status = r.status]
                /\ pc' = [pc EXCEPT ![q] = "modules"]
      /\ UNCHANGED <<today, row, plan, cache, admin, nightly>>

\* The plan's modules and the client's extra ones are further queries.
ReadModules(q) ==
  LET r    == row[req[q].client]
      read == IF r = None THEN plan ELSE active_modules(r)
  IN  /\ pc[q] = "modules"
      /\ req' = [req EXCEPT ![q].modules = granted_modules(req[q].status, read)]
      /\ pc' = [pc EXCEPT ![q] = "fill"]
      /\ UNCHANGED <<today, row, plan, cache, admin, nightly>>

Fill(q) ==
  LET state == [status |-> req[q].status, modules |-> req[q].modules]
  IN  /\ pc[q] = "fill"
      /\ cache' = [cache EXCEPT ![req[q].client] = state]
      /\ req' = [req EXCEPT ![q] = [NoRequest EXCEPT !.answer = Answer(state, req[q].module)]]
      /\ pc' = [pc EXCEPT ![q] = "answered"]
      /\ UNCHANGED <<today, row, plan, admin, nightly>>

Leave(q) ==
  /\ pc[q] = "answered"
  /\ pc' = [pc EXCEPT ![q] = "idle"]
  /\ req' = [req EXCEPT ![q] = NoRequest]
  /\ UNCHANGED <<today, row, plan, cache, admin, nightly>>

\* Fault: cache.set without a timeout.
NeverExpire(t) == FALSE /\ UNCHANGED vars
\* MODULE_PERMISSION_CACHE_TTL passes.
Expire(t) ==
  /\ cache[t] # None
  /\ cache' = [cache EXCEPT ![t] = None]
  /\ UNCHANGED <<today, row, plan, admin, web, nightly>>

-----------------------------------------------------------------------------
(***************************************************************************)
(* The superadmin.  The change form posts every field of the row, so what  *)
(* it writes may be any valid row, also one shown long before.             *)
(***************************************************************************)
\* The UPDATE waits for the row; its post_save signal drops the cache entry.
AdminSave(t, r) ==
  /\ edits < MaxEdits /\ saving[t] = None
  /\ r # row[t]
  /\ edits' = edits + 1
  /\ saving' = [saving EXCEPT ![t] = r]
  /\ cache' = [cache EXCEPT ![t] = None]
  /\ UNCHANGED <<today, row, plan, web, nightly>>

AdminCommit(t) ==
  /\ saving[t] # None
  /\ row' = [row EXCEPT ![t] = saving[t]]
  /\ saving' = [saving EXCEPT ![t] = None]
  /\ UNCHANGED <<today, plan, cache, edits, web, nightly>>

\* A PlanModule row is added or deleted: no signal is connected to it.
EditPlan(m) ==
  /\ edits < MaxEdits
  /\ edits' = edits + 1
  /\ plan' = IF m \in plan THEN plan \ {m} ELSE plan \cup {m}
  /\ UNCHANGED <<today, row, cache, saving, web, nightly>>

-----------------------------------------------------------------------------
(***************************************************************************)
(* recompute_all_subscription_statuses, queued by the beat every night.    *)
(***************************************************************************)
NextDay ==
  /\ task = "idle"
  /\ today' = IF today < MaxDay THEN today + 1 ELSE MaxDay
  /\ task' = "queued"
  /\ UNCHANGED <<row, plan, cache, admin, web, batch, crashes>>

\* The loop's query set is read to its end before the first save.
TaskStart ==
  /\ task = "queued"
  /\ task' = "running"
  /\ batch' = [t \in {c \in Clients : row[c] # None} |-> row[t]]
  /\ UNCHANGED <<today, row, plan, cache, admin, web, crashes>>

\* Fault: save() without update_fields writes the whole row that was read.
WriteBackRow(t, status) == [batch[t] EXCEPT !.status = status]
\* save(update_fields=["status", ...]) on the row as it is now.
WriteStatus(t, status) == [row[t] EXCEPT !.status = status]

\* Fault: the task looks at active subscriptions only.
OnlyActive(t) == batch[t].status = "active" /\ recompute_status(batch[t]) # "active"
\* Fault: every row is saved, whether its status moved or not.
SaveAlways(t) == TRUE
Changes(t) == recompute_status(batch[t]) # batch[t].status

\* One row of the loop: computed from what was read, saved when it differs.
\* The save is its own transaction and waits for an open admin transaction.
TaskRow(t) ==
  /\ task = "running" /\ t \in DOMAIN batch
  /\ batch' = [c \in DOMAIN batch \ {t} |-> batch[c]]
  /\ IF Changes(t)
       THEN /\ saving[t] = None
            /\ row' = [row EXCEPT ![t] = WriteStatus(t, recompute_status(batch[t]))]
            /\ cache' = [cache EXCEPT ![t] = None]
       ELSE UNCHANGED <<row, cache>>
  /\ UNCHANGED <<today, plan, admin, web, task, crashes>>

TaskEnd ==
  /\ task = "running" /\ DOMAIN batch = {}
  /\ task' = "idle"
  /\ UNCHANGED <<today, row, plan, cache, admin, web, batch, crashes>>

\* The worker is lost: the message was not acknowledged and is queued again.
Crash ==
  /\ task = "running" /\ crashes < MaxCrashes
  /\ task' = "queued" /\ batch' = <<>> /\ crashes' = crashes + 1
  /\ UNCHANGED <<today, row, plan, cache, admin, web>>

-----------------------------------------------------------------------------
Init ==
  /\ today = 0
  /\ row \in [Clients -> Row \cup {None}]
  /\ plan \in SUBSET Modules
  /\ cache = [t \in Clients |-> None]
  /\ saving = [t \in Clients |-> None]
  /\ edits = 0
  /\ pc = [q \in Requests |-> "idle"]
  /\ req = [q \in Requests |-> NoRequest]
  /\ task = "idle" /\ batch = <<>> /\ crashes = 0

Handle(q) == ReadRow(q) \/ ReadModules(q) \/ Fill(q)
WebStep(q) == (\E t \in Clients, m \in Modules : Arrive(q, t, m)) \/ Handle(q) \/ Leave(q)
AdminStep ==
  \/ \E t \in Clients : (\E r \in Row : AdminSave(t, r)) \/ AdminCommit(t)
  \/ \E m \in Modules : EditPlan(m)
TaskStep == TaskStart \/ TaskEnd \/ \E t \in Clients : TaskRow(t)

Next ==
  \/ \E q \in Requests : WebStep(q)
  \/ \E t \in Clients : Expire(t)
  \/ AdminStep \/ NextDay \/ TaskStep \/ Crash

Spec == Init /\ [][Next]_vars

\* A request once read is carried through, an entry's TTL runs out, an admin
\* transaction ends, a day passes, a queued task is picked up and carried on.
\* Nobody has to send a request, edit anything or crash.
Fairness ==
  /\ \A q \in Requests : WF_vars(Handle(q))
  /\ \A t \in Clients : WF_vars(Expire(t)) /\ WF_vars(AdminCommit(t))
  /\ WF_vars(NextDay) /\ WF_vars(TaskStep)
FairSpec == Spec /\ Fairness

-----------------------------------------------------------------------------
\* Rows, entries and requests have their declared shape; an admin transaction
\* is open on at most the rows it is about to write.
TypeOK ==
  /\ today \in 0..MaxDay
  /\ row \in [Clients -> Row \cup {None}]
  /\ plan \subseteq Modules
  /\ cache \in [Clients -> State \cup {None}]
  /\ saving \in [Clients -> Row \cup {None}]
  /\ edits \in 0..MaxEdits /\ crashes \in 0..MaxCrashes
  /\ pc \in [Requests -> {"idle", "miss", "modules", "fill", "answered"}]
  /\ DOMAIN req = Requests
  /\ \A q \in Requests :
       /\ req[q].modules \subseteq Modules
       /\ pc[q] \in {"miss", "modules", "fill"} => req[q].client \in Clients
       /\ pc[q] \in {"modules", "fill"} => req[q].status \in Statuses
  /\ task \in {"idle", "queued", "running"}
  /\ DOMAIN batch \subseteq Clients /\ \A t \in DOMAIN batch : batch[t] \in Row

\* "An unauthorized tenant has zero modules": an entry whose status does not
\* allow access grants none, even when row and modules were read apart.
ClosedMeansEmpty ==
  \A t \in Clients : cache[t] # None /\ ~is_access_allowed(cache[t].status)
                       => cache[t].modules = {}

TaskSaves(t) == task = "running" /\ t \in DOMAIN batch /\ t \notin DOMAIN batch' /\ task' = "running"

\* The task moves the status and nothing else: a renewal or a change of modules
\* committed after it read the rows survives its save.
TaskLeavesContract ==
  [][\A t \in Clients : TaskSaves(t) =>
       row'[t] # None /\ row[t] # None /\ row'[t] = [row[t] EXCEPT !.status = row'[t].status]]_vars

\* "This time-based function never auto-enters TERMINATED": the task ends no
\* contract, whatever it read.
TaskNeverTerminates ==
  [][\A t \in Clients : TaskSaves(t) /\ row'[t].status = "terminated" => row[t].status = "terminated"]_vars

Current(t) ==
  IF row[t] = None THEN [status |-> "suspended", modules |-> {}]
  ELSE [status |-> row[t].status, modules |-> granted_modules(row[t].status, active_modules(row[t]))]

\* Once nobody edits any more, stale entries do go away: from some time on
\* every entry and every answer is what row and plan say.
StaleStateExpires ==
  \A t \in Clients : <>[](cache[t] # None => cache[t] = Current(t))

\* The nightly task brings every status to what its dates say, for good,
\* through lost workers and saves it raced with.
StatusFollowsDates ==
  \A t \in Clients : <>[](row[t] # None => row[t].status = recompute_status(row[t]))
=============================================================================
