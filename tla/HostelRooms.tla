---------------------------- MODULE HostelRooms ----------------------------
(***************************************************************************)
(* Beds, waiting lists and repair tickets of a hostel (apps/hostel).       *)
(*                                                                         *)
(* allocate locks the room and commits later, so it takes two steps; so    *)
(* does vacate, which locks its allocation only and picks the next waiting *)
(* student before it commits.  add_to_waitlist looks at the room without a *)
(* lock, and editing a room writes back the whole row that was fetched.    *)
(*                                                                         *)
(* Abstractions.  Gender and branch rules are the constant Eligible.  No   *)
(* two rooms share a block, whose row the locking SELECT locks as well.  A *)
(* room under repair and a closed one are both not active.  The fees and   *)
(* the mess membership that come with a bed belong to other components.    *)
(***************************************************************************)
EXTENDS RequestSteps, Integers, Sequences, FiniteSets, FiniteSetsExt

CONSTANTS
  Students, Rooms,
  Eligible,     \* pairs <<student, room>> the gender and branch rules allow
  Capacities,   \* values of Room.capacity
  MaxTickets,   \* bound: open tickets of one room
  MaxEntries    \* bound: waiting-list entries ever made

ASSUME PeopleAssumption == IsFiniteSet(Students) /\ None \notin Rooms
ASSUME EligibleAssumption == Eligible \subseteq Students \X Rooms
ASSUME SizesAssumption ==
  Capacities \subseteq Nat /\ MaxTickets \in Nat /\ MaxEntries \in Nat

VARIABLES
  room,         \* room[r]: [capacity, active, deleted]
  bed,          \* bed[s]: the room of the student's open allocation, or None
  tickets,      \* tickets[r]: open maintenance tickets
  waitlist      \* Waitlist rows, oldest first

roomVars == <<room, bed, tickets, waitlist, pc, seen>>
tables == <<room, bed, tickets, waitlist>>

Room == [capacity : Capacities, active : BOOLEAN, deleted : BOOLEAN]

Occupants(r) == {s \in Students : bed[s] = r}
Full(r, capacity) == Cardinality(Occupants(r)) >= capacity
WaitingFor(r) == {i \in DOMAIN waitlist : waitlist[i].room = r /\ waitlist[i].status = "waiting"}
ActiveEntries(s, r) == {i \in DOMAIN waitlist :
  waitlist[i].student = s /\ waitlist[i].room = r /\ waitlist[i].status \in {"waiting", "offered"}}

NoTxn == [student |-> None, room |-> None, next |-> None, row |-> None]
Finish(p) == Goes(p, "idle", NoTxn)

\* Fault: allocate reads the room without FOR UPDATE.
NoLock(p, r) == TRUE
RoomFree(p, r) == \A q \in Requests \ {p} : ~(pc[q] = "allocating" /\ seen[q].room = r)

-----------------------------------------------------------------------------
\* Every check of allocate, made under the lock of the room.
AllocateLock(p, s, r) ==
  /\ pc[p] = "idle"
  /\ RoomFree(p, r)
  /\ ~room[r].deleted /\ room[r].active /\ tickets[r] = 0
  /\ ~Full(r, room[r].capacity)
  /\ <<s, r>> \in Eligible
  /\ bed[s] = None
  /\ Goes(p, "allocating", [NoTxn EXCEPT !.student = s, !.room = r])
  /\ UNCHANGED tables

\* hostel_one_active_allocation_per_student refuses a second open allocation;
\* the student's own entry for this room is fulfilled.
AllocateCommit(p) ==
  LET s == seen[p].student
      r == seen[p].room
  IN  /\ pc[p] = "allocating"
      /\ bed[s] = None
      /\ bed' = [bed EXCEPT ![s] = r]
      /\ waitlist' = [i \in DOMAIN waitlist |->
           IF i \in ActiveEntries(s, r) THEN [waitlist[i] EXCEPT !.status = "fulfilled"]
                                        ELSE waitlist[i]]
      /\ Finish(p)
      /\ UNCHANGED <<room, tickets>>

\* Fault: the bed is offered to the student who came last.
NewestWaiting(r) == IF WaitingFor(r) = {} THEN None ELSE Max(WaitingFor(r))
NextWaiting(r) == IF WaitingFor(r) = {} THEN None ELSE Min(WaitingFor(r))

\* Locks the allocation, not the room, and reads the oldest waiting entry.
VacateLock(p, s) ==
  /\ pc[p] = "idle"
  /\ bed[s] # None
  /\ \A q \in Requests : ~(pc[q] = "vacating" /\ seen[q].student = s)
  /\ Goes(p, "vacating", [NoTxn EXCEPT !.student = s, !.room = bed[s], !.next = NextWaiting(bed[s])])
  /\ UNCHANGED tables

\* The entry was cancelled and its student has joined again meanwhile: the
\* offer breaks hostel_one_active_waitlist_entry_per_student_room.
OfferClash(i) ==
  i # None /\ ActiveEntries(waitlist[i].student, waitlist[i].room) \ {i} # {}
VacateCommit(p) ==
  LET s == seen[p].student
      i == seen[p].next
  IN  /\ pc[p] = "vacating" /\ ~OfferClash(i)        \* otherwise it aborts
      /\ bed' = [bed EXCEPT ![s] = None]
      /\ waitlist' = IF i = None THEN waitlist ELSE [waitlist EXCEPT ![i].status = "offered"]
      /\ Finish(p)
      /\ UNCHANGED <<room, tickets>>

-----------------------------------------------------------------------------
\* No bed to allocate directly, by the room row that the view fetched.
NoFreeBed(row, r) == Full(r, row.capacity) \/ ~row.active \/ tickets[r] > 0

WaitCheck(p, s, r) ==
  /\ pc[p] = "idle"
  /\ ~room[r].deleted /\ NoFreeBed(room[r], r)
  /\ ActiveEntries(s, r) = {}
  /\ Goes(p, "waiting", [NoTxn EXCEPT !.student = s, !.room = r])
  /\ UNCHANGED tables

\* The INSERT, refused when the student has an active entry by now.
WaitCommit(p) ==
  LET t == seen[p]
  IN  /\ pc[p] = "waiting"
      /\ IF ActiveEntries(t.student, t.room) = {}
           THEN /\ Len(waitlist) < MaxEntries
                /\ waitlist' = Append(waitlist, [student |-> t.student, room |-> t.room, status |-> "waiting"])
           ELSE UNCHANGED waitlist
      /\ Finish(p)
      /\ UNCHANGED <<room, bed, tickets>>

CancelEntry(p, i) ==
  /\ pc[p] = "idle"
  /\ waitlist[i].status # "cancelled"
  /\ waitlist' = [waitlist EXCEPT ![i].status = "cancelled"]
  /\ UNCHANGED <<room, bed, tickets, pc, seen>>

-----------------------------------------------------------------------------
OpenTicket(r) ==
  /\ tickets[r] < MaxTickets
  /\ tickets' = [tickets EXCEPT ![r] = tickets[r] + 1]
  /\ UNCHANGED <<room, bed, waitlist, pc, seen>>
CloseTicket(r) ==
  /\ tickets[r] > 0
  /\ tickets' = [tickets EXCEPT ![r] = tickets[r] - 1]
  /\ UNCHANGED <<room, bed, waitlist, pc, seen>>

FetchRoom(p, r) ==
  /\ pc[p] = "idle" /\ ~room[r].deleted
  /\ Goes(p, "edit", [NoTxn EXCEPT !.room = r, !.row = room[r]])
  /\ UNCHANGED tables

\* PATCH of capacity or status: the whole fetched row is saved, and a deletion
\* that happened meanwhile is undone.  The UPDATE waits for allocate's lock.
EditRoom(p, capacity, active) ==
  LET r == seen[p].room
  IN  /\ pc[p] = "edit" /\ RoomFree(p, r)
      /\ room' = [room EXCEPT ![r] = [seen[p].row EXCEPT !.capacity = capacity, !.active = active]]
      /\ Finish(p)
      /\ UNCHANGED <<bed, tickets, waitlist>>

DeleteRoom(p, r) ==
  /\ pc[p] = "idle" /\ ~room[r].deleted /\ RoomFree(p, r)
  /\ room' = [room EXCEPT ![r].deleted = TRUE]
  /\ UNCHANGED <<bed, tickets, waitlist, pc, seen>>

Abort(p) == pc[p] # "idle" /\ Finish(p) /\ UNCHANGED tables

-----------------------------------------------------------------------------
RoomsInit ==
  /\ room \in [Rooms -> {x \in Room : x.active /\ ~x.deleted}]
  /\ bed = [s \in Students |-> None]
  /\ tickets = [r \in Rooms |-> 0]
  /\ waitlist = <<>>
  /\ pc = [p \in Requests |-> "idle"]
  /\ seen = [p \in Requests |-> NoTxn]

BedStep(p) ==
  \/ \E s \in Students, r \in Rooms : AllocateLock(p, s, r)
  \/ AllocateCommit(p)
  \/ \E s \in Students : VacateLock(p, s)
  \/ VacateCommit(p)
WaitStep(p) ==
  \/ \E s \in Students, r \in Rooms : WaitCheck(p, s, r)
  \/ WaitCommit(p)
  \/ \E i \in DOMAIN waitlist : CancelEntry(p, i)
RoomStep(p) ==
  \/ \E r \in Rooms : FetchRoom(p, r) \/ DeleteRoom(p, r)
  \/ \E c \in Capacities, a \in BOOLEAN : EditRoom(p, c, a)
RoomsNext ==
  \/ \E p \in Requests : BedStep(p) \/ WaitStep(p) \/ RoomStep(p) \/ Abort(p)
  \/ \E r \in Rooms : OpenTicket(r) \/ CloseTicket(r)

RoomsSpec == RoomsInit /\ [][RoomsNext]_roomVars

-----------------------------------------------------------------------------
Entry == [student : Students, room : Rooms,
          status : {"waiting", "offered", "fulfilled", "cancelled"}]
Steps == {"idle", "allocating", "vacating", "waiting", "edit"}

\* Rows have their declared shape; every open transaction is about a room, and
\* all but an edit about a student.
TypeOK ==
  /\ room \in [Rooms -> Room]
  /\ bed \in [Students -> Rooms \cup {None}]
  /\ tickets \in [Rooms -> Nat]
  /\ waitlist \in Seq(Entry)
  /\ pc \in [Requests -> Steps]
  /\ DOMAIN seen = Requests
  /\ \A p \in Requests :
       /\ pc[p] # "idle" => seen[p].room \in Rooms
       /\ pc[p] \notin {"idle", "edit"} => seen[p].student \in Students
       /\ pc[p] = "edit" => seen[p].row \in Room
       /\ pc[p] = "vacating" => seen[p].next \in DOMAIN waitlist \cup {None}

MovesIn(s, r) == bed[s] # r /\ bed'[s] = r

\* Concurrent allocations cannot exceed the capacity: whenever a student moves
\* in, the room holds at most as many as its capacity at that moment.
AllocatedWithinCapacity ==
  [][\A s \in Students, r \in Rooms : MovesIn(s, r) =>
       Cardinality(Occupants(r)') <= room[r].capacity]_roomVars

\* The bed is offered to the first waiting student: no entry is offered while
\* an older one still waits.
OldestWaiterFirst ==
  [][\A i \in DOMAIN waitlist : waitlist[i].status # "offered" /\ waitlist'[i].status = "offered" =>
       \A j \in WaitingFor(waitlist[i].room) : i <= j]_roomVars
=============================================================================
