------------------------------ MODULE Schedule ------------------------------
(***************************************************************************)
(* The calendar of the cleaning teams: slot search, and the requests that  *)
(* place a booking (creation, admin quick creation, rescheduling by client *)
(* or staff, the dispatcher's override, the schedule board's move) or      *)
(* block a team's time.  A request reads and checks in one step and writes *)
(* and commits in a later one.  Creation and rescheduling hold the team    *)
(* row FOR UPDATE in between; the others hold nothing.  Time is counted in *)
(* units of the search grid (SLOT_STEP_MINUTES).                           *)
(***************************************************************************)
EXTENDS Integers, FiniteSets

CONSTANTS Teams,         \* teams of one organisation
          Bookings,      \* booking ids
          Requests,      \* concurrent requests
          Starts,        \* starting times that requests ask for
          Lengths,       \* durations that requests ask for
          Windows,       \* times that are closed or opened, with from and to
          BulkStatuses,  \* statuses written by the bulk endpoint
          DayLength,     \* units in 24 hours
          WorkStart,     \* start of the working day
          WorkEnd,       \* end of the working day
          Buffer,        \* BUFFER_MINUTES
          SomeTeam,      \* team of the place of a row that does not exist
          NoBooking

Blocking == {"PENDING", "CONFIRMED"}
Statuses == Blocking \cup {"DONE", "CANCELLED"}
Kinds == {"create", "quick", "reschedule", "override", "move", "block"}
LockedKinds == {"create", "reschedule", "override"}
CheckedKinds == {"create", "reschedule"}

ASSUME ScheduleAssumption ==
  /\ Starts \subseteq Nat /\ Lengths \subseteq Nat \ {0}
  /\ Windows \subseteq [from : Nat, to : Nat]
  /\ \A w \in Windows : w.from < w.to
  /\ BulkStatuses \subseteq Statuses
  /\ DayLength \in Nat \ {0} /\ {WorkStart, WorkEnd, Buffer} \subseteq Nat
  /\ SomeTeam \in Teams /\ NoBooking \notin Bookings

VARIABLES
  row,       \* bookings: status and place
  blackout,  \* team_blackouts of each team
  block,     \* availability and external calendar blocks that bind each team
  request,   \* what a running request has read and means to write
  loose,     \* history: bookings placed without the lock or over conflicts
  mixed      \* history: bookings placed from a stale read of their row

vars == <<row, blackout, block, request, loose, mixed>>

NoPlace == [team |-> SomeTeam, start |-> 0, len |-> 0]
Absent  == [status |-> "absent", place |-> NoPlace]
Gone    == [status |-> "gone", place |-> NoPlace]
Idle    == [pc |-> "idle", kind |-> "block", booking |-> NoBooking,
            seen |-> NoPlace, place |-> NoPlace]

Init ==
  /\ row = [b \in Bookings |-> Absent]
  /\ blackout = [t \in Teams |-> {}]
  /\ block = [t \in Teams |-> {}]
  /\ request = [r \in Requests |-> Idle]
  /\ loose = {} /\ mixed = {}

-----------------------------------------------------------------------------
(* Conflicts.                                                               *)

Exists(b) == row[b].status \notin {"absent", "gone"}
Active(b) == row[b].status \in Blocking

End(p) == p.start + p.len

\* Two places are of different teams or at least gap apart.
Apart(p, q, gap) ==
  p.team # q.team \/ End(p) + gap <= q.start \/ End(q) + gap <= p.start

Meets(p, w) == p.start < w.to /\ End(p) > w.from

NearWithoutBuffer(p, x, gap) ==
  {b \in Bookings \ {x} : Active(b) /\ ~Apart(p, row[b].place, 0)}

\* The active bookings, x excluded, that are closer than gap to place p.
Near(p, x, gap) == {b \in Bookings \ {x} : Active(b) /\ ~Apart(p, row[b].place, gap)}

Blocked(p) == \E w \in block[p.team] : Meets(p, w)
BlackedOut(p) == \E w \in blackout[p.team] : Meets(p, w)

InWorkingHours(p) ==
  LET midnight == (p.start \div DayLength) * DayLength
  IN  midnight + WorkStart <= p.start /\ End(p) <= midnight + WorkEnd

\* What the move checks: any hour of the day.
NoConflict(p, x) == Near(p, x, Buffer) = {} /\ ~BlackedOut(p) /\ ~Blocked(p)

\* is_slot_available: p starts in one of the slots generated for its day.
SlotAvailable(p, x) == InWorkingHours(p) /\ NoConflict(p, x)

\* The bookings in the way of blocking p: the query takes the window itself,
\* the comparison after it takes timedelta.seconds, which drops whole days.
InTheWay(p) ==
  Near(p, NoBooking, Buffer)
    \cap Near([p EXCEPT !.len = p.len % DayLength], NoBooking, Buffer)

FitsAnywhere(b, p) == TRUE

\* The exclusion constraint: booking b may lie at place p.
Fits(b, p) == Near(p, b, 0) = {}

Places == [team : Teams, start : Starts, len : Lengths]

-----------------------------------------------------------------------------
(* Reading and checking.                                                    *)

Holds(r, t) == /\ request[r].pc = "checked"
               /\ request[r].kind \in LockedKinds /\ request[r].place.team = t

NobodyWaits(t) == TRUE

TeamFree(t) == \A r \in Requests : ~Holds(r, t)

NewId(b) == row[b].status = "absent" /\ \A r \in Requests : request[r].booking # b

\* Request r enters pc, having read booking b and meaning to write place p.
Enter(r, pc, kind, b, seen, p) ==
  /\ request[r].pc = "idle"
  /\ request' = [request EXCEPT ![r] =
       [pc |-> pc, kind |-> kind, booking |-> b, seen |-> seen, place |-> p]]
  /\ UNCHANGED <<row, blackout, block, loose, mixed>>

\* POST /v1/bookings and every other caller of create_booking.
BeginCreate(r, b, p) ==
  /\ NewId(b) /\ TeamFree(p.team) /\ SlotAvailable(p, NoBooking)
  /\ Enter(r, "checked", "create", b, NoPlace, p)

\* The admin's quick creation checks the same slot and locks nothing.
BeginQuick(r, b, p) ==
  /\ NewId(b) /\ SlotAvailable(p, NoBooking)
  /\ Enter(r, "checked", "quick", b, NoPlace, p)

\* The route loads the booking before reschedule_booking locks its team.
Load(r, kind, b, s, d) ==
  /\ kind \in {"reschedule", "override"}
  /\ Exists(b) /\ row[b].status # "CANCELLED"
  /\ kind = "override" => row[b].status # "DONE"
  /\ Enter(r, "loaded", kind, b, row[b].place,
           [row[b].place EXCEPT !.start = s, !.len = d])

\* With override_conflicts only the blocks are looked at.
MayReschedule(q) ==
  /\ ~Blocked(q.place)
  /\ q.kind # "override" => SlotAvailable(q.place, q.booking)

LockAndCheck(r) ==
  /\ request[r].pc = "loaded" /\ TeamFree(request[r].place.team)
  /\ request' = [request EXCEPT ![r] =
       IF MayReschedule(request[r]) THEN [request[r] EXCEPT !.pc = "checked"] ELSE Idle]
  /\ UNCHANGED <<row, blackout, block, loose, mixed>>

BeginMove(r, b, p) ==
  /\ Exists(b) /\ NoConflict(p, b)
  /\ Enter(r, "checked", "move", b, row[b].place, p)

BeginBlock(r, t, w) ==
  LET p == [team |-> t, start |-> w.from, len |-> w.to - w.from] IN
  /\ InTheWay(p) = {} /\ ~BlackedOut(p)
  /\ Enter(r, "checked", "block", NoBooking, NoPlace, p)

-----------------------------------------------------------------------------
(* Writing and committing.                                                  *)

Release(r) == request' = [request EXCEPT ![r] = Idle]

InsertBooking(r) ==
  LET q == request[r] IN
  /\ q.pc = "checked" /\ q.kind \in {"create", "quick"}
  /\ Fits(q.booking, q.place)
  /\ row' = [row EXCEPT ![q.booking] = [status |-> "PENDING", place |-> q.place]]
  /\ loose' = IF q.kind = "quick" THEN loose \cup {q.booking} ELSE loose
  /\ Release(r) /\ UNCHANGED <<blackout, block, mixed>>

WrittenAlone(old, seen, new) == [c \in {x \in DOMAIN old : new[x] # seen[x]} |-> new[c]]

\* The ORM writes the columns that differ from what the request has read.
Written(old, seen, new) == [c \in DOMAIN old |-> IF new[c] = seen[c] THEN old[c] ELSE new[c]]

UpdateBooking(r) ==
  LET q == request[r]
      b == q.booking
      p == Written(row[b].place, q.seen, q.place)
  IN
  /\ q.pc = "checked" /\ q.kind \in {"reschedule", "override", "move"}
  /\ Exists(b)
  /\ Active(b) => Fits(b, p)
  /\ row' = [row EXCEPT ![b].place = p]
  /\ loose' = IF q.kind \in CheckedKinds THEN loose ELSE loose \cup {b}
  /\ mixed' = IF row[b].place = q.seen THEN mixed ELSE mixed \cup {b}
  /\ Release(r) /\ UNCHANGED <<blackout, block>>

InsertBlackout(r) ==
  LET p == request[r].place IN
  /\ request[r].pc = "checked" /\ request[r].kind = "block"
  /\ blackout' = [blackout EXCEPT ![p.team] = @ \cup {[from |-> p.start, to |-> End(p)]}]
  /\ Release(r) /\ UNCHANGED <<row, block, loose, mixed>>

\* A refusal by the database, a row that is gone, an error or a dead process.
Abort(r) ==
  /\ request[r].pc # "idle"
  /\ Release(r) /\ UNCHANGED <<row, blackout, block, loose, mixed>>

-----------------------------------------------------------------------------
(* The rest of the organisation.                                            *)

SetStatus(b, st) ==
  /\ row' = [row EXCEPT ![b].status = st]
  /\ UNCHANGED <<blackout, block, request, loose, mixed>>

Cancel(b) == Active(b) /\ SetStatus(b, "CANCELLED")
Confirm(b) == row[b].status = "PENDING" /\ SetStatus(b, "CONFIRMED")
Complete(b) == row[b].status = "CONFIRMED" /\ SetStatus(b, "DONE")

Cleanup(b) ==
  /\ row[b].status = "PENDING"
  /\ row' = [row EXCEPT ![b] = Gone]
  /\ UNCHANGED <<blackout, block, request, loose, mixed>>

\* bulk_update_bookings writes any team and status it is given.
Bulk(b, t, st) ==
  LET p == [row[b].place EXCEPT !.team = t] IN
  /\ Exists(b) /\ st \in BulkStatuses \cup {row[b].status}
  /\ st \in Blocking => Fits(b, p)
  /\ row' = [row EXCEPT ![b] = [status |-> st, place |-> p]]
  /\ loose' = loose \cup {b}
  /\ UNCHANGED <<blackout, block, request, mixed>>

\* A payment that arrives late makes a cancelled or completed booking active.
LatePayment(b) ==
  /\ row[b].status \in {"CANCELLED", "DONE"} /\ Fits(b, row[b].place)
  /\ row' = [row EXCEPT ![b].status = "CONFIRMED"]
  /\ loose' = loose \cup {b}
  /\ UNCHANGED <<blackout, block, request, mixed>>

\* create_block, update_block and the calendar import look at no bookings; a
\* block of the organisation binds every team.
Scopes == {{t} : t \in Teams} \cup {Teams}

ChangeBlocks(T, w) ==
  /\ \/ block' = [t \in Teams |-> IF t \in T THEN block[t] \cup {w} ELSE block[t]]
     \/ block' = [t \in Teams |-> IF t \in T THEN block[t] \ {w} ELSE block[t]]
  /\ UNCHANGED <<row, blackout, request, loose, mixed>>

Begin(r) ==
  \/ \E b \in Bookings, p \in Places :
       BeginCreate(r, b, p) \/ BeginQuick(r, b, p) \/ BeginMove(r, b, p)
  \/ \E b \in Bookings, s \in Starts, d \in Lengths, kind \in Kinds : Load(r, kind, b, s, d)
  \/ \E t \in Teams, w \in Windows : BeginBlock(r, t, w)

Finish(r) == InsertBooking(r) \/ UpdateBooking(r) \/ InsertBlackout(r) \/ Abort(r)

StatusChange(b) ==
  \/ Cancel(b) \/ Confirm(b) \/ LatePayment(b) \/ Complete(b) \/ Cleanup(b)
  \/ \E t \in Teams, st \in Statuses : Bulk(b, t, st)

Next ==
  \/ \E r \in Requests : Begin(r) \/ LockAndCheck(r) \/ Finish(r)
  \/ \E b \in Bookings : StatusChange(b)
  \/ \E T \in Scopes, w \in Windows : ChangeBlocks(T, w)

Spec == Init /\ [][Next]_vars

-----------------------------------------------------------------------------
(* Properties.                                                              *)

Intervals == [from : Nat, to : Nat]
PlaceType == [team : Teams, start : Nat, len : Nat]
RowType == [status : Statuses \cup {"absent", "gone"}, place : PlaceType]
RequestType == [pc : {"idle", "loaded", "checked"}, kind : Kinds,
                booking : Bookings \cup {NoBooking}, seen : PlaceType, place : PlaceType]

(* Rows, closed times and requests keep their types.                        *)
TypeOK ==
  /\ row \in [Bookings -> RowType]
  /\ blackout \in [Teams -> SUBSET Intervals]
  /\ block \in [Teams -> SUBSET Intervals]
  /\ request \in [Requests -> RequestType]
  /\ loose \subseteq Bookings /\ mixed \subseteq Bookings

(* The active bookings of set S are pairwise at least gap apart.            *)
Spread(S, gap) ==
  \A b, c \in S : b # c /\ Active(b) /\ Active(c) => Apart(row[b].place, row[c].place, gap)

(* The jobs of one team never overlap in time, whatever path placed them or *)
(* brought them back (bookings_team_time_no_overlap).                       *)
NoOverlap == Spread(Bookings, 0)

(* Jobs placed by creation and rescheduling keep the buffer between them:   *)
(* the team lock spans the search and the write.  Bookings that another     *)
(* path placed, or a request with a stale copy of the row, are excepted.    *)
BufferKept == Spread(Bookings \ (loose \cup mixed), Buffer)

(* A slot that a locked request found free stays free until its commit,     *)
(* unless a path without the lock takes it: creation and rescheduling do    *)
(* not run into the constraint on account of each other.                    *)
CheckedSlotHolds ==
  \A r \in Requests :
    request[r].pc = "checked" /\ request[r].kind \in CheckedKinds =>
      Near(request[r].place, request[r].booking, Buffer) \subseteq loose \cup mixed
=============================================================================
