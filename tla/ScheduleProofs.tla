--------------------------- MODULE ScheduleProofs ---------------------------
(***************************************************************************)
(* Proofs about Schedule, for any teams, bookings, requests, starting      *)
(* times, durations, closed times, working hours and buffer.               *)
(***************************************************************************)
EXTENDS Schedule, TLAPS

(* No two requests hold the lock of one team.                               *)
LockInv ==
  \A q, r \in Requests : \A t \in Teams : q # r => ~(Holds(q, t) /\ Holds(r, t))

(* Every request but the blocking one is about a booking.                   *)
BookingInv ==
  \A r \in Requests :
    request[r].pc # "idle" /\ request[r].kind # "block" => request[r].booking \in Bookings

Inv == TypeOK /\ LockInv /\ BookingInv /\ NoOverlap /\ BufferKept /\ CheckedSlotHolds

-----------------------------------------------------------------------------
(* Distance between places.                                                 *)

LEMMA ApartSymmetric ==
  ASSUME NEW p, NEW q, NEW gap, Apart(p, q, gap)
  PROVE  Apart(q, p, gap)
BY DEF Apart

(* Writing one row keeps a set of bookings spread if the row ends up        *)
(* inactive or apart from the others of the set.                            *)
LEMMA SpreadStep ==
  ASSUME NEW b \in Bookings, NEW S, NEW T \in SUBSET Bookings, NEW gap, NEW new,
         row \in [Bookings -> RowType],
         row' = [row EXCEPT ![b] = new],
         T \ {b} \subseteq S,
         Spread(S, gap),
         b \in T /\ new.status \in Blocking =>
           \A c \in T \ {b} : Active(c) => Apart(new.place, row[c].place, gap)
  PROVE  \A x, y \in T :
           /\ x # y
           /\ row'[x].status \in Blocking /\ row'[y].status \in Blocking
           => Apart(row'[x].place, row'[y].place, gap)
<1> TAKE x, y \in T
<1> HAVE x # y /\ row'[x].status \in Blocking /\ row'[y].status \in Blocking
<1>1. CASE x = b
  BY <1>1 DEF Active
<1>2. CASE y = b
  <2>1. row'[y] = new /\ row'[x] = row[x]
    BY <1>2
  <2>2. Apart(new.place, row[x].place, gap)
    BY <1>2, <2>1 DEF Active
  <2> QED BY <2>1, <2>2, ApartSymmetric
<1>3. CASE x # b /\ y # b
  BY <1>3 DEF Spread, Active
<1> QED BY <1>1, <1>2, <1>3

(* A row that keeps its place and does not become active changes no         *)
(* distance.                                                                *)
LEMMA SpreadShrinks ==
  ASSUME NEW S, NEW T \in SUBSET S, NEW gap,
         Spread(S, gap),
         \A c \in T : Active(c)' => Active(c) /\ row'[c].place = row[c].place
  PROVE  \A x, y \in T :
           x # y /\ Active(x)' /\ Active(y)' => Apart(row'[x].place, row'[y].place, gap)
BY DEF Spread, Active

-----------------------------------------------------------------------------
(* Types.                                                                   *)

LEMMA PlaceTypes ==
  /\ NoPlace \in PlaceType /\ Places \subseteq PlaceType
  /\ Absent \in RowType /\ Gone \in RowType /\ Idle \in RequestType
BY ScheduleAssumption
   DEF NoPlace, Places, PlaceType, Absent, Gone, RowType, Idle, RequestType,
       Statuses, Blocking, Kinds

(* Each column of a written place is the row's or the writer's.             *)
LEMMA WrittenType ==
  ASSUME NEW old \in PlaceType, NEW seen \in PlaceType, NEW new \in PlaceType
  PROVE  /\ Written(old, seen, new) \in PlaceType
         /\ old = seen => Written(old, seen, new) = new
<1> DEFINE W == Written(old, seen, new)
<1>1. DOMAIN old = {"team", "start", "len"} /\ DOMAIN new = {"team", "start", "len"}
  BY DEF PlaceType
<1>2. W = [c \in {"team", "start", "len"} |-> IF new[c] = seen[c] THEN old[c] ELSE new[c]]
  BY <1>1 DEF Written
<1>3. W = [team |-> W.team, start |-> W.start, len |-> W.len]
  BY <1>2
<1>4. W.team \in Teams /\ W.start \in Nat /\ W.len \in Nat
  BY <1>2 DEF PlaceType
<1>5. W \in PlaceType
  BY <1>3, <1>4 DEF PlaceType
<1>6. ASSUME old = seen PROVE W = new
  <2>1. \A c \in {"team", "start", "len"} : W[c] = new[c]
    BY <1>2, <1>6
  <2>2. new = [team |-> new.team, start |-> new.start, len |-> new.len]
    BY DEF PlaceType
  <2> QED BY <1>3, <2>1, <2>2
<1> QED BY <1>5, <1>6

LEMMA InitType == Init => TypeOK
BY PlaceTypes DEF Init, TypeOK

(* Entering a request with a typed record is all that Begin does.           *)
LEMMA EnterType ==
  ASSUME TypeOK, NEW r \in Requests, NEW pc \in {"idle", "loaded", "checked"},
         NEW kind \in Kinds, NEW b \in Bookings \cup {NoBooking},
         NEW seen \in PlaceType, NEW p \in PlaceType,
         Enter(r, pc, kind, b, seen, p)
  PROVE  /\ request' \in [Requests -> RequestType]
         /\ request'[r] = [pc |-> pc, kind |-> kind, booking |-> b, seen |-> seen, place |-> p]
         /\ \A q \in Requests \ {r} : request'[q] = request[q]
         /\ UNCHANGED <<row, blackout, block, loose, mixed>>
<1> DEFINE new == [pc |-> pc, kind |-> kind, booking |-> b, seen |-> seen, place |-> p]
<1>1. new \in RequestType
  BY DEF RequestType
<1>2. request' = [request EXCEPT ![r] = new]
  BY DEF Enter
<1> HIDE DEF new
<1>3. /\ request' \in [Requests -> RequestType] /\ request'[r] = new
      /\ \A q \in Requests \ {r} : request'[q] = request[q]
  BY <1>1, <1>2 DEF TypeOK
<1> QED BY <1>3 DEF Enter, new

-----------------------------------------------------------------------------
(* Steps that write no booking: reading, checking, blocking, giving up.     *)

ReadStep(r) ==
  LET q == request'[r] IN
  /\ request' \in [Requests -> RequestType]
  /\ \A o \in Requests \ {r} : request'[o] = request[o]
  /\ q.pc = "checked" /\ q.kind \in LockedKinds => TeamFree(q.place.team)
  /\ q.pc = "checked" /\ q.kind \in CheckedKinds => Near(q.place, q.booking, Buffer) = {}
  /\ q.pc # "idle" /\ q.kind # "block" => q.booking \in Bookings
  /\ blackout' \in [Teams -> SUBSET Intervals]
  /\ block' \in [Teams -> SUBSET Intervals]
  /\ UNCHANGED <<row, loose, mixed>>

(* What CheckedSlotHolds says of the next state, booking by booking.        *)
LEMMA SlotHoldsNext ==
  ASSUME \A q \in Requests : \A c \in Bookings \ {request'[q].booking} :
           /\ request'[q].pc = "checked" /\ request'[q].kind \in CheckedKinds
           /\ row'[c].status \in Blocking
           /\ ~Apart(request'[q].place, row'[c].place, Buffer)
           => c \in loose' \cup mixed'
  PROVE  CheckedSlotHolds'
BY DEF CheckedSlotHolds, Near, Active

LEMMA ReadKeeps ==
  ASSUME Inv, NEW r \in Requests, ReadStep(r)
  PROVE  Inv'
<1>1. TypeOK'
  BY DEF Inv, TypeOK, ReadStep
<1>2. LockInv'
  <2> SUFFICES ASSUME NEW q \in Requests, NEW o \in Requests, NEW t \in Teams, q # o,
                      Holds(q, t)', Holds(o, t)'
               PROVE  FALSE
    BY DEF LockInv
  <2>1. CASE q # r /\ o # r
    BY <2>1 DEF ReadStep, Holds, Inv, LockInv
  <2>2. CASE q = r
    BY <2>2 DEF ReadStep, Holds, TeamFree
  <2>3. CASE o = r
    BY <2>3 DEF ReadStep, Holds, TeamFree
  <2> QED BY <2>1, <2>2, <2>3
<1>3. NoOverlap' /\ BufferKept'
  BY DEF Inv, ReadStep, NoOverlap, BufferKept, Spread, Active
<1>4. CheckedSlotHolds'
  <2> SUFFICES ASSUME NEW q \in Requests, NEW c \in Bookings \ {request'[q].booking},
                      request'[q].pc = "checked", request'[q].kind \in CheckedKinds,
                      row'[c].status \in Blocking,
                      ~Apart(request'[q].place, row'[c].place, Buffer)
               PROVE  c \in loose' \cup mixed'
    BY SlotHoldsNext
  <2>1. c \in Near(request'[q].place, request'[q].booking, Buffer)
    BY DEF Near, Active, ReadStep
  <2>2. CASE q = r
    BY <2>1, <2>2 DEF ReadStep
  <2>3. CASE q # r
    BY <2>1, <2>3 DEF ReadStep, Inv, CheckedSlotHolds
  <2> QED BY <2>2, <2>3
<1>5. BookingInv'
  BY DEF BookingInv, ReadStep, Inv
<1> QED BY <1>1, <1>2, <1>3, <1>4, <1>5 DEF Inv

LEMMA NearOfNew ==
  ASSUME NEW p, NEW b \in Bookings, Near(p, NoBooking, Buffer) = {}
  PROVE  Near(p, b, Buffer) = {}
BY ScheduleAssumption DEF Near

LEMMA EnterReads ==
  ASSUME Inv, NEW r \in Requests, NEW pc \in {"idle", "loaded", "checked"},
         NEW kind \in Kinds, NEW b \in Bookings \cup {NoBooking},
         NEW seen \in PlaceType, NEW p \in PlaceType,
         Enter(r, pc, kind, b, seen, p),
         pc = "checked" /\ kind \in LockedKinds => TeamFree(p.team),
         pc = "checked" /\ kind \in CheckedKinds => Near(p, b, Buffer) = {},
         kind # "block" => b \in Bookings
  PROVE  ReadStep(r)
<1>1. TypeOK
  BY DEF Inv
<1>2. /\ request' \in [Requests -> RequestType]
      /\ \A q \in Requests \ {r} : request'[q] = request[q]
      /\ UNCHANGED <<row, blackout, block, loose, mixed>>
      /\ request'[r] = [pc |-> pc, kind |-> kind, booking |-> b, seen |-> seen, place |-> p]
  BY <1>1, EnterType
<1>3. /\ request'[r].pc = pc /\ request'[r].kind = kind
      /\ request'[r].booking = b /\ request'[r].place = p
  BY <1>2
<1> QED BY <1>1, <1>2, <1>3 DEF ReadStep, TypeOK

LEMMA BeginKeeps ==
  ASSUME Inv, NEW r \in Requests, Begin(r)
  PROVE  Inv'
<1>1. ASSUME NEW b \in Bookings, NEW p \in Places, BeginCreate(r, b, p)
      PROVE  ReadStep(r)
  <2>1. Near(p, b, Buffer) = {}
    BY <1>1, NearOfNew DEF BeginCreate, SlotAvailable, NoConflict
  <2>2. TeamFree(p.team) /\ Enter(r, "checked", "create", b, NoPlace, p)
    BY <1>1 DEF BeginCreate
  <2>3. p \in PlaceType /\ NoPlace \in PlaceType
    BY PlaceTypes
  <2> QED BY <2>1, <2>2, <2>3, EnterReads DEF Kinds
<1>2. ASSUME NEW b \in Bookings, NEW p \in Places, BeginQuick(r, b, p)
      PROVE  ReadStep(r)
  <2>1. p \in PlaceType /\ NoPlace \in PlaceType
    BY PlaceTypes
  <2> QED BY <1>2, <2>1, EnterReads DEF BeginQuick, Kinds, LockedKinds, CheckedKinds
<1>3. ASSUME NEW b \in Bookings, NEW p \in Places, BeginMove(r, b, p)
      PROVE  ReadStep(r)
  <2>1. p \in PlaceType /\ row[b].place \in PlaceType
    BY PlaceTypes DEF Inv, TypeOK, RowType
  <2> QED BY <1>3, <2>1, EnterReads DEF BeginMove, Kinds, LockedKinds, CheckedKinds
<1>4. ASSUME NEW b \in Bookings, NEW s \in Starts, NEW d \in Lengths, NEW kind \in Kinds,
             Load(r, kind, b, s, d)
      PROVE  ReadStep(r)
  <2> DEFINE p == [row[b].place EXCEPT !.start = s, !.len = d]
  <2>1. row[b].place \in PlaceType
    BY DEF Inv, TypeOK, RowType
  <2>2. p \in PlaceType
    BY <2>1, ScheduleAssumption DEF PlaceType
  <2>3. Enter(r, "loaded", kind, b, row[b].place, p)
    BY <1>4 DEF Load
  <2> HIDE DEF p
  <2> QED BY <2>1, <2>2, <2>3, EnterReads
<1>5. ASSUME NEW t \in Teams, NEW w \in Windows, BeginBlock(r, t, w)
      PROVE  ReadStep(r)
  <2> DEFINE p == [team |-> t, start |-> w.from, len |-> w.to - w.from]
  <2>1. p \in PlaceType
    BY ScheduleAssumption DEF PlaceType
  <2>2. Enter(r, "checked", "block", NoBooking, NoPlace, p) /\ NoPlace \in PlaceType
    BY <1>5, PlaceTypes DEF BeginBlock
  <2> HIDE DEF p
  <2> QED BY <2>1, <2>2, EnterReads DEF Kinds, LockedKinds, CheckedKinds
<1> QED BY <1>1, <1>2, <1>3, <1>4, <1>5, ReadKeeps DEF Begin

LEMMA LockAndCheckKeeps ==
  ASSUME Inv, NEW r \in Requests, LockAndCheck(r)
  PROVE  Inv'
<1> DEFINE q == request[r]
           new == IF MayReschedule(q) THEN [q EXCEPT !.pc = "checked"] ELSE Idle
<1>1. q \in RequestType
  BY DEF Inv, TypeOK
<1>2. /\ [q EXCEPT !.pc = "checked"] \in RequestType
      /\ [q EXCEPT !.pc = "checked"].kind = q.kind
      /\ [q EXCEPT !.pc = "checked"].place = q.place
      /\ [q EXCEPT !.pc = "checked"].booking = q.booking
  BY <1>1 DEF RequestType
<1>3. /\ request' = [request EXCEPT ![r] = new] /\ TeamFree(q.place.team)
      /\ UNCHANGED <<row, blackout, block, loose, mixed>>
  BY DEF LockAndCheck
<1>4. /\ new \in RequestType
      /\ new.pc = "checked" =>
           /\ MayReschedule(q)
           /\ new.kind = q.kind /\ new.place = q.place /\ new.booking = q.booking
  BY <1>2, PlaceTypes DEF Idle
<1>5. new.pc = "checked" /\ new.kind \in CheckedKinds => Near(new.place, new.booking, Buffer) = {}
  BY <1>4 DEF MayReschedule, SlotAvailable, NoConflict, CheckedKinds
<1> HIDE DEF new
<1>6. /\ request' \in [Requests -> RequestType] /\ request'[r] = new
      /\ \A o \in Requests \ {r} : request'[o] = request[o]
  BY <1>3, <1>4 DEF Inv, TypeOK
<1>7. new.pc # "idle" /\ new.kind # "block" => new.booking \in Bookings
  BY <1>2 DEF new, LockAndCheck, Inv, BookingInv, Idle
<1> QED BY <1>3, <1>4, <1>5, <1>6, <1>7, ReadKeeps DEF ReadStep, Inv, TypeOK

-----------------------------------------------------------------------------
(* Steps that write one booking.                                            *)

WriteStep(b, new) ==
  /\ row' = [row EXCEPT ![b] = new] /\ new \in RowType
  /\ request' \in [Requests -> RequestType]
  /\ \A o \in Requests : request'[o] = request[o] \/ request'[o] = Idle
  /\ loose \subseteq loose' /\ loose' \subseteq Bookings
  /\ mixed \subseteq mixed' /\ mixed' \subseteq Bookings
  /\ UNCHANGED <<blackout, block>>

\* Where a row that is written as active may lie.
WellPlaced(b, new) ==
  /\ \A c \in Bookings \ {b} : Active(c) => Apart(new.place, row[c].place, 0)
  /\ b \notin loose' \cup mixed' =>
       /\ \A c \in Bookings \ ({b} \cup loose \cup mixed) :
            Active(c) => Apart(new.place, row[c].place, Buffer)
       /\ \A q \in Requests :
            /\ request'[q].pc = "checked" /\ request'[q].kind \in CheckedKinds
            /\ request'[q].booking # b
            => Apart(request'[q].place, new.place, Buffer)

LEMMA WriteKeeps ==
  ASSUME Inv, NEW b \in Bookings, NEW new, WriteStep(b, new),
         new.status \in Blocking => WellPlaced(b, new)
  PROVE  Inv'
<1>1. TypeOK'
  <2>1. row' \in [Bookings -> RowType]
    BY DEF WriteStep, Inv, TypeOK
  <2> QED BY <2>1 DEF WriteStep, Inv, TypeOK
<1>2. LockInv'
  <2> SUFFICES ASSUME NEW q \in Requests, NEW o \in Requests, NEW t \in Teams, q # o,
                      Holds(q, t)', Holds(o, t)'
               PROVE  FALSE
    BY DEF LockInv
  <2>1. request'[q] = request[q] /\ request'[o] = request[o]
    BY DEF WriteStep, Holds, Idle
  <2> QED BY <2>1 DEF Holds, Inv, LockInv
<1>3. NoOverlap'
  <2>1. Spread(Bookings, 0) /\ row \in [Bookings -> RowType]
    BY DEF Inv, NoOverlap, TypeOK
  <2>2. b \in Bookings /\ new.status \in Blocking =>
          \A c \in Bookings \ {b} : Active(c) => Apart(new.place, row[c].place, 0)
    BY DEF WellPlaced
  <2>3. \A x, y \in Bookings :
          x # y /\ row'[x].status \in Blocking /\ row'[y].status \in Blocking
            => Apart(row'[x].place, row'[y].place, 0)
    BY <2>1, <2>2, SpreadStep DEF WriteStep
  <2> QED BY <2>3 DEF NoOverlap, Spread, Active
<1>4. BufferKept'
  <2> DEFINE S == Bookings \ (loose \cup mixed)
             T == Bookings \ (loose' \cup mixed')
  <2>1. Spread(S, Buffer) /\ row \in [Bookings -> RowType]
    BY DEF Inv, BufferKept, TypeOK
  <2>2. T \in SUBSET Bookings /\ T \ {b} \subseteq S
    BY DEF WriteStep
  <2>3. b \in T /\ new.status \in Blocking =>
          \A c \in T \ {b} : Active(c) => Apart(new.place, row[c].place, Buffer)
    BY DEF WellPlaced, WriteStep
  <2>4. row' = [row EXCEPT ![b] = new]
    BY DEF WriteStep
  <2> HIDE DEF S, T
  <2>5. \A x, y \in T :
          x # y /\ row'[x].status \in Blocking /\ row'[y].status \in Blocking
            => Apart(row'[x].place, row'[y].place, Buffer)
    BY <2>1, <2>2, <2>3, <2>4, SpreadStep
  <2> QED BY <2>5 DEF BufferKept, Spread, Active, T
<1>5. CheckedSlotHolds'
  <2> SUFFICES ASSUME NEW q \in Requests, NEW c \in Bookings \ {request'[q].booking},
                      request'[q].pc = "checked", request'[q].kind \in CheckedKinds,
                      row'[c].status \in Blocking,
                      ~Apart(request'[q].place, row'[c].place, Buffer)
               PROVE  c \in loose' \cup mixed'
    BY SlotHoldsNext
  <2>1. request'[q] = request[q]
    BY DEF WriteStep, Idle
  <2>2. CASE c = b
    <3>1. row'[c] = new
      BY <2>2 DEF WriteStep, Inv, TypeOK
    <3> QED BY <2>2, <3>1 DEF WellPlaced
  <2>3. CASE c # b
    <3>1. row'[c] = row[c]
      BY <2>3 DEF WriteStep, Inv, TypeOK
    <3>2. c \in Near(request[q].place, request[q].booking, Buffer)
      BY <2>1, <3>1 DEF Near, Active
    <3>3. c \in loose \cup mixed
      BY <2>1, <3>2 DEF Inv, CheckedSlotHolds
    <3> QED BY <3>3 DEF WriteStep
  <2> QED BY <2>2, <2>3
<1>6. BookingInv'
  BY DEF BookingInv, WriteStep, Inv, Idle
<1> QED BY <1>1, <1>2, <1>3, <1>4, <1>5, <1>6 DEF Inv

\* A row that stays where it is stays well placed.
LEMMA StaysPlaced ==
  ASSUME Inv, NEW b \in Bookings, NEW new, WriteStep(b, new),
         Active(b), new.place = row[b].place
  PROVE  WellPlaced(b, new)
<1>1. \A c \in Bookings \ {b} : Active(c) => Apart(new.place, row[c].place, 0)
  BY DEF Inv, NoOverlap, Spread
<1>2. ASSUME b \notin loose' \cup mixed', NEW c \in Bookings \ ({b} \cup loose \cup mixed),
             Active(c)
      PROVE  Apart(new.place, row[c].place, Buffer)
  BY <1>2 DEF Inv, BufferKept, Spread, WriteStep
<1>3. ASSUME b \notin loose' \cup mixed', NEW q \in Requests,
             request'[q].pc = "checked", request'[q].kind \in CheckedKinds,
             request'[q].booking # b
      PROVE  Apart(request'[q].place, new.place, Buffer)
  <2>1. request'[q] = request[q]
    BY <1>3 DEF WriteStep, Idle
  <2>2. b \notin Near(request[q].place, request[q].booking, Buffer)
    BY <1>3, <2>1 DEF Inv, CheckedSlotHolds, WriteStep
  <2> QED BY <1>3, <2>1, <2>2 DEF Near
<1> QED BY <1>1, <1>2, <1>3 DEF WellPlaced

LEMMA FitsIsApart ==
  ASSUME NEW b \in Bookings, NEW p, Fits(b, p)
  PROVE  \A c \in Bookings \ {b} : Active(c) => Apart(p, row[c].place, 0)
BY DEF Fits, Near

LEMMA SetStatusKeeps ==
  ASSUME Inv, NEW b \in Bookings, NEW st \in Statuses, Exists(b), SetStatus(b, st),
         st \in Blocking => Active(b)
  PROVE  Inv'
<1> DEFINE new == [row[b] EXCEPT !.status = st]
<1>1. row' = [row EXCEPT ![b] = new] /\ UNCHANGED <<blackout, block, request, loose, mixed>>
  BY DEF SetStatus
<1>2. new \in RowType /\ new.status = st /\ new.place = row[b].place
  BY DEF Inv, TypeOK, RowType
<1> HIDE DEF new
<1>3. WriteStep(b, new)
  BY <1>1, <1>2 DEF WriteStep, Inv, TypeOK
<1> QED BY <1>2, <1>3, StaysPlaced, WriteKeeps

LEMMA CleanupKeeps ==
  ASSUME Inv, NEW b \in Bookings, Cleanup(b)
  PROVE  Inv'
<1>1. WriteStep(b, Gone)
  BY PlaceTypes DEF Cleanup, WriteStep, Inv, TypeOK
<1>2. Gone.status \notin Blocking
  BY DEF Gone, Blocking
<1> QED BY <1>1, <1>2, WriteKeeps

LEMMA BulkKeeps ==
  ASSUME Inv, NEW b \in Bookings, NEW t \in Teams, NEW st \in Statuses, Bulk(b, t, st)
  PROVE  Inv'
<1> DEFINE p == [row[b].place EXCEPT !.team = t]
           new == [status |-> st, place |-> p]
<1>1. /\ row' = [row EXCEPT ![b] = new] /\ loose' = loose \cup {b}
      /\ UNCHANGED <<blackout, block, request, mixed>>
      /\ st \in Blocking => Fits(b, p)
  BY DEF Bulk
<1>2. new \in RowType /\ new.status = st /\ new.place = p
  BY DEF Inv, TypeOK, RowType, PlaceType
<1> HIDE DEF new, p
<1>3. WriteStep(b, new)
  BY <1>1, <1>2 DEF WriteStep, Inv, TypeOK
<1>4. st \in Blocking => WellPlaced(b, new)
  BY <1>1, <1>2, FitsIsApart DEF WellPlaced
<1> QED BY <1>2, <1>3, <1>4, WriteKeeps

LEMMA LatePaymentKeeps ==
  ASSUME Inv, NEW b \in Bookings, LatePayment(b)
  PROVE  Inv'
<1> DEFINE new == [row[b] EXCEPT !.status = "CONFIRMED"]
<1>1. /\ row' = [row EXCEPT ![b] = new] /\ loose' = loose \cup {b}
      /\ UNCHANGED <<blackout, block, request, mixed>>
      /\ Fits(b, row[b].place)
  BY DEF LatePayment
<1>2. new \in RowType /\ new.place = row[b].place
  BY DEF Inv, TypeOK, RowType, Statuses, Blocking
<1> HIDE DEF new
<1>3. WriteStep(b, new)
  BY <1>1, <1>2 DEF WriteStep, Inv, TypeOK
<1>4. WellPlaced(b, new)
  BY <1>1, <1>2, FitsIsApart DEF WellPlaced
<1> QED BY <1>3, <1>4, WriteKeeps

(* Release gives up what r holds and leaves the other requests alone.       *)
LEMMA ReleaseFacts ==
  ASSUME Inv, NEW r \in Requests, Release(r)
  PROVE  /\ request' \in [Requests -> RequestType]
         /\ request'[r] = Idle
         /\ \A o \in Requests \ {r} : request'[o] = request[o]
BY PlaceTypes DEF Inv, TypeOK, Release

(* While r holds the lock of its team, every other request that has found   *)
(* its slot free is about another team.                                     *)
LEMMA OthersElsewhere ==
  ASSUME Inv, NEW r \in Requests, NEW q \in Requests, q # r,
         request[r].pc = "checked", request[r].kind \in LockedKinds,
         request[q].pc = "checked", request[q].kind \in CheckedKinds
  PROVE  request[q].place.team # request[r].place.team
<1>1. request[r].place.team \in Teams
  BY DEF Inv, TypeOK, RequestType, PlaceType
<1> QED BY <1>1 DEF Inv, LockInv, Holds, LockedKinds, CheckedKinds

(* A locked write at the place that was checked is well placed.             *)
LEMMA CheckedIsPlaced ==
  ASSUME Inv, NEW r \in Requests, NEW b \in Bookings, NEW new,
         request[r].pc = "checked", request[r].kind \in CheckedKinds,
         request[r].booking = b, new.place = request[r].place,
         request'[r] = Idle, \A o \in Requests \ {r} : request'[o] = request[o],
         Fits(b, new.place)
  PROVE  WellPlaced(b, new)
<1>1. \A c \in Bookings \ {b} : Active(c) => Apart(new.place, row[c].place, 0)
  BY FitsIsApart
<1>2. \A c \in Bookings \ ({b} \cup loose \cup mixed) :
        Active(c) => Apart(new.place, row[c].place, Buffer)
  BY DEF Inv, CheckedSlotHolds, Near
<1>3. ASSUME NEW q \in Requests, request'[q].pc = "checked",
             request'[q].kind \in CheckedKinds
      PROVE  Apart(request'[q].place, new.place, Buffer)
  <2>1. q # r
    BY <1>3 DEF Idle
  <2> QED BY <1>3, <2>1, OthersElsewhere DEF Apart, LockedKinds, CheckedKinds
<1> QED BY <1>1, <1>2, <1>3 DEF WellPlaced

LEMMA InsertBookingKeeps ==
  ASSUME Inv, NEW r \in Requests, InsertBooking(r)
  PROVE  Inv'
<1> DEFINE q == request[r]
           b == q.booking
           new == [status |-> "PENDING", place |-> q.place]
<1>1. /\ q.pc = "checked" /\ q.kind \in {"create", "quick"} /\ Fits(b, q.place)
      /\ row' = [row EXCEPT ![b] = new]
      /\ loose' = IF q.kind = "quick" THEN loose \cup {b} ELSE loose
      /\ Release(r) /\ UNCHANGED <<blackout, block, mixed>>
  BY DEF InsertBooking
<1>2. /\ request' \in [Requests -> RequestType] /\ request'[r] = Idle
      /\ \A o \in Requests \ {r} : request'[o] = request[o]
  BY <1>1, ReleaseFacts
<1>3. new \in RowType /\ new.place = q.place
  BY DEF Inv, TypeOK, RowType, RequestType, Statuses, Blocking
<1>4. b \in Bookings
  BY <1>1 DEF Inv, BookingInv
<1> HIDE DEF new
<1>5. WriteStep(b, new)
  BY <1>1, <1>2, <1>3, <1>4 DEF WriteStep, Inv, TypeOK
<1>6. CASE q.kind = "create"
  BY <1>1, <1>2, <1>3, <1>4, <1>5, <1>6, CheckedIsPlaced, WriteKeeps DEF CheckedKinds
<1>7. CASE q.kind = "quick"
  <2>1. WellPlaced(b, new)
    BY <1>1, <1>3, <1>4, <1>7, FitsIsApart DEF WellPlaced
  <2> QED BY <1>4, <1>5, <2>1, WriteKeeps
<1> QED BY <1>1, <1>6, <1>7

LEMMA UpdateBookingKeeps ==
  ASSUME Inv, NEW r \in Requests, UpdateBooking(r)
  PROVE  Inv'
<1> DEFINE q == request[r]
           b == q.booking
           p == Written(row[b].place, q.seen, q.place)
           new == [row[b] EXCEPT !.place = p]
<1>1. /\ q.pc = "checked" /\ q.kind \in {"reschedule", "override", "move"}
      /\ Active(b) => Fits(b, p)
      /\ row' = [row EXCEPT ![b] = new]
      /\ loose' = IF q.kind \in CheckedKinds THEN loose ELSE loose \cup {b}
      /\ mixed' = IF row[b].place = q.seen THEN mixed ELSE mixed \cup {b}
      /\ Release(r) /\ UNCHANGED <<blackout, block>>
  BY DEF UpdateBooking
<1>2. /\ request' \in [Requests -> RequestType] /\ request'[r] = Idle
      /\ \A o \in Requests \ {r} : request'[o] = request[o]
  BY <1>1, ReleaseFacts
<1>3. b \in Bookings
  BY <1>1 DEF Inv, BookingInv
<1>4. row[b] \in RowType /\ q.seen \in PlaceType /\ q.place \in PlaceType
  BY <1>3 DEF Inv, TypeOK, RequestType
<1>5. p \in PlaceType /\ (row[b].place = q.seen => p = q.place)
  BY <1>4, WrittenType DEF RowType
<1> HIDE DEF p
<1>6. new \in RowType /\ new.status = row[b].status /\ new.place = p
  BY <1>4, <1>5 DEF RowType
<1> HIDE DEF new
<1>7. WriteStep(b, new)
  BY <1>1, <1>2, <1>3, <1>6 DEF WriteStep, Inv, TypeOK
<1>8. new.status \in Blocking => Fits(b, new.place)
  BY <1>1, <1>6 DEF Active
<1>9. CASE q.kind \in CheckedKinds /\ row[b].place = q.seen
  BY <1>1, <1>2, <1>3, <1>5, <1>6, <1>7, <1>8, <1>9, CheckedIsPlaced, WriteKeeps
<1>10. CASE ~(q.kind \in CheckedKinds /\ row[b].place = q.seen)
  <2>1. b \in loose' \cup mixed'
    BY <1>1, <1>10
  <2>2. new.status \in Blocking => WellPlaced(b, new)
    BY <1>3, <1>8, <2>1, FitsIsApart DEF WellPlaced
  <2> QED BY <1>3, <1>7, <2>2, WriteKeeps
<1> QED BY <1>9, <1>10

LEMMA InsertBlackoutKeeps ==
  ASSUME Inv, NEW r \in Requests, InsertBlackout(r)
  PROVE  Inv'
<1> DEFINE p == request[r].place
           w == [from |-> p.start, to |-> End(p)]
<1>1. /\ request' \in [Requests -> RequestType] /\ request'[r] = Idle
      /\ \A o \in Requests \ {r} : request'[o] = request[o]
  BY ReleaseFacts DEF InsertBlackout
<1>2. p \in PlaceType
  BY DEF Inv, TypeOK, RequestType
<1>3. w \in Intervals
  BY <1>2 DEF Intervals, End, PlaceType
<1>4. blackout' = [blackout EXCEPT ![p.team] = @ \cup {w}] /\ UNCHANGED <<row, block, loose, mixed>>
  BY DEF InsertBlackout
<1> HIDE DEF w
<1>5. blackout' \in [Teams -> SUBSET Intervals]
  BY <1>2, <1>3, <1>4 DEF Inv, TypeOK, PlaceType
<1> QED BY <1>1, <1>4, <1>5, ReadKeeps DEF ReadStep, Idle, Inv, TypeOK

LEMMA AbortKeeps ==
  ASSUME Inv, NEW r \in Requests, Abort(r)
  PROVE  Inv'
BY ReleaseFacts, ReadKeeps DEF Abort, ReadStep, Idle, Inv, TypeOK

LEMMA ChangeBlocksKeeps ==
  ASSUME Inv, NEW T \in Scopes, NEW w \in Windows, ChangeBlocks(T, w)
  PROVE  Inv'
<1>1. w \in Intervals
  BY ScheduleAssumption DEF Intervals
<1>2. block' \in [Teams -> SUBSET Intervals]
  BY <1>1 DEF ChangeBlocks, Inv, TypeOK
<1>3. TypeOK'
  BY <1>2 DEF ChangeBlocks, Inv, TypeOK
<1>4. LockInv' /\ BookingInv' /\ NoOverlap' /\ BufferKept' /\ CheckedSlotHolds'
  BY DEF ChangeBlocks, Inv, LockInv, BookingInv, NoOverlap, BufferKept, CheckedSlotHolds,
         Holds, Spread, Near, Active
<1> QED BY <1>3, <1>4 DEF Inv

-----------------------------------------------------------------------------
(* The theorems.                                                            *)

LEMMA InitInv == Init => Inv
<1> SUFFICES ASSUME Init PROVE Inv
  OBVIOUS
<1>1. \A b \in Bookings : ~Active(b)
  BY DEF Init, Absent, Active, Blocking
<1>2. \A r \in Requests : request[r] = Idle
  BY DEF Init
<1> QED BY <1>1, <1>2, InitType
        DEF Inv, LockInv, BookingInv, NoOverlap, BufferKept, CheckedSlotHolds, Spread, Holds, Idle

LEMMA StatusChangeKeeps ==
  ASSUME Inv, NEW b \in Bookings, StatusChange(b)
  PROVE  Inv'
<1>1. CASE Cancel(b) \/ Confirm(b) \/ Complete(b)
  BY <1>1, SetStatusKeeps DEF Cancel, Confirm, Complete, Exists, Active, Statuses, Blocking
<1>2. CASE Cleanup(b) \/ LatePayment(b) \/ \E t \in Teams, st \in Statuses : Bulk(b, t, st)
  BY <1>2, CleanupKeeps, LatePaymentKeeps, BulkKeeps
<1> QED BY <1>1, <1>2 DEF StatusChange

LEMMA NextKeepsInv == Inv /\ [Next]_vars => Inv'
<1> SUFFICES ASSUME Inv, [Next]_vars PROVE Inv'
  OBVIOUS
<1>1. ASSUME NEW r \in Requests, Begin(r) \/ LockAndCheck(r) \/ Finish(r)
      PROVE  Inv'
  BY <1>1, BeginKeeps, LockAndCheckKeeps, InsertBookingKeeps, UpdateBookingKeeps,
     InsertBlackoutKeeps, AbortKeeps DEF Finish
<1>2. CASE UNCHANGED vars
  BY <1>2 DEF vars, Inv, TypeOK, LockInv, BookingInv, NoOverlap, BufferKept, CheckedSlotHolds,
         Holds, Spread, Near, Active
<1> QED BY <1>1, <1>2, StatusChangeKeeps, ChangeBlocksKeeps DEF Next

LEMMA AlwaysInv == Spec => []Inv
BY InitInv, NextKeepsInv, PTL DEF Spec

(* Rows, closed times and requests keep their types.                        *)
THEOREM TypeCorrect == Spec => []TypeOK
<1>1. Inv => TypeOK
  BY DEF Inv
<1> QED BY AlwaysInv, <1>1, PTL

(* No team has two active jobs at one time, whatever path placed them.      *)
THEOREM TeamsNeverInTwoPlaces == Spec => []NoOverlap
<1>1. Inv => NoOverlap
  BY DEF Inv
<1> QED BY AlwaysInv, <1>1, PTL

(* Creation and rescheduling keep the buffer between the jobs they place.   *)
THEOREM BufferIsKept == Spec => []BufferKept
<1>1. Inv => BufferKept
  BY DEF Inv
<1> QED BY AlwaysInv, <1>1, PTL

(* A slot found free under the team lock stays free until the commit.       *)
THEOREM SlotsHold == Spec => []CheckedSlotHolds
<1>1. Inv => CheckedSlotHolds
  BY DEF Inv
<1> QED BY AlwaysInv, <1>1, PTL
=============================================================================
