---------------------------- MODULE StorageQuota ----------------------------
(***************************************************************************)
(* The storage quota of one organisation                                   *)
(* (domain/storage_quota/service.py) together with the flows that fill and *)
(* empty it: a photo streamed to the object store (photos_service.save_    *)
(* photo), a row of known size (quality evidence, a document's PDF), the   *)
(* deletion of a photo with its tombstone, the janitor that retries the    *)
(* deletion of the object, and the deletion of whole bookings, which takes *)
(* their photos and tombstones along and neither gives bytes back nor      *)
(* leaves a tombstone for the objects.  The reconciliation job is not      *)
(* here: it raises before it has compared anything (jobs/storage_quota.py  *)
(* uses OrganizationSettings without importing it), so nothing repairs the *)
(* counter.                                                                *)
(*                                                                         *)
(* Sizes count in chunks.  reserve, extend and finalize all lock the       *)
(* organisation's settings row, and every caller runs them in ONE          *)
(* transaction that it commits only when the reservation is FINALIZED or   *)
(* RELEASED.  So the lock is held from the first chunk to the commit, and  *)
(* a PENDING reservation is seen by its own transaction only: `up' keeps   *)
(* it, no table does, and the job that expires committed PENDING rows      *)
(* never finds one of theirs.                                              *)
(***************************************************************************)
EXTENDS Naturals, FiniteSets

CONSTANTS
    Streams,     \* uploads of order photos, read chunk by chunk
    Records,     \* booking evidence and documents: the size is known at once
    Deletes,     \* requests to delete an order photo
    Bookings,    \* whose photos and evidence these are
    Quota,       \* organization_settings.max_storage_bytes, in chunks
    MaxSize,     \* bound: the chunks of the largest file
    MaxAttempts, \* settings.storage_delete_max_attempts
    None         \* no upload, or no booking

Uploads == Streams \cup Records

ASSUME QuotaAssumption ==
    /\ Streams \cap Records = {}
    /\ IsFiniteSet(Uploads)
    /\ Quota \in Nat
    /\ MaxSize \in Nat \ {0}
    /\ MaxAttempts \in Nat \ {0}
    /\ None \notin Uploads
    /\ None \notin Bookings

VARIABLES
    order,     \* the booking of each upload; documents have none
    dropped,   \* the bookings that have been deleted
    used,      \* organization_settings.storage_bytes_used, committed
    lock,      \* the upload whose transaction holds the settings row, or None
    up,        \* each upload: where it is, the chunks it has read, all of them
               \* reserved, and whether the reservation has outlived its TTL
    row,       \* the committed row of each upload: "none", "kept", "deleted" as
               \* a photo, or "gone" with its booking
    object,    \* the uploads whose bytes the object store keeps
    del,       \* each delete request: where it is and the photo it has read
    tomb,      \* the tombstone each delete request has committed
    drifted,   \* history: a photo has been deleted twice
    abandoned, \* history: uploads that died before they could clean up
    unrefreshed \* history: committed uploads whose refresh failed

vars == <<order, dropped, used, lock, up, row, object, del, tomb,
          drifted, abandoned, unrefreshed>>

bookings == <<order, dropped>>

history == <<drifted, abandoned, unrefreshed>>

UploadType ==
    [pc : {"reading", "stored", "counted", "done", "failed"},
     size : 0..MaxSize, late : BOOLEAN]

DeleteType == [pc : {"idle", "found", "deleted", "done"}, of : Uploads \cup {None}]

(* "lost": deleted with the booking of its photo. *)
TombType == [state : {"none", "open", "processed", "given up", "lost"},
             attempts : 0..MaxAttempts]

(* What has been committed and not deleted for itself, chunk by chunk: what is *)
(* there, and what went with its booking and is still charged.                 *)
Charges(u) == row[u] \in {"kept", "gone"}

Charged == {c \in Uploads \X (1..MaxSize) : Charges(c[1]) /\ c[2] <= up[c[1]].size}

Bytes == Cardinality(Charged)

Init ==
    /\ order \in [Uploads -> Bookings \cup {None}]
    /\ \A u \in Streams : order[u] # None
    /\ dropped = {}
    /\ used = 0
    /\ lock = None
    /\ up = [u \in Uploads |-> [pc |-> "reading", size |-> 0, late |-> FALSE]]
    /\ row = [u \in Uploads |-> "none"]
    /\ object = {}
    /\ del = [d \in Deletes |-> [pc |-> "idle", of |-> None]]
    /\ tomb = [d \in Deletes |-> [state |-> "none", attempts |-> 0]]
    /\ drifted = FALSE
    /\ abandoned = {}
    /\ unrefreshed = {}

-----------------------------------------------------------------------------
(* Uploads. *)

(* _pending_bytes as the upload's transaction sees it: its own reservation, *)
(* unless that has expired. *)
Pending(u) == IF up[u].late THEN 0 ELSE up[u].size

Fits(u, bytes) == used + Pending(u) + bytes <= Quota

(* Ended, an upload keeps nothing but the size of what it has stored. *)
End(u, pc, size) == up' = [up EXCEPT ![u] = [pc |-> pc, size |-> size, late |-> FALSE]]

(* reserve_bytes for the first chunk takes the lock.  A refusal raises before *)
(* there is a reservation to release, and the session closes without commit.  *)
ReserveChunk(u) ==
    /\ up[u].pc = "reading" /\ up[u].size = 0
    /\ lock = None
    /\ \/ /\ Fits(u, 1)
          /\ lock' = u
          /\ up' = [up EXCEPT ![u].size = 1]
       \/ /\ ~Fits(u, 1)
          /\ End(u, "failed", 0)
          /\ UNCHANGED lock
    /\ UNCHANGED <<used, row, object, del, tomb, bookings, history>>

(* extend_reservation for a further chunk.  An expired reservation and a full *)
(* quota both raise: the reservation is released and the release committed.   *)
ExtendChunk(u) ==
    /\ up[u].pc = "reading" /\ lock = u
    /\ up[u].size < MaxSize
    /\ \/ /\ ~up[u].late /\ Fits(u, 1)
          /\ up' = [up EXCEPT ![u].size = @ + 1]
          /\ UNCHANGED lock
       \/ /\ up[u].late \/ ~Fits(u, 1)
          /\ End(u, "failed", 0)
          /\ lock' = None
    /\ UNCHANGED <<used, row, object, del, tomb, bookings, history>>

(* The TTL of the reservation runs out while its upload is still going. *)
Outlive(u) ==
    /\ up[u].pc \in {"reading", "stored"} /\ lock = u
    /\ ~up[u].late
    /\ up' = [up EXCEPT ![u].late = TRUE]
    /\ UNCHANGED <<used, lock, row, object, del, tomb, bookings, history>>

(* The body ends and storage.put returns: the object exists.  An empty body   *)
(* has reserved and locked nothing.                                           *)
StoreObject(u) ==
    /\ up[u].pc = "reading"
    /\ up' = [up EXCEPT ![u].pc = "stored"]
    /\ object' = object \cup {u}
    /\ UNCHANGED <<used, lock, row, del, tomb, bookings, history>>

(* finalize_reservation: the bytes move from the reservation to the counter,  *)
(* uncommitted yet.  An expired reservation may still be finalized; without a *)
(* reservation there is nothing to finalize.                                  *)
FinalizeStream(u) ==
    /\ up[u].pc = "stored"
    /\ up[u].size = 0 \/ used + up[u].size <= Quota
    /\ up' = [up EXCEPT ![u].pc = "counted"]
    /\ UNCHANGED <<used, lock, row, object, del, tomb, bookings, history>>

ReserveRecordUnlocked(u, size) ==
    /\ up[u].pc = "reading"
    /\ Fits(u, size)
    /\ lock' = u
    /\ up' = [up EXCEPT ![u] = [pc |-> "counted", size |-> size, late |-> FALSE]]
    /\ UNCHANGED <<used, row, object, del, tomb, bookings, history>>

(* create_booking_photo_evidence and _create_document reserve the whole size,  *)
(* add the row, which the queries of finalize flush, and finalize.  The flush  *)
(* fails when the booking is gone.                                             *)
ReserveRecord(u, size) ==
    /\ up[u].pc = "reading" /\ lock = None
    /\ \/ /\ Fits(u, size) /\ order[u] \notin dropped
          /\ lock' = u
          /\ up' = [up EXCEPT ![u] = [pc |-> "counted", size |-> size, late |-> FALSE]]
       \/ /\ ~Fits(u, size) \/ order[u] \in dropped
          /\ End(u, "failed", 0)
          /\ UNCHANGED lock
    /\ UNCHANGED <<used, row, object, del, tomb, bookings, history>>

(* The transaction of an upload is over: it gives the lock back if it has it. *)
Unlock(u) == lock' = IF lock = u THEN None ELSE lock

(* The commit.  The refresh that follows it stands in the same try block: when *)
(* only the refresh fails, the handler deletes the object of a committed row.  *)
(* A photo's row is flushed only now, and refused when its booking is gone.    *)
CommitUpload(u) ==
    /\ up[u].pc = "counted" /\ order[u] \notin dropped
    /\ End(u, "done", up[u].size)
    /\ Unlock(u)
    /\ used' = used + up[u].size
    /\ row' = [row EXCEPT ![u] = "kept"]
    /\ \/ UNCHANGED <<object, unrefreshed>>
       \/ /\ u \in Streams
          /\ object' = object \ {u}
          /\ unrefreshed' = unrefreshed \cup {u}
    /\ UNCHANGED <<del, tomb, bookings, drifted, abandoned>>

Going(u) == \/ up[u].pc \in {"stored", "counted"}
            \/ up[u].pc = "reading" /\ lock = u

(* The body breaks off or is too large, the store fails, the quota refuses the *)
(* finalize or the commit fails: the object is deleted, the transaction is     *)
(* rolled back or its reservation released, and the lock is free.              *)
FailUpload(u) ==
    /\ Going(u)
    /\ End(u, "failed", 0)
    /\ Unlock(u)
    /\ object' = object \ {u}
    /\ UNCHANGED <<used, row, del, tomb, bookings, history>>

(* The process dies, or the deletion of the object raises out of the handler:  *)
(* the database rolls back, the object stays.                                  *)
AbandonUpload(u) ==
    /\ Going(u) /\ u \in object
    /\ End(u, "failed", 0)
    /\ Unlock(u)
    /\ abandoned' = abandoned \cup {u}
    /\ UNCHANGED <<used, row, object, del, tomb, bookings, drifted, unrefreshed>>

-----------------------------------------------------------------------------
(* Deletion. *)

FindAndRemove(d, u) ==
    /\ del[d].pc = "idle"
    /\ row[u] = "kept"
    /\ del' = [del EXCEPT ![d] = [pc |-> "found", of |-> u]]
    /\ object' = object \ {u}
    /\ UNCHANGED <<used, lock, up, row, tomb, bookings, history>>

(* get_photo reads the row without a lock. *)
FindPhoto(d, u) ==
    /\ del[d].pc = "idle"
    /\ row[u] = "kept"
    /\ del' = [del EXCEPT ![d] = [pc |-> "found", of |-> u]]
    /\ UNCHANGED <<used, lock, up, row, object, tomb, bookings, history>>

(* cleanup_stale_bookings, hard_delete_booking or the purge: the row of a      *)
(* booking is deleted, and the database deletes the photos, the evidence and   *)
(* the tombstones that refer to it.  Only an evidence row that is flushed and  *)
(* not committed makes it wait.                                                *)
DropBooking(b) ==
    /\ b \notin dropped
    /\ \A u \in Records : order[u] = b => up[u].pc # "counted"
    /\ dropped' = dropped \cup {b}
    /\ row' = [u \in Uploads |->
                  IF order[u] = b /\ row[u] = "kept" THEN "gone" ELSE row[u]]
    /\ tomb' = [d \in Deletes |->
                  IF tomb[d].state # "none" /\ order[del[d].of] = b
                  THEN [state |-> "lost", attempts |-> 0] ELSE tomb[d]]
    /\ UNCHANGED <<order, used, lock, up, object, del, history>>

DecreasedBelowZero(bytes) == used - bytes

Decreased(bytes) == IF used >= bytes THEN used - bytes ELSE 0

DeleteWithoutRefund(d) ==
    /\ del[d].pc = "found" /\ order[del[d].of] \notin dropped
    /\ row' = [row EXCEPT ![del[d].of] = "deleted"]
    /\ tomb' = [tomb EXCEPT ![d].state = "open"]
    /\ del' = [del EXCEPT ![d].pc = "deleted"]
    /\ UNCHANGED <<used, lock, up, object, bookings, history>>

(* One transaction deletes the row, adds a tombstone and gives the bytes back  *)
(* under the settings lock.  The number of deleted rows is not looked at: when *)
(* another request has deleted the photo meanwhile its bytes go back twice.    *)
DeletePhoto(d) ==
    /\ del[d].pc = "found" /\ lock = None
    /\ LET u == del[d].of IN
         /\ up[u].size > 0 /\ order[u] \notin dropped
         /\ row' = [row EXCEPT ![u] = "deleted"]
         /\ used' = Decreased(up[u].size)
         /\ drifted' = (drifted \/ row[u] = "deleted")
    /\ tomb' = [tomb EXCEPT ![d].state = "open"]
    /\ del' = [del EXCEPT ![d].pc = "deleted"]
    /\ UNCHANGED <<lock, up, object, bookings, abandoned, unrefreshed>>

(* decrement_storage_usage refuses zero bytes: the deletion of an empty photo  *)
(* is rolled back, every time; and so is that of a photo whose booking is gone *)
(* since it was read, for its tombstone refers to the booking.                 *)
RefuseDelete(d) ==
    /\ del[d].pc = "found"
    /\ up[del[d].of].size = 0 \/ order[del[d].of] \in dropped
    /\ del' = [del EXCEPT ![d].pc = "done"]
    /\ UNCHANGED <<used, lock, up, row, object, tomb, bookings, history>>

(* The object is deleted, and then its tombstone marked, unless that went with *)
(* the booking or its transaction fails: a crash, or another tombstone of the  *)
(* janitor's batch that is lost.                                               *)
Remove(d) ==
    /\ object' = object \ {del[d].of}
    /\ \/ tomb[d].state # "lost" /\ tomb' = [tomb EXCEPT ![d].state = "processed"]
       \/ UNCHANGED tomb

(* The request tries once to delete the object itself. *)
DeleteObject(d) ==
    /\ del[d].pc = "deleted"
    /\ del' = [del EXCEPT ![d].pc = "done"]
    /\ \/ Remove(d)
       \/ /\ tomb[d].state # "lost" /\ tomb[d].attempts < MaxAttempts
          /\ tomb' = [tomb EXCEPT ![d].attempts = @ + 1]
          /\ UNCHANGED object
       \/ tomb[d].state = "lost" /\ UNCHANGED <<object, tomb>>
    /\ UNCHANGED <<used, lock, up, row, bookings, history>>

RetryOnce(d) ==
    /\ tomb[d].state = "open"
    /\ tomb' = [tomb EXCEPT ![d].state = "processed"]
    /\ object' \in {object, object \ {del[d].of}}
    /\ UNCHANGED <<used, lock, up, row, del, bookings, history>>

(* run_storage_janitor on one open tombstone. *)
Retry(d) ==
    /\ tomb[d].state = "open"
    /\ \/ Remove(d)
       \/ /\ tomb' = [tomb EXCEPT ![d] =
                [state |-> IF @.attempts + 1 >= MaxAttempts THEN "given up" ELSE "open",
                 attempts |-> IF @.attempts < MaxAttempts THEN @.attempts + 1 ELSE @.attempts]]
          /\ UNCHANGED object
    /\ UNCHANGED <<used, lock, up, row, del, bookings, history>>

-----------------------------------------------------------------------------
StreamStep(u) ==
    \/ ReserveChunk(u) \/ ExtendChunk(u) \/ Outlive(u)
    \/ StoreObject(u) \/ FinalizeStream(u)
    \/ AbandonUpload(u)

RecordStep(u) == \E size \in 1..MaxSize : ReserveRecord(u, size)

DeleteStep(d) ==
    \/ \E u \in Streams : FindPhoto(d, u)
    \/ DeletePhoto(d) \/ RefuseDelete(d) \/ DeleteObject(d) \/ Retry(d)

Next ==
    \/ \E u \in Streams : StreamStep(u)
    \/ \E u \in Records : RecordStep(u)
    \/ \E u \in Uploads : CommitUpload(u) \/ FailUpload(u)
    \/ \E d \in Deletes : DeleteStep(d)
    \/ \E b \in Bookings : DropBooking(b)

Spec == Init /\ [][Next]_vars

-----------------------------------------------------------------------------
TypeOK ==
    /\ order \in [Uploads -> Bookings \cup {None}]
    /\ dropped \subseteq Bookings
    /\ used \in Nat
    /\ lock \in Uploads \cup {None}
    /\ up \in [Uploads -> UploadType]
    /\ row \in [Uploads -> {"none", "kept", "deleted", "gone"}]
    /\ object \subseteq Streams
    /\ del \in [Deletes -> DeleteType]
    /\ tomb \in [Deletes -> TombType]
    /\ drifted \in BOOLEAN
    /\ abandoned \subseteq Streams
    /\ unrefreshed \subseteq Streams

(* The counter is the bytes of what was committed and not deleted for itself,  *)
(* whatever uploads, deletions, failures and crashes have interleaved: more    *)
(* than is stored by what went with its booking, and by that for ever.  Only a *)
(* photo that two requests delete at once puts it out.                         *)
UsedIsCharged == ~drifted => used = Bytes

(* An upload that commits bytes keeps the organisation within its quota,       *)
(* however slow it was and though its TTL ran out after it was told that it    *)
(* fits, as long as no photo has been deleted twice.                           *)
CommitWithinQuota ==
    [][\A u \in Uploads :
          (row[u] = "none" /\ row'[u] = "kept" /\ up[u].size > 0 /\ ~drifted)
              => Bytes' <= Quota]_vars

(* Every object in the store is somebody's: a photo's, an upload's that is     *)
(* still running, or an open tombstone's, which the janitor will come back to; *)
(* the others are those of a given-up tombstone, of uploads that died, and of  *)
(* photos and tombstones that went with their booking, which nothing names.    *)
ObjectsAccountedFor ==
    \A u \in object :
        \/ row[u] \in {"kept", "gone"}
        \/ up[u].pc \in {"stored", "counted"}
        \/ \E d \in Deletes : del[d].of = u /\ tomb[d].state \in {"open", "given up", "lost"}
        \/ u \in abandoned

(* A photo the database lists can be downloaded: its object is never deleted   *)
(* before the row's deletion has committed, except by the refresh that fails   *)
(* after a commit.                                                             *)
PhotosHaveObjects ==
    \A u \in Streams : row[u] = "kept" => u \in object \cup unrefreshed
=============================================================================
