------------------------- MODULE StorageQuotaProofs -------------------------
(***************************************************************************)
(* What the database says of the object store and of the quota, for any    *)
(* number of uploads, delete requests, retries and deleted bookings: every *)
(* object is accounted for, every listed photo has its object, the counter *)
(* is what was committed and not deleted for itself, and commits stay      *)
(* within the quota.                                                       *)
(***************************************************************************)
EXTENDS StorageQuota, FiniteSetTheorems, TLAPS

Typed ==
    /\ order \in [Uploads -> Bookings \cup {None}]
    /\ dropped \subseteq Bookings
    /\ lock \in Uploads \cup {None}
    /\ up \in [Uploads -> UploadType]
    /\ row \in [Uploads -> {"none", "kept", "deleted", "gone"}]
    /\ object \subseteq Streams
    /\ del \in [Deletes -> DeleteType]
    /\ tomb \in [Deletes -> TombType]
    /\ abandoned \subseteq Streams
    /\ unrefreshed \subseteq Streams

(* A row exists once its upload has committed, and only then. *)
RowsAreDone == \A u \in Uploads : (up[u].pc = "done") <=> (row[u] # "none")

(* An upload past storage.put has its object. *)
PutBeforeCommit ==
    \A u \in Streams : up[u].pc \in {"stored", "counted"} => u \in object

(* A delete request has read a committed photo, and its tombstone is          *)
(* committed together with the deletion of the row.                            *)
TombsFollowRows ==
    \A d \in Deletes :
        /\ del[d].pc = "idle" => tomb[d].state = "none"
        /\ del[d].pc # "idle" => del[d].of \in Streams /\ row[del[d].of] # "none"
        /\ del[d].pc = "found" => tomb[d].state = "none"
        /\ tomb[d].state # "none" => row[del[d].of] = "deleted"
        /\ del[d].pc = "deleted" => tomb[d].state # "none"

(* Rows go with bookings that have been deleted, and only so. *)
GoneWithBooking == \A u \in Uploads : row[u] = "gone" => order[u] \in dropped

IInv == /\ Typed
        /\ RowsAreDone
        /\ PutBeforeCommit
        /\ TombsFollowRows
        /\ GoneWithBooking
        /\ ObjectsAccountedFor
        /\ PhotosHaveObjects

LEMMA InitInv == Init => IInv
  BY QuotaAssumption DEF Init, IInv, Typed, RowsAreDone, PutBeforeCommit, TombsFollowRows,
       GoneWithBooking, ObjectsAccountedFor, PhotosHaveObjects, UploadType, DeleteType, TombType, Uploads

(* An upload that moves without touching a row or an object and stays before  *)
(* the commit: reserving, extending, outliving, finalizing.                    *)
LEMMA UploadMoves ==
  ASSUME IInv, NEW u \in Uploads, up[u].pc # "done",
         up' \in [Uploads -> UploadType],
         \A v \in Uploads : v # u => up'[v] = up[v],
         up'[u].pc # "done",
         up'[u].pc \in {"stored", "counted"} => u \in object' \/ u \in Records,
         u \in object' => \/ up'[u].pc \in {"stored", "counted"}
                          \/ u \in abandoned',
         \A v \in Uploads : v # u => (v \in object' <=> v \in object),
         object' \subseteq Streams,
         lock' \in Uploads \cup {None},
         abandoned' \subseteq Streams, abandoned \subseteq abandoned',
         UNCHANGED <<row, del, tomb, unrefreshed, order, dropped>>
  PROVE  IInv'
<1>0. row[u] = "none" /\ Streams \subseteq Uploads /\ Streams \cap Records = {}
  BY QuotaAssumption DEF IInv, RowsAreDone, Typed, Uploads
<1>1. Typed'
  BY DEF IInv, Typed
<1>2. RowsAreDone'
  BY <1>0 DEF IInv, RowsAreDone
<1>3. PutBeforeCommit'
  BY <1>0 DEF IInv, PutBeforeCommit
<1>4. TombsFollowRows'
  BY DEF IInv, TombsFollowRows
<1>5. ObjectsAccountedFor'
  <2> SUFFICES ASSUME NEW v \in object'
               PROVE  \/ row'[v] \in {"kept", "gone"}
                      \/ up'[v].pc \in {"stored", "counted"}
                      \/ \E d \in Deletes : del'[d].of = v /\ tomb'[d].state \in {"open", "given up", "lost"}
                      \/ v \in abandoned'
    BY DEF ObjectsAccountedFor
  <2>1. CASE v = u
    BY <2>1
  <2>2. CASE v # u
    BY <2>2, <1>0 DEF IInv, ObjectsAccountedFor, Typed
  <2> QED
    BY <2>1, <2>2
<1>6. PhotosHaveObjects'
  BY <1>0 DEF IInv, PhotosHaveObjects
<1>7. GoneWithBooking'
  BY DEF IInv, GoneWithBooking
<1> QED
  BY <1>1, <1>2, <1>3, <1>4, <1>5, <1>6, <1>7 DEF IInv

LEMMA UploadSteps ==
  ASSUME IInv, NEW u \in Uploads,
         \/ ReserveChunk(u) /\ u \in Streams
         \/ ExtendChunk(u) /\ u \in Streams
         \/ Outlive(u)
         \/ StoreObject(u) /\ u \in Streams
         \/ FinalizeStream(u)
         \/ RecordStep(u) /\ u \in Records
         \/ FailUpload(u)
         \/ AbandonUpload(u)
  PROVE  IInv'
<1> USE QuotaAssumption
<1>0. /\ up \in [Uploads -> UploadType] /\ object \subseteq Streams
      /\ lock \in Uploads \cup {None} /\ abandoned \subseteq Streams
      /\ Uploads = Streams \cup Records
      /\ PutBeforeCommit /\ ObjectsAccountedFor /\ RowsAreDone /\ TombsFollowRows
  BY DEF IInv, Typed, Uploads
<1>r. up[u].pc # "done" => row[u] = "none"
  BY DEF IInv, RowsAreDone, Typed
<1>m. /\ MaxSize \in Nat /\ 0 \in 0..MaxSize /\ 1 \in 0..MaxSize
      /\ 1..MaxSize \subseteq 0..MaxSize
      /\ \A n \in 0..MaxSize : n < MaxSize => n + 1 \in 0..MaxSize
  OBVIOUS
<1>t. \A new \in UploadType : [up EXCEPT ![u] = new] \in [Uploads -> UploadType]
  BY <1>0
<1>f. [pc |-> "failed", size |-> 0, late |-> FALSE] \in UploadType
  BY <1>m DEF UploadType
<1>n. up[u].pc \in {"reading", "failed"} /\ u \in object => u \in abandoned
  <2> SUFFICES ASSUME up[u].pc \in {"reading", "failed"}, u \in object
               PROVE  u \in abandoned
    OBVIOUS
  <2>1. row[u] = "none"
    BY <1>r
  <2>2. ~ \E d \in Deletes : del[d].of = u /\ tomb[d].state \in {"open", "given up", "lost"}
    BY <2>1, <1>0 DEF TombsFollowRows
  <2> QED
    BY <2>1, <2>2, <1>0 DEF ObjectsAccountedFor
<1>1. CASE ReserveChunk(u) /\ u \in Streams
  <2>1. up' \in [Uploads -> UploadType]
    <3>1. [up[u] EXCEPT !.size = 1] \in UploadType
      BY <1>0, <1>m DEF UploadType
    <3> QED
      BY <1>1, <1>t, <1>f, <3>1 DEF ReserveChunk, End
  <2>2. up[u].pc = "reading" /\ up'[u].pc \in {"reading", "failed"}
    BY <1>1, <1>0 DEF ReserveChunk, End, UploadType
  <2>3. \A v \in Uploads : v # u => up'[v] = up[v]
    BY <1>1, <1>0 DEF ReserveChunk, End
  <2>4. lock' \in Uploads \cup {None}
    BY <1>1, <1>0 DEF ReserveChunk
  <2> QED
    BY <1>1, <1>0, <1>n, <2>1, <2>2, <2>3, <2>4, UploadMoves DEF ReserveChunk, bookings, history
<1>2. CASE ExtendChunk(u) /\ u \in Streams
  <2>1. up' \in [Uploads -> UploadType]
    <3>1. up[u].size < MaxSize
      BY <1>2 DEF ExtendChunk
    <3>2. [up[u] EXCEPT !.size = @ + 1] \in UploadType
      BY <1>0, <1>m, <3>1 DEF UploadType
    <3> QED
      BY <1>2, <1>t, <1>f, <3>2 DEF ExtendChunk, End
  <2>2. up[u].pc = "reading" /\ up'[u].pc \in {"reading", "failed"}
    BY <1>2, <1>0 DEF ExtendChunk, End, UploadType
  <2>3. \A v \in Uploads : v # u => up'[v] = up[v]
    BY <1>2, <1>0 DEF ExtendChunk, End
  <2>4. lock' \in Uploads \cup {None}
    BY <1>2, <1>0 DEF ExtendChunk
  <2> QED
    BY <1>2, <1>0, <1>n, <2>1, <2>2, <2>3, <2>4, UploadMoves DEF ExtendChunk, bookings, history
<1>3. CASE Outlive(u)
  <2>1. up' \in [Uploads -> UploadType]
    BY <1>3, <1>0 DEF Outlive, UploadType
  <2>2. up[u].pc \in {"reading", "stored"} /\ up'[u].pc = up[u].pc
    BY <1>3, <1>0 DEF Outlive, UploadType
  <2>3. \A v \in Uploads : v # u => up'[v] = up[v]
    BY <1>3, <1>0 DEF Outlive
  <2>4. up'[u].pc = "stored" => u \in object \/ u \in Records
    BY <2>2, <1>0 DEF PutBeforeCommit
  <2> QED
    BY <1>3, <1>0, <1>n, <2>1, <2>2, <2>3, <2>4, UploadMoves DEF Outlive, bookings, history
<1>4. CASE StoreObject(u) /\ u \in Streams
  <2>1. up' \in [Uploads -> UploadType]
    BY <1>4, <1>0 DEF StoreObject, UploadType
  <2>2. up[u].pc = "reading" /\ up'[u].pc = "stored"
    BY <1>4, <1>0 DEF StoreObject, UploadType
  <2>3. \A v \in Uploads : v # u => up'[v] = up[v]
    BY <1>4, <1>0 DEF StoreObject
  <2> QED
    BY <1>4, <1>0, <2>1, <2>2, <2>3, UploadMoves DEF StoreObject, bookings, history
<1>5. CASE FinalizeStream(u)
  <2>1. up' \in [Uploads -> UploadType]
    BY <1>5, <1>0 DEF FinalizeStream, UploadType
  <2>2. up[u].pc = "stored" /\ up'[u].pc = "counted"
    BY <1>5, <1>0 DEF FinalizeStream, UploadType
  <2>3. \A v \in Uploads : v # u => up'[v] = up[v]
    BY <1>5, <1>0 DEF FinalizeStream
  <2>4. u \in object \/ u \in Records
    BY <2>2, <1>0 DEF PutBeforeCommit
  <2> QED
    BY <1>5, <1>0, <2>1, <2>2, <2>3, <2>4, UploadMoves DEF FinalizeStream, bookings, history
<1>6. CASE RecordStep(u) /\ u \in Records
  <2> PICK size \in 1..MaxSize : ReserveRecord(u, size)
    BY <1>6 DEF RecordStep
  <2>1. up' \in [Uploads -> UploadType]
    <3>1. [pc |-> "counted", size |-> size, late |-> FALSE] \in UploadType
      BY <1>m DEF UploadType
    <3> QED
      BY <1>t, <1>f, <3>1 DEF ReserveRecord, End
  <2>2. up[u].pc = "reading" /\ up'[u].pc \in {"counted", "failed"}
    BY <1>6, <1>0 DEF ReserveRecord, End, UploadType
  <2>3. \A v \in Uploads : v # u => up'[v] = up[v]
    BY <1>6, <1>0 DEF ReserveRecord, End
  <2>4. lock' \in Uploads \cup {None}
    BY <1>0 DEF ReserveRecord
  <2>5. u \notin object
    BY <1>6, <1>0
  <2> QED
    BY <1>6, <1>0, <2>1, <2>2, <2>3, <2>4, <2>5, UploadMoves DEF ReserveRecord, bookings, history
<1>7. CASE FailUpload(u)
  <2>1. up' \in [Uploads -> UploadType]
    BY <1>7, <1>0 DEF FailUpload, End, UploadType
  <2>2. up[u].pc # "done" /\ up'[u].pc = "failed"
    BY <1>7, <1>0 DEF FailUpload, Going, End, UploadType
  <2>3. \A v \in Uploads : v # u => up'[v] = up[v]
    BY <1>7, <1>0 DEF FailUpload, End
  <2>4. lock' \in Uploads \cup {None}
    BY <1>7, <1>0 DEF FailUpload, Unlock
  <2> QED
    BY <1>7, <1>0, <2>1, <2>2, <2>3, <2>4, UploadMoves DEF FailUpload, bookings, history
<1>8. CASE AbandonUpload(u)
  <2>1. up' \in [Uploads -> UploadType]
    BY <1>8, <1>0 DEF AbandonUpload, End, UploadType
  <2>2. up[u].pc # "done" /\ up'[u].pc = "failed"
    BY <1>8, <1>0 DEF AbandonUpload, Going, End, UploadType
  <2>3. \A v \in Uploads : v # u => up'[v] = up[v]
    BY <1>8, <1>0 DEF AbandonUpload, End
  <2>4. lock' \in Uploads \cup {None}
    BY <1>8, <1>0 DEF AbandonUpload, Unlock
  <2>5. u \in object /\ u \in Streams
    BY <1>8, <1>0 DEF AbandonUpload
  <2> QED
    BY <1>8, <1>0, <2>1, <2>2, <2>3, <2>4, <2>5, UploadMoves DEF AbandonUpload, bookings
<1> QED
  BY <1>1, <1>2, <1>3, <1>4, <1>5, <1>6, <1>7, <1>8

LEMMA CommitStep ==
  ASSUME IInv, NEW u \in Uploads, CommitUpload(u)
  PROVE  IInv'
<1> USE QuotaAssumption
<1>0. /\ up \in [Uploads -> UploadType] /\ row \in [Uploads -> {"none", "kept", "deleted", "gone"}]
      /\ object \subseteq Streams /\ unrefreshed \subseteq Streams
      /\ lock \in Uploads \cup {None} /\ Streams \subseteq Uploads
      /\ PutBeforeCommit /\ ObjectsAccountedFor /\ PhotosHaveObjects
      /\ RowsAreDone /\ TombsFollowRows
  BY DEF IInv, Typed, Uploads
<1>1. up[u].pc = "counted" /\ row[u] = "none"
  BY <1>0 DEF CommitUpload, RowsAreDone
<1>2. /\ up' \in [Uploads -> UploadType]
      /\ up'[u].pc = "done"
      /\ \A v \in Uploads : v # u => up'[v] = up[v]
  BY <1>0 DEF CommitUpload, End, UploadType
<1>3. /\ row' = [row EXCEPT ![u] = "kept"]
      /\ object' \subseteq object /\ unrefreshed \subseteq unrefreshed'
      /\ \A v \in object \ object' : v = u /\ v \in unrefreshed'
      /\ unrefreshed' \subseteq Streams
      /\ del' = del /\ tomb' = tomb /\ abandoned' = abandoned
      /\ order' = order /\ dropped' = dropped
  BY <1>0 DEF CommitUpload, bookings
<1>4. lock' \in Uploads \cup {None}
  BY <1>0 DEF CommitUpload, Unlock
<1>5. Typed'
  BY <1>0, <1>2, <1>3, <1>4 DEF IInv, Typed
<1>6. RowsAreDone'
  BY <1>0, <1>2, <1>3 DEF RowsAreDone
<1>7. PutBeforeCommit'
  BY <1>0, <1>2, <1>3 DEF PutBeforeCommit
<1>8. TombsFollowRows'
  BY <1>0, <1>1, <1>3 DEF TombsFollowRows
<1>9. ObjectsAccountedFor'
  <2> SUFFICES ASSUME NEW v \in object'
               PROVE  \/ row'[v] \in {"kept", "gone"}
                      \/ up'[v].pc \in {"stored", "counted"}
                      \/ \E d \in Deletes : del'[d].of = v /\ tomb'[d].state \in {"open", "given up", "lost"}
                      \/ v \in abandoned'
    BY DEF ObjectsAccountedFor
  <2>1. CASE v = u
    BY <2>1, <1>0, <1>3
  <2>2. CASE v # u
    BY <2>2, <1>0, <1>2, <1>3 DEF ObjectsAccountedFor
  <2> QED
    BY <2>1, <2>2
<1>10. PhotosHaveObjects'
  BY <1>0, <1>1, <1>3 DEF PhotosHaveObjects, PutBeforeCommit
<1>11. GoneWithBooking'
  BY <1>0, <1>3 DEF IInv, GoneWithBooking
<1> QED
  BY <1>5, <1>6, <1>7, <1>8, <1>9, <1>10, <1>11 DEF IInv

LEMMA DeleteSteps ==
  ASSUME IInv, NEW d \in Deletes, DeleteStep(d)
  PROVE  IInv'
<1> USE QuotaAssumption
<1>0. /\ row \in [Uploads -> {"none", "kept", "deleted", "gone"}]
      /\ object \subseteq Streams /\ Streams \subseteq Uploads
      /\ del \in [Deletes -> DeleteType] /\ tomb \in [Deletes -> TombType]
      /\ PutBeforeCommit /\ ObjectsAccountedFor /\ PhotosHaveObjects
      /\ RowsAreDone /\ TombsFollowRows
  BY DEF IInv, Typed, Uploads
<1>m. MaxAttempts \in Nat /\ \A n \in 0..MaxAttempts : n < MaxAttempts => n + 1 \in 0..MaxAttempts
  OBVIOUS
<1>1. CASE \E u \in Streams : FindPhoto(d, u)
  <2> PICK u \in Streams : FindPhoto(d, u)
    BY <1>1
  <2>1. /\ del[d].pc = "idle" /\ row[u] = "kept"
        /\ del' = [del EXCEPT ![d] = [pc |-> "found", of |-> u]]
        /\ UNCHANGED <<lock, up, row, object, tomb, abandoned, unrefreshed, order, dropped>>
    BY DEF FindPhoto, bookings, history
  <2>2. Typed'
    BY <1>0, <2>1 DEF IInv, Typed, DeleteType
  <2>3. TombsFollowRows'
    BY <1>0, <2>1 DEF TombsFollowRows
  <2>4. ObjectsAccountedFor'
    BY <1>0, <2>1 DEF ObjectsAccountedFor, TombsFollowRows
  <2> QED
    BY <1>0, <2>1, <2>2, <2>3, <2>4 DEF IInv, RowsAreDone, PutBeforeCommit, GoneWithBooking, PhotosHaveObjects
<1>2. CASE DeletePhoto(d)
  <2> DEFINE u == del[d].of
  <2>1. /\ del[d].pc = "found" /\ u \in Streams /\ row[u] # "none"
        /\ tomb[d].state = "none"
    BY <1>2, <1>0 DEF DeletePhoto, TombsFollowRows
  <2>2. /\ row' = [row EXCEPT ![u] = "deleted"]
        /\ tomb' = [tomb EXCEPT ![d].state = "open"]
        /\ del' = [del EXCEPT ![d].pc = "deleted"]
        /\ UNCHANGED <<lock, up, object, abandoned, unrefreshed, order, dropped>>
    BY <1>2 DEF DeletePhoto, bookings
  <2>3. /\ [del[d] EXCEPT !.pc = "deleted"] \in DeleteType
        /\ [del[d] EXCEPT !.pc = "deleted"].of = u
        /\ [del[d] EXCEPT !.pc = "deleted"].pc = "deleted"
        /\ [tomb[d] EXCEPT !.state = "open"] \in TombType
        /\ [tomb[d] EXCEPT !.state = "open"].state = "open"
    BY <1>0 DEF DeleteType, TombType
  <2>4. RowsAreDone'
    BY <1>0, <2>1, <2>2 DEF RowsAreDone
  <2>5. /\ \A e \in Deletes : del'[e].of = del[e].of
        /\ \A e \in Deletes : e # d => del'[e] = del[e] /\ tomb'[e] = tomb[e]
        /\ del'[d].pc = "deleted" /\ tomb'[d].state = "open"
    BY <1>0, <2>2, <2>3
  <2>8. Typed'
    <3>1. del' \in [Deletes -> DeleteType] /\ tomb' \in [Deletes -> TombType]
      BY <1>0, <2>2, <2>3
    <3>2. row' \in [Uploads -> {"none", "kept", "deleted", "gone"}]
      BY <1>0, <2>2
    <3> QED
      BY <3>1, <3>2, <2>2 DEF IInv, Typed
  <2>6. TombsFollowRows'
    BY <1>0, <2>1, <2>2, <2>5 DEF TombsFollowRows
  <2>7. ObjectsAccountedFor'
    <3> SUFFICES ASSUME NEW v \in object'
                 PROVE  \/ row'[v] \in {"kept", "gone"}
                        \/ up'[v].pc \in {"stored", "counted"}
                        \/ \E e \in Deletes : del'[e].of = v /\ tomb'[e].state \in {"open", "given up", "lost"}
                        \/ v \in abandoned'
      BY DEF ObjectsAccountedFor
    <3>1. CASE v = u
      BY <3>1, <2>5
    <3>2. CASE v # u
      BY <3>2, <1>0, <2>1, <2>2, <2>5 DEF ObjectsAccountedFor
    <3> QED
      BY <3>1, <3>2
  <2> QED
    BY <1>0, <2>1, <2>2, <2>4, <2>6, <2>7, <2>8 DEF IInv, PutBeforeCommit, GoneWithBooking, PhotosHaveObjects
<1>3. CASE RefuseDelete(d)
  <2>1. /\ del[d].pc = "found"
        /\ del' = [del EXCEPT ![d].pc = "done"]
        /\ UNCHANGED <<lock, up, row, object, tomb, abandoned, unrefreshed, order, dropped>>
    BY <1>3 DEF RefuseDelete, bookings, history
  <2>2. /\ Typed'
        /\ \A e \in Deletes : del'[e].of = del[e].of
        /\ \A e \in Deletes : e # d => del'[e] = del[e]
        /\ del'[d].pc = "done"
    BY <1>0, <2>1 DEF IInv, Typed, DeleteType
  <2>3. TombsFollowRows'
    BY <1>0, <2>1, <2>2 DEF TombsFollowRows
  <2>4. ObjectsAccountedFor'
    BY <1>0, <2>1, <2>2 DEF ObjectsAccountedFor
  <2> QED
    BY <1>0, <2>1, <2>2, <2>3, <2>4 DEF IInv, RowsAreDone, PutBeforeCommit, GoneWithBooking, PhotosHaveObjects
<1>4. CASE DeleteObject(d) \/ Retry(d)
  <2> DEFINE u == del[d].of
  <2>1. /\ tomb[d].state # "none"
        /\ row[u] = "deleted" /\ u \in Streams
    BY <1>4, <1>0 DEF DeleteObject, Retry, TombsFollowRows
  <2>2. /\ UNCHANGED <<lock, up, row, abandoned, unrefreshed, order, dropped>>
        /\ \/ del' = del
           \/ del[d].pc = "deleted" /\ del' = [del EXCEPT ![d].pc = "done"]
    <3>1. CASE DeleteObject(d)
      BY <3>1 DEF DeleteObject, bookings, history
    <3>2. CASE Retry(d)
      BY <3>2 DEF Retry, bookings, history
    <3> QED
      BY <1>4, <3>1, <3>2
  <2>3. /\ del' \in [Deletes -> DeleteType]
        /\ \A e \in Deletes : del'[e].of = del[e].of
        /\ \A e \in Deletes : e # d => del'[e] = del[e]
        /\ del[d].pc = "idle" <=> del'[d].pc = "idle"
        /\ del[d].pc = "found" <=> del'[d].pc = "found"
    BY <1>0, <2>2 DEF DeleteType
  <2>4. /\ tomb' \in [Deletes -> TombType]
        /\ \A e \in Deletes : e # d => tomb'[e] = tomb[e]
        /\ tomb'[d].state # "none"
        /\ \/ object' = object \ {u}
           \/ /\ object' = object
              /\ tomb[d].state \in {"open", "given up", "lost"} => tomb'[d].state \in {"open", "given up", "lost"}
    <3>1. CASE DeleteObject(d)
      <4>1. /\ [tomb[d] EXCEPT !.state = "processed"] \in TombType
            /\ [tomb[d] EXCEPT !.state = "processed"].state = "processed"
            /\ tomb[d].attempts < MaxAttempts =>
                 /\ [tomb[d] EXCEPT !.attempts = @ + 1] \in TombType
                 /\ [tomb[d] EXCEPT !.attempts = @ + 1].state = tomb[d].state
        BY <1>0, <1>m DEF TombType
      <4>2. \/ object' = object \ {u} /\ tomb' = [tomb EXCEPT ![d].state = "processed"]
            \/ object' = object \ {u} /\ tomb' = tomb
            \/ /\ object' = object /\ tomb[d].attempts < MaxAttempts
               /\ tomb' = [tomb EXCEPT ![d].attempts = @ + 1]
            \/ object' = object /\ tomb' = tomb
        BY <3>1 DEF DeleteObject, Remove
      <4> QED
        BY <4>1, <4>2, <1>0, <2>1
    <3>2. CASE Retry(d)
      <4> DEFINE next == [state |-> IF tomb[d].attempts + 1 >= MaxAttempts THEN "given up" ELSE "open",
                          attempts |-> IF tomb[d].attempts < MaxAttempts THEN tomb[d].attempts + 1
                                       ELSE tomb[d].attempts]
      <4>1. tomb[d].attempts \in 0..MaxAttempts
        BY <1>0 DEF TombType
      <4>2. next \in TombType /\ next.state \in {"open", "given up", "lost"}
        BY <4>1, <1>m DEF TombType
      <4>3. [tomb[d] EXCEPT !.state = "processed"] \in TombType
        BY <1>0 DEF TombType
      <4>4. \/ object' = object \ {u} /\ tomb' = [tomb EXCEPT ![d].state = "processed"]
            \/ object' = object \ {u} /\ tomb' = tomb
            \/ object' = object /\ tomb' = [tomb EXCEPT ![d] = next]
        BY <3>2 DEF Retry, Remove
      <4> HIDE DEF next
      <4>5. CASE object' = object \ {u} /\ tomb' = [tomb EXCEPT ![d].state = "processed"]
        BY <4>5, <4>3, <1>0 DEF TombType
      <4>6. CASE object' = object /\ tomb' = [tomb EXCEPT ![d] = next]
        BY <4>6, <4>2, <1>0
      <4>7. CASE object' = object \ {u} /\ tomb' = tomb
        BY <4>7, <1>0, <2>1
      <4> QED
        BY <4>4, <4>5, <4>6, <4>7
    <3> QED
      BY <1>4, <3>1, <3>2
  <2>5. object' \subseteq Streams
    BY <1>0, <2>4
  <2>6. Typed'
    <3>1. tomb' \in [Deletes -> TombType] /\ del' \in [Deletes -> DeleteType]
      BY <2>3, <2>4
    <3> QED
      BY <3>1, <2>2, <2>5 DEF IInv, Typed
  <2>t. tomb'[d].state # "none" /\ \A e \in Deletes : e # d => tomb'[e] = tomb[e]
    BY <2>4
  <2>7. TombsFollowRows'
    <3>1. del[d].pc # "idle" /\ del[d].pc # "found"
      BY <1>0, <2>1 DEF TombsFollowRows
    <3>2. row' = row /\ row[del'[d].of] = "deleted" /\ del'[d].of \in Streams
      BY <2>1, <2>2, <2>3
    <3> SUFFICES ASSUME NEW e \in Deletes
                 PROVE  /\ del'[e].pc = "idle" => tomb'[e].state = "none"
                        /\ del'[e].pc # "idle" => del'[e].of \in Streams /\ row'[del'[e].of] # "none"
                        /\ del'[e].pc = "found" => tomb'[e].state = "none"
                        /\ tomb'[e].state # "none" => row'[del'[e].of] = "deleted"
                        /\ del'[e].pc = "deleted" => tomb'[e].state # "none"
      BY DEF TombsFollowRows
    <3>3. CASE e = d
      BY <3>1, <3>2, <3>3, <2>3, <2>t
    <3>4. CASE e # d
      BY <3>2, <3>4, <1>0, <2>3, <2>t DEF TombsFollowRows
    <3> QED
      BY <3>3, <3>4
  <2>8. ObjectsAccountedFor'
    <3> SUFFICES ASSUME NEW v \in object'
                 PROVE  \/ row'[v] \in {"kept", "gone"}
                        \/ up'[v].pc \in {"stored", "counted"}
                        \/ \E e \in Deletes : del'[e].of = v /\ tomb'[e].state \in {"open", "given up", "lost"}
                        \/ v \in abandoned'
      BY DEF ObjectsAccountedFor
    <3>1. v \in object
      BY <2>4
    <3>2. CASE v = u
      BY <3>1, <3>2, <1>0, <2>2, <2>3, <2>4 DEF ObjectsAccountedFor
    <3>3. CASE v # u
      BY <3>1, <3>3, <1>0, <2>2, <2>3, <2>4 DEF ObjectsAccountedFor
    <3> QED
      BY <3>2, <3>3
  <2>9. PutBeforeCommit'
    <3>1. up[u].pc = "done"
      BY <1>0, <2>1 DEF RowsAreDone
    <3> QED
      BY <3>1, <1>0, <2>2, <2>4 DEF PutBeforeCommit
  <2>10. PhotosHaveObjects'
    BY <1>0, <2>1, <2>2, <2>4 DEF PhotosHaveObjects
  <2> QED
    BY <1>0, <2>2, <2>6, <2>7, <2>8, <2>9, <2>10 DEF IInv, RowsAreDone, GoneWithBooking
<1> QED
  BY <1>1, <1>2, <1>3, <1>4 DEF DeleteStep

(* A booking is deleted with all that refers to it. *)
LEMMA DropStep ==
  ASSUME IInv, NEW b \in Bookings, DropBooking(b)
  PROVE  IInv'
<1>0. /\ row \in [Uploads -> {"none", "kept", "deleted", "gone"}]
      /\ tomb \in [Deletes -> TombType] /\ Streams \subseteq Uploads
      /\ RowsAreDone /\ PutBeforeCommit /\ TombsFollowRows /\ GoneWithBooking
      /\ ObjectsAccountedFor /\ PhotosHaveObjects
  BY DEF IInv, Typed, Uploads
<1>1. /\ \A u \in Uploads : row'[u] = IF order[u] = b /\ row[u] = "kept" THEN "gone" ELSE row[u]
      /\ \A d \in Deletes : tomb'[d] = IF tomb[d].state # "none" /\ order[del[d].of] = b
                                      THEN [state |-> "lost", attempts |-> 0] ELSE tomb[d]
      /\ dropped' = dropped \cup {b}
      /\ UNCHANGED <<order, lock, up, object, del, abandoned, unrefreshed>>
  BY DEF DropBooking, history
<1>2. Typed'
  <2>1. row' \in [Uploads -> {"none", "kept", "deleted", "gone"}]
    BY <1>0 DEF DropBooking
  <2>2. [state |-> "lost", attempts |-> 0] \in TombType
    BY QuotaAssumption DEF TombType
  <2>3. tomb' \in [Deletes -> TombType]
    BY <1>0, <2>2 DEF DropBooking
  <2> QED
    BY <1>1, <2>1, <2>3 DEF IInv, Typed
<1>3. RowsAreDone'
  BY <1>0, <1>1 DEF RowsAreDone
<1>4. PutBeforeCommit'
  BY <1>0, <1>1 DEF PutBeforeCommit
<1>5. \A d \in Deletes : (tomb'[d].state = "none") <=> (tomb[d].state = "none")
  BY <1>1
<1>6. TombsFollowRows'
  BY <1>0, <1>1, <1>5 DEF TombsFollowRows
<1>7. GoneWithBooking'
  BY <1>0, <1>1 DEF GoneWithBooking
<1>8. ObjectsAccountedFor'
  <2>1. \A d \in Deletes : tomb[d].state \in {"open", "given up", "lost"}
                          => tomb'[d].state \in {"open", "given up", "lost"}
    <3> SUFFICES ASSUME NEW d \in Deletes, tomb[d].state \in {"open", "given up", "lost"}
                 PROVE  tomb'[d].state \in {"open", "given up", "lost"}
      OBVIOUS
    <3>1. CASE order[del[d].of] = b
      <4>1. tomb[d].state # "none" /\ order[del[d].of] = b
        BY <3>1
      <4>2. tomb'[d].state = "lost"
        BY <4>1 DEF DropBooking
      <4> QED
        BY <4>2
    <3>2. CASE order[del[d].of] # b
      BY <1>1, <3>2
    <3> QED
      BY <3>1, <3>2
  <2>2. \A u \in object : row[u] \in {"kept", "gone"} => row'[u] \in {"kept", "gone"}
    <3>1. object \subseteq Uploads
      BY <1>0 DEF IInv, Typed
    <3> QED
      BY <1>1, <3>1
  <2> QED
    BY <1>0, <1>1, <2>1, <2>2 DEF ObjectsAccountedFor
<1>9. PhotosHaveObjects'
  BY <1>0, <1>1 DEF PhotosHaveObjects
<1> QED
  BY <1>2, <1>3, <1>4, <1>6, <1>7, <1>8, <1>9 DEF IInv

LEMMA NextInv == IInv /\ [Next]_vars => IInv'
<1> SUFFICES ASSUME IInv, [Next]_vars
             PROVE  IInv'
  OBVIOUS
<1>1. CASE \E u \in Streams : StreamStep(u)
  BY <1>1, UploadSteps DEF StreamStep, Uploads
<1>2. CASE \E u \in Records : RecordStep(u)
  BY <1>2, UploadSteps DEF Uploads
<1>3. CASE \E u \in Uploads : CommitUpload(u) \/ FailUpload(u)
  BY <1>3, CommitStep, UploadSteps
<1>4. CASE \E d \in Deletes : DeleteStep(d)
  BY <1>4, DeleteSteps
<1>5. CASE \E b \in Bookings : DropBooking(b)
  BY <1>5, DropStep
<1>6. CASE UNCHANGED vars
  <2>1. UNCHANGED <<lock, up, row, object, del, tomb, abandoned, unrefreshed, order, dropped>>
    BY <1>6 DEF vars
  <2> QED
    BY <2>1 DEF IInv, Typed, RowsAreDone, PutBeforeCommit, TombsFollowRows, GoneWithBooking,
                ObjectsAccountedFor, PhotosHaveObjects
<1> QED
  BY <1>1, <1>2, <1>3, <1>4, <1>5, <1>6 DEF Next

LEMMA AlwaysInv == Spec => []IInv
  BY InitInv, NextInv, PTL DEF Spec

-----------------------------------------------------------------------------
(* No object of the store is nobody's but those of uploads that died, of       *)
(* tombstones the janitor gave up, and of rows that went with their booking,   *)
(* for any number of uploads, deletions and deleted bookings.                  *)
THEOREM StoreIsAccountedFor == Spec => []ObjectsAccountedFor
<1>1. IInv => ObjectsAccountedFor
  BY DEF IInv
<1> QED
  BY <1>1, AlwaysInv, PTL

(* A photo the database lists has its object, however deletions, failures and  *)
(* crashes interleave, except where the refresh after the commit failed.       *)
THEOREM ListedPhotosExist == Spec => []PhotosHaveObjects
<1>1. IInv => PhotosHaveObjects
  BY DEF IInv
<1> QED
  BY <1>1, AlwaysInv, PTL

-----------------------------------------------------------------------------
(* The counter. *)

(* An upload that has reserved anything holds the settings row, ... *)
LockHeld ==
    \A u \in Uploads :
        up[u].pc \in {"reading", "stored", "counted"} /\ up[u].size > 0 => lock = u

(* ... so that what it has finalized still fits when it commits. *)
StillFits ==
    \A u \in Uploads :
        up[u].pc = "counted" /\ up[u].size > 0 => used + up[u].size <= Quota

QInv == /\ IInv
        /\ TypeOK
        /\ LockHeld
        /\ StillFits
        /\ UsedIsCharged

(* What the rows keep is finite, and an upload's part of it has its size. *)
LEMMA ChargedFinite == IsFiniteSet(Charged) /\ Bytes \in Nat
<1>1. IsFiniteSet(Uploads) /\ IsFiniteSet(1..MaxSize)
  BY QuotaAssumption, FS_Interval
<1>2. IsFiniteSet(Uploads \X (1..MaxSize))
  BY <1>1, FS_Product
<1>3. IsFiniteSet(Charged)
  BY <1>2, FS_Subset DEF Charged
<1> QED
  BY <1>3, FS_CardinalityType DEF Bytes

Chunks(u, n) == {u} \X (1..n)

LEMMA ChunksCounted ==
  ASSUME NEW u, NEW n \in Nat
  PROVE  IsFiniteSet(Chunks(u, n)) /\ Cardinality(Chunks(u, n)) = n
<1>1. IsFiniteSet({u}) /\ Cardinality({u}) = 1
  BY FS_Singleton
<1>2. IsFiniteSet(1..n) /\ Cardinality(1..n) = n
  BY FS_Interval
<1> DEFINE one == {u}
           ns == 1..n
<1>3. IsFiniteSet(one \X ns) /\ Cardinality(one \X ns) = 1 * n
  <2> HIDE DEF one, ns
  <2>1. /\ IsFiniteSet(one) /\ Cardinality(one) = 1
        /\ IsFiniteSet(ns) /\ Cardinality(ns) = n
    BY <1>1, <1>2 DEF one, ns
  <2>2. Cardinality(one \X ns) = Cardinality(one) * Cardinality(ns) /\ IsFiniteSet(one \X ns)
    BY <2>1, FS_Product
  <2> QED
    BY <2>1, <2>2
<1> QED
  BY <1>3 DEF Chunks

(* Rows that stay, of uploads that stay, keep what they kept. *)
LEMMA ChargedStays ==
  ASSUME \A u \in Uploads : Charges(u)' <=> Charges(u),
         \A u \in Uploads : Charges(u) => up'[u] = up[u]
  PROVE  Charged' = Charged /\ Bytes' = Bytes
<1>1. Charged' = Charged
  BY DEF Charged
<1> QED
  BY <1>1 DEF Bytes

LEMMA ChargedGrows ==
  ASSUME NEW u \in Uploads, up[u].size \in 0..MaxSize, ~Charges(u), Charges(u)',
         up'[u].size = up[u].size,
         \A v \in Uploads : v # u => row'[v] = row[v] /\ up'[v] = up[v]
  PROVE  Bytes' = Bytes + up[u].size
<1> DEFINE n == up[u].size
<1>0. n \in Nat /\ MaxSize \in Nat
  BY QuotaAssumption
<1>1. Charged' = Charged \cup Chunks(u, n)
  <2>1. ASSUME NEW c \in Charged' PROVE c \in Charged \cup Chunks(u, n)
    <3>1. PICK v \in Uploads, k \in 1..MaxSize :
            c = <<v, k>> /\ Charges(v)' /\ k <= up'[v].size
      BY DEF Charged
    <3>2. CASE v = u
      BY <3>1, <3>2, <1>0 DEF Chunks
    <3>3. CASE v # u
      BY <3>1, <3>3 DEF Charged, Charges
    <3> QED
      BY <3>2, <3>3
  <2>2. ASSUME NEW c \in Charged PROVE c \in Charged'
    <3>1. PICK v \in Uploads, k \in 1..MaxSize :
            c = <<v, k>> /\ Charges(v) /\ k <= up[v].size
      BY DEF Charged
    <3> QED
      BY <3>1 DEF Charged, Charges
  <2>3. ASSUME NEW c \in Chunks(u, n) PROVE c \in Charged'
    <3>1. PICK k \in 1..n : c = <<u, k>>
      BY DEF Chunks
    <3> QED
      BY <1>0, <3>1 DEF Charged
  <2> QED
    BY <2>1, <2>2, <2>3
<1>2. Charged \cap Chunks(u, n) = {}
  BY DEF Charged, Chunks
<1>3. Cardinality(Charged \cup Chunks(u, n)) =
        Cardinality(Charged) + Cardinality(Chunks(u, n)) - Cardinality(Charged \cap Chunks(u, n))
  BY <1>0, ChargedFinite, ChunksCounted, FS_Union
<1>4. Cardinality(Charged) \in Nat
  BY ChargedFinite DEF Bytes
<1> QED
  <2>1. Cardinality(Chunks(u, n)) = n /\ Cardinality(Charged \cap Chunks(u, n)) = 0
    BY <1>0, <1>2, ChunksCounted, FS_EmptySet
  <2>2. Cardinality(Charged') = Cardinality(Charged) + n
    BY <1>0, <1>1, <1>3, <1>4, <2>1
  <2> QED
    BY <2>2 DEF Bytes

LEMMA ChargedShrinks ==
  ASSUME NEW u \in Uploads, up[u].size \in 0..MaxSize, Charges(u), ~Charges(u)',
         \A v \in Uploads : v # u => row'[v] = row[v] /\ up'[v] = up[v]
  PROVE  Bytes >= up[u].size /\ Bytes' = Bytes - up[u].size
<1> DEFINE n == up[u].size
<1>0. n \in Nat /\ MaxSize \in Nat
  BY QuotaAssumption
<1>1. Chunks(u, n) \subseteq Charged
  <2> SUFFICES ASSUME NEW c \in Chunks(u, n) PROVE c \in Charged
    OBVIOUS
  <2>1. PICK k \in 1..n : c = <<u, k>>
    BY DEF Chunks
  <2> QED
    BY <1>0, <2>1 DEF Charged
<1>2. Charged' = Charged \ Chunks(u, n)
  <2>1. ASSUME NEW c \in Charged' PROVE c \in Charged /\ c \notin Chunks(u, n)
    <3>1. PICK v \in Uploads, k \in 1..MaxSize :
            c = <<v, k>> /\ Charges(v)' /\ k <= up'[v].size
      BY DEF Charged
    <3>2. v # u
      BY <3>1
    <3> QED
      BY <3>1, <3>2 DEF Charged, Charges, Chunks
  <2>2. ASSUME NEW c \in Charged, c \notin Chunks(u, n) PROVE c \in Charged'
    <3>1. PICK v \in Uploads, k \in 1..MaxSize :
            c = <<v, k>> /\ Charges(v) /\ k <= up[v].size
      BY DEF Charged
    <3>2. v # u
      BY <2>2, <3>1, <1>0 DEF Chunks
    <3> QED
      BY <3>1, <3>2 DEF Charged, Charges
  <2> QED
    BY <2>1, <2>2
<1>3. Cardinality(Charged \ Chunks(u, n)) = Cardinality(Charged) - Cardinality(Charged \cap Chunks(u, n))
  BY ChargedFinite, FS_Difference
<1>4. Charged \cap Chunks(u, n) = Chunks(u, n)
  BY <1>1
<1>5. Cardinality(Charged) \in Nat /\ Cardinality(Chunks(u, n)) <= Cardinality(Charged)
  BY <1>1, ChargedFinite, FS_Subset DEF Bytes
<1> QED
  BY <1>0, <1>2, <1>3, <1>4, <1>5, ChunksCounted DEF Bytes

LEMMA InitQ == Init => QInv
<1> SUFFICES ASSUME Init PROVE QInv
  OBVIOUS
<1>1. Charged = {}
  BY DEF Init, Charged
<1>2. Bytes = 0
  BY <1>1, FS_EmptySet DEF Bytes
<1>3. IInv
  BY InitInv
<1>4. TypeOK
  BY <1>3 DEF IInv, Typed, Init, TypeOK
<1> QED
  BY <1>2, <1>3, <1>4 DEF Init, QInv, LockHeld, StillFits, UsedIsCharged

(* An upload that moves before its commit. *)
LEMMA QuotaMoves ==
  ASSUME QInv, IInv', NEW u \in Uploads, up[u].pc # "done", up'[u].pc # "done",
         UNCHANGED <<used, row, drifted>>,
         \A v \in Uploads : v # u => up'[v] = up[v],
         up'[u].size > 0 => lock' = u \/ up'[u].pc = "failed",
         lock' = lock \/ lock = None \/ lock = u,
         up'[u].pc = "counted" /\ up'[u].size > 0 => used + up'[u].size <= Quota
  PROVE  QInv'
<1>1. TypeOK'
  BY DEF QInv, TypeOK, IInv, Typed
<1>2. LockHeld'
  <2> SUFFICES ASSUME NEW v \in Uploads, up'[v].size > 0,
                      up'[v].pc \in {"reading", "stored", "counted"}
               PROVE  lock' = v
    BY DEF LockHeld
  <2>1. CASE v = u
    BY <2>1
  <2>2. CASE v # u
    BY <2>2, QuotaAssumption DEF QInv, LockHeld
  <2> QED
    BY <2>1, <2>2
<1>3. StillFits'
  <2> SUFFICES ASSUME NEW v \in Uploads, up'[v].size > 0, up'[v].pc = "counted"
               PROVE  used + up'[v].size <= Quota
    BY DEF StillFits
  <2>1. CASE v = u
    BY <2>1
  <2>2. CASE v # u
    BY <2>2 DEF QInv, StillFits
  <2> QED
    BY <2>1, <2>2
<1>4. Bytes' = Bytes
  <2>1. \A v \in Uploads : Charges(v) => up'[v] = up[v]
    BY DEF QInv, IInv, RowsAreDone, Charges
  <2> QED
    BY <2>1, ChargedStays DEF Charges
<1>5. UsedIsCharged'
  BY <1>4 DEF QInv, UsedIsCharged
<1> QED
  BY <1>1, <1>2, <1>3, <1>5 DEF QInv

LEMMA UploadStepsCount ==
  ASSUME QInv, IInv', NEW u \in Uploads, StreamStep(u) \/ RecordStep(u) \/ FailUpload(u)
  PROVE  QInv'
<1>0. /\ up \in [Uploads -> UploadType] /\ up[u] \in UploadType
      /\ up' \in [Uploads -> UploadType] /\ used \in Nat /\ Quota \in Nat
      /\ up[u].size \in Nat /\ (up[u].pc \in {"reading", "stored", "counted"} /\ up[u].size > 0 => lock = u)
  BY QuotaAssumption DEF QInv, IInv, Typed, TypeOK, UploadType, LockHeld
<1>1. /\ UNCHANGED <<used, row, drifted>>
      /\ \A v \in Uploads : v # u => up'[v] = up[v]
  BY <1>0 DEF StreamStep, RecordStep, ReserveChunk, ExtendChunk, Outlive, StoreObject, FinalizeStream,
              FailUpload, AbandonUpload, ReserveRecord, End, history
<1>2. CASE ReserveChunk(u)
  BY <1>0, <1>1, <1>2, QuotaMoves DEF ReserveChunk, End, UploadType
<1>3. CASE ExtendChunk(u)
  BY <1>0, <1>1, <1>3, QuotaMoves DEF ExtendChunk, End, UploadType
<1>4. CASE Outlive(u)
  BY <1>0, <1>1, <1>4, QuotaMoves DEF Outlive, UploadType
<1>5. CASE StoreObject(u)
  BY <1>0, <1>1, <1>5, QuotaMoves DEF StoreObject, UploadType
<1>6. CASE FinalizeStream(u)
  BY <1>0, <1>1, <1>6, QuotaMoves DEF FinalizeStream, UploadType
<1>7. CASE FailUpload(u) \/ AbandonUpload(u)
  BY <1>0, <1>1, <1>7, QuotaMoves DEF FailUpload, AbandonUpload, Going, End, Unlock, UploadType
<1>8. CASE RecordStep(u)
  <2> PICK size \in 1..MaxSize : ReserveRecord(u, size)
    BY <1>8 DEF RecordStep
  <2>1. size \in Nat /\ Pending(u) \in Nat
    BY <1>0 DEF Pending
  <2> QED
    BY <1>0, <1>1, <2>1, QuotaMoves DEF ReserveRecord, Fits, End, UploadType
<1> QED
  BY <1>2, <1>3, <1>4, <1>5, <1>6, <1>7, <1>8 DEF StreamStep

(* The commit: the counter moves by what the row adds. *)
LEMMA CommitCounts ==
  ASSUME QInv, IInv', NEW u \in Uploads, CommitUpload(u)
  PROVE  /\ QInv'
         /\ up[u].size > 0 /\ ~drifted => Bytes' <= Quota
<1> DEFINE n == up[u].size
<1>0. /\ up \in [Uploads -> UploadType] /\ row \in [Uploads -> {"none", "kept", "deleted", "gone"}]
      /\ used \in Nat /\ Quota \in Nat /\ n \in 0..MaxSize /\ n \in Nat
  BY QuotaAssumption DEF QInv, TypeOK, UploadType
<1>1. /\ up[u].pc = "counted" /\ row[u] = "none"
      /\ up'[u].pc = "done" /\ up'[u].size = n /\ row'[u] = "kept"
      /\ \A v \in Uploads : v # u => up'[v] = up[v] /\ row'[v] = row[v]
      /\ used' = used + n /\ lock' = (IF lock = u THEN None ELSE lock)
      /\ UNCHANGED <<drifted>>
  BY <1>0 DEF CommitUpload, End, Unlock, QInv, IInv, RowsAreDone
<1>2. Bytes' = Bytes + n /\ Bytes \in Nat
  <2>1. ~Charges(u) /\ Charges(u)'
    BY <1>1 DEF Charges
  <2> QED
    BY <1>0, <1>1, <2>1, ChargedGrows, ChargedFinite
<1>3. n > 0 => lock = u /\ used + n <= Quota
  BY <1>1 DEF QInv, LockHeld, StillFits
<1>4. ASSUME NEW v \in Uploads, v # u, up[v].pc \in {"reading", "stored", "counted"}, up[v].size > 0
      PROVE  lock = v /\ lock' = v /\ n = 0
  BY <1>0, <1>1, <1>3, <1>4 DEF QInv, LockHeld
<1>5. LockHeld'
  BY <1>1, <1>4 DEF LockHeld
<1>6. StillFits'
  <2> SUFFICES ASSUME NEW v \in Uploads, up'[v].size > 0, up'[v].pc = "counted"
               PROVE  used' + up'[v].size <= Quota
    BY DEF StillFits
  <2>1. v # u /\ up'[v] = up[v] /\ n = 0
    BY <1>1, <1>4
  <2> QED
    BY <1>0, <1>1, <2>1 DEF QInv, StillFits
<1>7. UsedIsCharged' /\ (~drifted => used = Bytes)
  BY <1>0, <1>1, <1>2 DEF QInv, UsedIsCharged
<1>8. TypeOK'
  <2>1. used' \in Nat
    BY <1>0, <1>1
  <2> QED
    BY <1>1, <2>1 DEF QInv, TypeOK, IInv, Typed
<1> QED
  BY <1>0, <1>2, <1>3, <1>5, <1>6, <1>7, <1>8 DEF QInv

(* Deleting photos and bookings does not touch the uploads; the counter is    *)
(* written only while nobody holds the settings row.                          *)
LEMMA CounterWritten ==
  ASSUME QInv, IInv', UNCHANGED <<up, lock>>, used' \in Nat, drifted' \in BOOLEAN,
         used' = used \/ lock = None, UsedIsCharged'
  PROVE  QInv'
<1>1. TypeOK'
  BY DEF QInv, TypeOK, IInv, Typed
<1>2. LockHeld'
  BY DEF QInv, LockHeld
<1>3. StillFits'
  BY QuotaAssumption DEF QInv, LockHeld, StillFits
<1> QED
  BY <1>1, <1>2, <1>3 DEF QInv

LEMMA DeleteCounts ==
  ASSUME QInv, IInv', NEW d \in Deletes, DeleteStep(d)
  PROVE  QInv'
<1>0. /\ used \in Nat /\ drifted \in BOOLEAN
      /\ up \in [Uploads -> UploadType] /\ row \in [Uploads -> {"none", "kept", "deleted", "gone"}]
  BY DEF QInv, TypeOK
<1>1. CASE DeletePhoto(d)
  <2>0. PICK u \in Uploads : u = del[d].of
    BY <1>1, QuotaAssumption DEF DeletePhoto, QInv, IInv, TombsFollowRows, Uploads
  <2> DEFINE n == up[u].size
  <2>1. row[u] \in {"kept", "deleted"} /\ n \in 0..MaxSize /\ n \in Nat
    <3>1. row[u] # "none" /\ order[u] \notin dropped
      BY <1>1, <2>0 DEF DeletePhoto, QInv, IInv, TombsFollowRows
    <3>2. row[u] # "gone"
      BY <3>1 DEF QInv, IInv, GoneWithBooking
    <3> QED
      BY <1>0, <3>1, <3>2, QuotaAssumption DEF UploadType
  <2>2. /\ row' = [row EXCEPT ![u] = "deleted"]
        /\ used' = Decreased(n) /\ drifted' = (drifted \/ row[u] = "deleted")
        /\ lock = None /\ UNCHANGED <<up, lock>>
    BY <1>1, <2>0 DEF DeletePhoto
  <2>3. used' \in Nat /\ (used >= n => used' = used - n)
    BY <1>0, <2>1, <2>2 DEF Decreased
  <2>4. UsedIsCharged'
    <3> SUFFICES ASSUME ~drifted' PROVE used' = Bytes'
      BY DEF UsedIsCharged
    <3>1. row[u] = "kept" /\ ~drifted /\ used = Bytes
      BY <2>1, <2>2 DEF QInv, UsedIsCharged
    <3>2. /\ Charges(u) /\ ~Charges(u)'
          /\ \A v \in Uploads : v # u => row'[v] = row[v] /\ up'[v] = up[v]
      BY <1>0, <2>2, <3>1 DEF Charges
    <3>3. Bytes >= up[u].size /\ Bytes' = Bytes - up[u].size
      BY <2>1, <3>2, ChargedShrinks
    <3> QED
      BY <2>3, <3>1, <3>3
  <2> QED
    BY <1>0, <2>2, <2>3, <2>4, CounterWritten
<1>2. CASE ~DeletePhoto(d)
  <2>1. UNCHANGED <<used, lock, up, row, drifted>>
    BY <1>2 DEF DeleteStep, FindPhoto, RefuseDelete, DeleteObject, Retry, history
  <2>2. Bytes' = Bytes
    BY <2>1, ChargedStays DEF Charges
  <2> QED
    BY <1>0, <2>1, <2>2, CounterWritten DEF QInv, UsedIsCharged
<1> QED
  BY <1>1, <1>2

(* A booking that is deleted leaves its photos charged. *)
LEMMA DropCounts ==
  ASSUME QInv, IInv', NEW b \in Bookings, DropBooking(b)
  PROVE  QInv'
<1>1. UNCHANGED <<order, used, lock, up, drifted>> /\ dropped' \subseteq Bookings
  BY DEF DropBooking, history, QInv, TypeOK
<1>2. \A u \in Uploads : Charges(u)' <=> Charges(u)
  BY DEF DropBooking, Charges, QInv, TypeOK
<1>3. Bytes' = Bytes
  BY <1>1, <1>2, ChargedStays
<1> QED
  BY <1>1, <1>3, CounterWritten DEF QInv, TypeOK, UsedIsCharged

CommitFits ==
    \A u \in Uploads :
        (row[u] = "none" /\ row'[u] = "kept" /\ up[u].size > 0 /\ ~drifted)
            => Bytes' <= Quota

LEMMA NextQ == QInv /\ [Next]_vars => QInv' /\ [CommitFits]_vars
<1> SUFFICES ASSUME QInv, [Next]_vars
             PROVE  QInv' /\ [CommitFits]_vars
  OBVIOUS
<1>0. IInv'
  BY NextInv DEF QInv
<1>r. row \in [Uploads -> {"none", "kept", "deleted", "gone"}]
  BY DEF QInv, TypeOK
<1>1. ASSUME NEW u \in Uploads, StreamStep(u) \/ RecordStep(u) \/ FailUpload(u)
      PROVE QInv' /\ CommitFits
  <2>1. row' = row
    BY <1>1 DEF StreamStep, RecordStep, ReserveChunk, ExtendChunk, Outlive, StoreObject,
                FinalizeStream, FailUpload, AbandonUpload, ReserveRecord
  <2> QED
    BY <1>0, <1>1, <2>1, UploadStepsCount DEF CommitFits
<1>2. ASSUME NEW u \in Uploads, CommitUpload(u) PROVE QInv' /\ CommitFits
  <2>1. \A v \in Uploads : v # u => row'[v] = row[v]
    BY <1>r, <1>2 DEF CommitUpload
  <2> QED
    BY <1>0, <1>2, <2>1, CommitCounts DEF CommitFits
<1>3. ASSUME NEW d \in Deletes, DeleteStep(d) PROVE QInv' /\ CommitFits
  <2>1. \A v \in Uploads : row'[v] = "kept" => row[v] = "kept"
    BY <1>r, <1>3 DEF DeleteStep, FindPhoto, DeletePhoto, RefuseDelete, DeleteObject, Retry
  <2> QED
    BY <1>0, <1>3, <2>1, DeleteCounts DEF CommitFits
<1>4. ASSUME NEW b \in Bookings, DropBooking(b) PROVE QInv' /\ CommitFits
  <2>1. \A u \in Uploads : row'[u] = "kept" => row[u] = "kept"
    BY <1>r, <1>4 DEF DropBooking
  <2> QED
    BY <1>0, <1>4, <2>1, DropCounts DEF CommitFits
<1>5. CASE UNCHANGED vars
  <2>1. UNCHANGED <<used, lock, up, row, drifted>>
    BY <1>5 DEF vars
  <2>2. Bytes' = Bytes
    BY <2>1, ChargedStays DEF Charges
  <2>3. QInv'
    BY <1>0, <2>1, <2>2, CounterWritten DEF QInv, TypeOK, UsedIsCharged
  <2> QED
    BY <1>5, <2>3
<1> QED
  BY <1>1, <1>2, <1>3, <1>4, <1>5 DEF Next, Uploads

LEMMA AlwaysQ == Spec => []QInv
<1>1. QInv /\ [Next]_vars => QInv'
  BY NextQ
<1> QED
  BY <1>1, InitQ, PTL DEF Spec

(* Counter, rows, uploads and tombstones keep their types: the counter is      *)
(* never below zero, though a photo may be deleted twice.                      *)
THEOREM TypeCorrect == Spec => []TypeOK
<1>1. QInv => TypeOK
  BY DEF QInv
<1> QED
  BY <1>1, AlwaysQ, PTL

(* The counter equals the bytes of the rows that are there and of those that   *)
(* went with their booking, until a photo has been deleted twice, for any      *)
(* number of uploads, deletions, failures, crashes and deleted bookings.       *)
THEOREM CounterIsExact == Spec => []UsedIsCharged
<1>1. QInv => UsedIsCharged
  BY DEF QInv
<1> QED
  BY <1>1, AlwaysQ, PTL

(* No commit of bytes exceeds the quota while no photo has been deleted twice, *)
(* however long ago the upload was told that it fits.                          *)
THEOREM QuotaHolds == Spec => CommitWithinQuota
<1>1. QInv /\ [Next]_vars => [CommitFits]_vars
  BY NextQ
<1> QED
  BY <1>1, AlwaysQ, PTL DEF Spec, CommitWithinQuota, CommitFits
=============================================================================
