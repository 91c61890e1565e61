------------------------ MODULE StripeWebhookProofs ------------------------
(***************************************************************************)
(* Proofs about the webhook: the inductive invariant, and that every        *)
(* behaviour keeps the promise of EventPromise.                             *)
(***************************************************************************)
EXTENDS StripeWebhook, TLAPS

\* The states the service starts from satisfy the invariant.
LEMMA InitInv == Init => Inv
<1> SUFFICES ASSUME Init PROVE Inv
  OBVIOUS
<1>1. PICK legacy \in SUBSET Events, p \in Payloads :
        /\ event = [e \in Events |-> IF e \in legacy
                      THEN [status |-> "succeeded", payload |-> p]
                      ELSE [status |-> "absent", payload |-> NoPayload]]
        /\ applied = [e \in Events |-> IF e \in legacy THEN 1 ELSE 0]
        /\ ledger = [o \in Objects |-> {e \in legacy : ObjectOf[e] = o}]
        /\ row = [o \in Objects |-> IF ledger[o] = {} THEN "absent" ELSE "present"]
        /\ processed = {} /\ answered = {}
        /\ delivery = [d \in Deliveries |-> NoDelivery]
        /\ faults = 0
  BY DEF Init
<1>2. TypeOK
  BY <1>1, WebhookAssumption DEF TypeOK, DeliveryRecord, NoDelivery
<1>3. LockInv /\ DeliveryInv
  BY <1>1 DEF LockInv, DeliveryInv, Claims, Holds, NoDelivery
<1>4. \A e \in Events : event[e].status # "absent" => row[ObjectOf[e]] # "absent"
  <2> SUFFICES ASSUME NEW e \in Events, event[e].status # "absent"
               PROVE  row[ObjectOf[e]] # "absent"
    OBVIOUS
  <2>1. e \in legacy /\ ObjectOf[e] \in Objects
    BY <1>1, WebhookAssumption
  <2>2. e \in ledger[ObjectOf[e]]
    BY <1>1, <2>1
  <2> QED
    BY <1>1, <2>1, <2>2
<1>5. \A e \in Events :
        /\ e \in legacy => event[e].status = "succeeded" /\ applied[e] = 1
        /\ e \notin legacy => event[e].status = "absent" /\ applied[e] = 0
  BY <1>1
<1>6. EventInv
  <2>1. ASSUME NEW e \in Events
        PROVE  applied[e] > 0 <=> event[e].status = "succeeded"
    <3>1. CASE e \in legacy
      BY <1>5, <3>1
    <3>2. CASE e \notin legacy
      BY <1>5, <3>2
    <3> QED
      BY <3>1, <3>2
  <2> QED
    BY <1>4, <2>1 DEF EventInv
<1>7. LedgerComplete
  <2>1. \A o \in Objects : ledger[o] = {e \in legacy : ObjectOf[e] = o}
    BY <1>1
  <2>2. ASSUME NEW e \in Events
        PROVE  applied[e] > 0 <=> e \in legacy
    <3>1. CASE e \in legacy
      BY <1>5, <3>1
    <3>2. CASE e \notin legacy
      BY <1>5, <3>2
    <3> QED
      BY <3>1, <3>2
  <2> QED
    BY <2>1, <2>2 DEF LedgerComplete
<1>8. FailedIsRetried
  BY <1>1 DEF FailedIsRetried
<1> QED
  BY <1>2, <1>3, <1>6, <1>7, <1>8 DEF Inv

-----------------------------------------------------------------------------
(* The steps of one delivery.                                               *)

\* A delivery d moves on to pc and keeps everything else.
LEMMA PcStep ==
  ASSUME TypeOK, NEW d \in Deliveries,
         NEW pc \in {"idle", "received", "claimed", "located", "answering"},
         delivery' = [delivery EXCEPT ![d].pc = pc]
  PROVE  /\ delivery' \in [Deliveries -> DeliveryRecord]
         /\ delivery'[d].pc = pc /\ delivery'[d].ev = delivery[d].ev
         /\ \A c \in Deliveries \ {d} : delivery'[c] = delivery[c]
<1>1. delivery \in [Deliveries -> DeliveryRecord]
  BY DEF TypeOK
<1>2. [delivery[d] EXCEPT !.pc = pc] \in DeliveryRecord
  BY <1>1 DEF DeliveryRecord
<1>3. delivery' = [delivery EXCEPT ![d] = [delivery[d] EXCEPT !.pc = pc]]
  BY <1>1
<1>4. delivery[d] \in DeliveryRecord
  BY <1>1
<1>5. /\ [delivery[d] EXCEPT !.pc = pc].pc = pc
      /\ [delivery[d] EXCEPT !.pc = pc].ev = delivery[d].ev
  BY <1>4 DEF DeliveryRecord
<1> QED
  BY <1>1, <1>2, <1>3, <1>5

\* A delivery d that holds neither an id nor a row leaves the locks of the
\* others as they are.
LEMMA ReleaseKeepsLocks ==
  ASSUME Inv, NEW d \in Deliveries,
         \A c \in Deliveries \ {d} : delivery'[c] = delivery[c],
         delivery'[d].pc \notin {"claimed", "located"}
  PROVE  LockInv'
BY DEF Inv, LockInv, Claims, Holds

\* A delivery arrives.
LEMMA ReceiveInv ==
  ASSUME Inv, NEW d \in Deliveries, NEW e \in Events, NEW p \in Payloads,
         Receive(d, e, p)
  PROVE  Inv'
<1>1. /\ delivery'[d] = [pc |-> "received", ev |-> e, payload |-> p, seen |-> {}]
      /\ \A c \in Deliveries \ {d} : delivery'[c] = delivery[c]
      /\ UNCHANGED <<processed, event, row, ledger, applied, answered, faults>>
  BY DEF Receive, Inv, TypeOK, DeliveryRecord
<1>2. TypeOK'
  BY <1>1 DEF Receive, Inv, TypeOK, DeliveryRecord
<1>3. LockInv'
  BY <1>1, ReleaseKeepsLocks
<1>4. DeliveryInv'
  BY <1>1 DEF Inv, DeliveryInv
<1> QED
  BY <1>1, <1>2, <1>3, <1>4 DEF Inv, EventInv, LedgerComplete, FailedIsRetried

\* The insert of the id, which waits for a transaction that holds the same id.
LEMMA ClaimInv ==
  ASSUME Inv, NEW d \in Deliveries, Claim(d)
  PROVE  Inv'
<1> DEFINE e == delivery[d].ev
<1>1. /\ delivery[d].pc = "received" /\ e \in Events
      /\ delivery'[d].pc = IF e \in processed THEN "answering" ELSE "claimed"
      /\ delivery'[d].ev = e
      /\ \A c \in Deliveries \ {d} : delivery'[c] = delivery[c] /\ ~Claims(c, e)
      /\ UNCHANGED <<processed, event, row, ledger, applied, answered, faults>>
  BY DEF Claim, Inv, TypeOK, DeliveryRecord, DeliveryInv
<1>2. TypeOK'
  <2>1. UNCHANGED <<processed, event, row, ledger, applied, answered, faults>>
    BY <1>1
  <2>2. ASSUME NEW st \in {"answering", "claimed"},
               delivery' = [delivery EXCEPT ![d].pc = st]
        PROVE  TypeOK'
    <3>1. TypeOK
      BY DEF Inv
    <3>2. delivery' \in [Deliveries -> DeliveryRecord]
      BY <3>1, <2>2, PcStep
    <3> QED
      BY <2>1, <3>1, <3>2 DEF TypeOK
  <2> QED
    BY <2>2 DEF Claim
<1>3. LockInv'
  BY <1>1 DEF Inv, LockInv, Claims, Holds
<1>4. DeliveryInv'
  BY <1>1 DEF Inv, DeliveryInv
<1> QED
  BY <1>1, <1>2, <1>3, <1>4 DEF Inv, EventInv, LedgerComplete, FailedIsRetried

\* The row lock, and the read under it.
LEMMA LocateInv ==
  ASSUME Inv, NEW d \in Deliveries, Locate(d)
  PROVE  Inv'
<1> DEFINE e == delivery[d].ev
<1>1. /\ delivery[d].pc = "claimed" /\ e \in Events /\ e \notin processed
      /\ ObjectOf[e] \in Objects /\ row[ObjectOf[e]] = "present"
      /\ delivery'[d].pc = "located" /\ delivery'[d].ev = e
      /\ delivery'[d].seen = ledger[ObjectOf[e]]
      /\ \A c \in Deliveries \ {d} :
           delivery'[c] = delivery[c] /\ ~Holds(c, ObjectOf[e])
      /\ UNCHANGED <<processed, event, row, ledger, applied, answered, faults>>
  BY WebhookAssumption DEF Locate, MayLock, Inv, TypeOK, DeliveryRecord, DeliveryInv
<1>2. TypeOK'
  <2> DEFINE held == [pc |-> "located", ev |-> e, payload |-> delivery[d].payload,
                      seen |-> ledger[ObjectOf[e]]]
  <2>1. delivery' = [delivery EXCEPT ![d] = held]
    BY DEF Locate
  <2>2. held \in DeliveryRecord
    BY <1>1 DEF Inv, TypeOK, DeliveryRecord
  <2>3. UNCHANGED <<processed, event, row, ledger, applied, answered, faults>>
    BY <1>1
  <2> HIDE DEF held
  <2> QED
    BY <2>1, <2>2, <2>3 DEF Inv, TypeOK, DeliveryRecord
<1>3. LockInv'
  BY <1>1 DEF Inv, LockInv, Claims, Holds
<1>4. DeliveryInv'
  BY <1>1 DEF Inv, DeliveryInv
<1> QED
  BY <1>1, <1>2, <1>3, <1>4 DEF Inv, EventInv, LedgerComplete, FailedIsRetried

\* A delivery that ends without a commit, or that answers.
LEMMA LeaveInv ==
  ASSUME Inv, NEW d \in Deliveries, Mismatch(d) \/ Answer(d) \/ Crash(d)
  PROVE  Inv'
<1>1. /\ delivery' = [delivery EXCEPT ![d] = NoDelivery]
      /\ answered' \in {answered, answered \cup {delivery[d].ev}}
      /\ answered' # answered => delivery[d].pc = "answering"
      /\ faults' \in {faults, faults + 1} /\ (faults' # faults => faults < MaxFaults)
      /\ UNCHANGED <<processed, event, row, ledger, applied>>
  BY DEF Mismatch, Answer, Crash
<1>2. /\ delivery'[d].pc = "idle"
      /\ \A c \in Deliveries \ {d} : delivery'[c] = delivery[c]
  BY <1>1 DEF Inv, TypeOK, DeliveryRecord, NoDelivery
<1>3. TypeOK'
  BY <1>1, WebhookAssumption DEF Inv, TypeOK, DeliveryRecord, DeliveryInv, NoDelivery
<1>4. LockInv'
  BY <1>2, ReleaseKeepsLocks
<1>5. DeliveryInv'
  BY <1>1, <1>2 DEF Inv, DeliveryInv
<1> QED
  BY <1>1, <1>3, <1>4, <1>5 DEF Inv, EventInv, LedgerComplete, FailedIsRetried

\* A delivery that commits its id and leaves bookings and invoices alone.
LEMMA KeepIdInv ==
  ASSUME Inv, NEW d \in Deliveries, Unresolved(d) \/ Duplicate(d)
  PROVE  Inv'
<1> DEFINE e == delivery[d].ev
<1>1. /\ delivery[d].pc \in {"claimed", "located"} /\ e \in Events
      /\ row[ObjectOf[e]] # "present" \/ event[e].status # "error"
      /\ processed' = processed \cup {e}
      /\ delivery' = [delivery EXCEPT ![d].pc = "answering"]
      /\ UNCHANGED <<event, row, ledger, applied, answered, faults>>
  BY DEF Unresolved, Duplicate, Inv, DeliveryInv
<1>2. /\ delivery'[d].pc = "answering" /\ delivery'[d].ev = e
      /\ \A c \in Deliveries \ {d} : delivery'[c] = delivery[c]
  BY <1>1, PcStep DEF Inv
<1>3. TypeOK'
  <2>1. delivery' \in [Deliveries -> DeliveryRecord]
    BY <1>1, PcStep DEF Inv
  <2> QED
    BY <1>1, <2>1 DEF Inv, TypeOK
<1>4. LockInv'
  BY <1>2, ReleaseKeepsLocks
<1>5. \A c \in Deliveries \ {d} : ~Claims(c, e)
  BY <1>1 DEF Inv, LockInv, Claims
<1>6. DeliveryInv'
  BY <1>1, <1>2, <1>5 DEF Inv, DeliveryInv, Claims
<1>7. FailedIsRetried'
  BY <1>1, WebhookAssumption DEF Inv, TypeOK, FailedIsRetried, EventInv
<1> QED
  BY <1>1, <1>3, <1>4, <1>6, <1>7 DEF Inv, EventInv, LedgerComplete

\* A delivery whose handler is committed, with or without effects.
LEMMA SettleInv ==
  ASSUME Inv, NEW d \in Deliveries, Handle(d) \/ Ignore(d)
  PROVE  Inv'
<1> DEFINE e == delivery[d].ev
           o == ObjectOf[e]
<1>1. /\ delivery[d].pc = "located" /\ e \in Events /\ o \in Objects
      /\ e \notin processed /\ row[o] = "present" /\ delivery[d].seen = ledger[o]
      /\ event[e].status \in {"absent", "error"} /\ applied[e] = 0
      /\ delivery[d].payload \in Payloads \cup {NoPayload}
  BY WebhookAssumption
  DEF Handle, Ignore, Unhandled, Inv, TypeOK, DeliveryRecord, DeliveryInv, EventInv
<1>2. /\ processed' = processed \cup {e}
      /\ delivery' = [delivery EXCEPT ![d].pc = "answering"]
      /\ UNCHANGED <<row, answered, faults>>
  BY DEF Handle, Ignore, Commit
<1>3. PICK st \in {"succeeded", "ignored"} :
        /\ event' = [event EXCEPT ![e] = [status |-> st, payload |-> delivery[d].payload]]
        /\ st = "succeeded" => /\ ledger' = [ledger EXCEPT ![o] = ledger[o] \cup {e}]
                               /\ applied' = [applied EXCEPT ![e] = 1]
        /\ st = "ignored" => UNCHANGED <<ledger, applied>>
  <2>1. CASE Handle(d)
    <3>1. /\ ledger' = [ledger EXCEPT ![o] = ledger[o] \cup {e}]
          /\ applied' = [applied EXCEPT ![e] = 1]
      BY <2>1, <1>1 DEF Handle, Inv, TypeOK
    <3>2. event' = [event EXCEPT ![e] =
                      [status |-> "succeeded", payload |-> delivery[d].payload]]
      BY <2>1 DEF Handle, Commit
    <3> QED
      BY <3>1, <3>2
  <2>2. CASE Ignore(d)
    BY <2>2 DEF Ignore, Commit
  <2> QED
    BY <2>1, <2>2
<1>4. /\ delivery'[d].pc = "answering" /\ delivery'[d].ev = e
      /\ \A c \in Deliveries \ {d} : delivery'[c] = delivery[c]
  BY <1>2, PcStep DEF Inv
<1>5. TypeOK'
  <2>1. ledger' \in [Objects -> SUBSET Events] /\ applied' \in [Events -> Nat]
    <3>1. CASE st = "succeeded"
      <4>1. ledger' \in [Objects -> SUBSET Events]
        BY <1>1, <1>3, <3>1 DEF Inv, TypeOK
      <4>2. applied' \in [Events -> Nat]
        BY <1>3, <3>1 DEF Inv, TypeOK
      <4> QED
        BY <4>1, <4>2
    <3>2. CASE st = "ignored"
      BY <1>3, <3>2 DEF Inv, TypeOK
    <3> QED
      BY <3>1, <3>2
  <2>2. event' \in [Events -> [status : {"absent", "succeeded", "ignored", "error"},
                               payload : Payloads \cup {NoPayload}]]
    BY <1>1, <1>3 DEF Inv, TypeOK
  <2>3. delivery' \in [Deliveries -> DeliveryRecord]
    BY <1>2, PcStep DEF Inv
  <2> QED
    BY <1>1, <1>2, <2>1, <2>2, <2>3 DEF Inv, TypeOK
<1>6. LockInv'
  BY <1>4, ReleaseKeepsLocks
<1>7. \A c \in Deliveries \ {d} : ~Claims(c, e) /\ ~Holds(c, o)
  BY <1>1 DEF Inv, LockInv, Claims, Holds
<1>8. DeliveryInv'
  <2> SUFFICES ASSUME NEW c \in Deliveries \ {d}, delivery[c].pc # "idle"
               PROVE  /\ delivery[c].pc \in {"claimed", "located"} =>
                           delivery[c].ev \notin processed'
                      /\ delivery[c].pc = "located" =>
                           delivery[c].seen = ledger'[ObjectOf[delivery[c].ev]]
                      /\ delivery[c].pc = "answering" => delivery[c].ev \in processed'
    BY <1>1, <1>2, <1>4 DEF Inv, DeliveryInv
  <2>1. delivery[c].pc \in {"claimed", "located"} => delivery[c].ev # e
    BY <1>7 DEF Claims
  <2>2. delivery[c].pc = "located" => ObjectOf[delivery[c].ev] # o
    BY <1>7 DEF Holds
  <2>3. \A x \in Objects \ {o} : ledger'[x] = ledger[x]
    BY <1>3 DEF Inv, TypeOK
  <2>4. ObjectOf[delivery[c].ev] \in Objects
    BY WebhookAssumption DEF Inv, DeliveryInv
  <2> QED
    BY <1>2, <2>1, <2>2, <2>3, <2>4 DEF Inv, DeliveryInv
<1>9. /\ event'[e].status = st
      /\ \A x \in Events \ {e} : event'[x] = event[x] /\ applied'[x] = applied[x]
      /\ applied'[e] = IF st = "succeeded" THEN 1 ELSE 0
  BY <1>1, <1>3 DEF Inv, TypeOK
<1>10. EventInv'
  BY <1>1, <1>2, <1>9 DEF Inv, EventInv
<1>11. LedgerComplete'
  <2>1. CASE st = "ignored"
    BY <1>3, <2>1 DEF Inv, LedgerComplete
  <2>2. CASE st = "succeeded"
    BY <1>1, <1>3, <1>9, <2>2 DEF Inv, TypeOK, LedgerComplete
  <2> QED
    BY <2>1, <2>2
<1>12. FailedIsRetried'
  BY <1>2, <1>3, <1>9 DEF Inv, TypeOK, FailedIsRetried
<1> QED
  BY <1>5, <1>6, <1>8, <1>10, <1>11, <1>12 DEF Inv

\* A delivery whose handler raises.
LEMMA RaiseInv ==
  ASSUME Inv, NEW d \in Deliveries, Raise(d)
  PROVE  Inv'
<1> DEFINE e == delivery[d].ev
<1>1. /\ e \in Events /\ e \notin processed /\ row[ObjectOf[e]] = "present"
      /\ event[e].status # "succeeded"
      /\ delivery[d].payload \in Payloads \cup {NoPayload}
  BY DEF Raise, Unhandled, Inv, TypeOK, DeliveryRecord, DeliveryInv
<1>2. /\ event' = [event EXCEPT ![e] = [status |-> "error", payload |-> delivery[d].payload]]
      /\ delivery' = [delivery EXCEPT ![d] = NoDelivery]
      /\ faults' = faults + 1 /\ faults < MaxFaults
      /\ UNCHANGED <<processed, row, ledger, applied, answered>>
  BY DEF Raise
<1>3. /\ event'[e].status = "error"
      /\ \A x \in Events \ {e} : event'[x] = event[x]
      /\ delivery'[d].pc = "idle"
      /\ \A c \in Deliveries \ {d} : delivery'[c] = delivery[c]
  BY <1>1, <1>2 DEF Inv, TypeOK, DeliveryRecord, NoDelivery
<1>4. TypeOK'
  BY <1>1, <1>2, WebhookAssumption DEF Inv, TypeOK, DeliveryRecord, NoDelivery
<1>5. LockInv'
  BY <1>3, ReleaseKeepsLocks
<1>6. DeliveryInv'
  BY <1>2, <1>3 DEF Inv, DeliveryInv
<1>7. EventInv' /\ FailedIsRetried'
  BY <1>1, <1>2, <1>3 DEF Inv, EventInv, FailedIsRetried
<1> QED
  BY <1>2, <1>4, <1>5, <1>6, <1>7 DEF Inv, LedgerComplete

\* Bookings and invoices appear, and a DELETE waits for the row lock.
LEMMA RowInv ==
  ASSUME Inv, NEW o \in Objects, RowAppears(o) \/ RowDeleted(o)
  PROVE  Inv'
<1>1. PICK st \in {"present", "deleted"} :
        /\ row' = [row EXCEPT ![o] = st]
        /\ st = "present" => row[o] = "absent"
        /\ st = "deleted" => \A d \in Deliveries : ~Holds(d, o)
        /\ row[o] # "deleted"
        /\ UNCHANGED <<processed, event, ledger, applied, delivery, answered, faults>>
  BY DEF RowAppears, RowDeleted
<1>2. row'[o] = st /\ \A x \in Objects \ {o} : row'[x] = row[x]
  BY <1>1 DEF Inv, TypeOK
<1>3. TypeOK'
  BY <1>1 DEF Inv, TypeOK
<1>4. LockInv'
  BY <1>1 DEF Inv, LockInv, Claims, Holds
<1>5. DeliveryInv'
  BY <1>1, <1>2, WebhookAssumption DEF Inv, DeliveryInv, Holds
<1>6. EventInv' /\ FailedIsRetried'
  BY <1>1, <1>2, WebhookAssumption DEF Inv, TypeOK, EventInv, FailedIsRetried
<1> QED
  BY <1>1, <1>3, <1>4, <1>5, <1>6 DEF Inv, LedgerComplete

\* Every step keeps the invariant.
LEMMA StepInv ==
  ASSUME Inv, [Next]_vars
  PROVE  Inv'
<1>1. ASSUME NEW d \in Deliveries, Deliver(d)
      PROVE  Inv'
  BY <1>1, ReceiveInv, ClaimInv, LocateInv, LeaveInv, KeepIdInv, SettleInv, RaiseInv
  DEF Deliver, Finish
<1>2. CASE UNCHANGED vars
  BY <1>2 DEF vars, Inv, TypeOK, LockInv, DeliveryInv, EventInv, LedgerComplete,
              FailedIsRetried, Claims, Holds
<1> QED
  BY <1>1, <1>2, RowInv DEF Next

\* The invariant holds in every behaviour of the webhook.
THEOREM Invariance == Spec => []Inv
<1>1. Inv /\ [Next]_vars => Inv'
  BY StepInv
<1> QED
  BY InitInv, <1>1, PTL DEF Spec

\* Rows and deliveries have their types in every behaviour.
THEOREM TypeCorrect == Spec => []TypeOK
<1>1. Inv => TypeOK
  BY DEF Inv
<1> QED
  BY Invariance, <1>1, PTL

\* The row lock of _lock_booking and _lock_invoice: no handler's writes are lost
\* to a concurrent delivery about the same row.
THEOREM NoLostUpdate == Spec => []LedgerComplete
<1>1. Inv => LedgerComplete
  BY DEF Inv
<1> QED
  BY Invariance, <1>1, PTL

\* The deletion of the processed id after an exception: an event whose handler
\* raised stays open for Stripe's next delivery while its row is there.
THEOREM FailedStaysOpen == Spec => []FailedIsRetried
<1>1. Inv => FailedIsRetried
  BY DEF Inv
<1> QED
  BY Invariance, <1>1, PTL

-----------------------------------------------------------------------------
(* The webhook implements its promise.                                      *)

\* A step of a delivery applies, drops or answers one event, or none.
LEMMA DeliverKeepsPromise ==
  ASSUME Inv, NEW d \in Deliveries, Deliver(d)
  PROVE  [Promise!Next]_(Promise!promiseVars)
<1> DEFINE dropped == {x \in processed : applied[x] = 0}
<1>0. PICK e : e = delivery[d].ev
  OBVIOUS
<1>1. CASE UNCHANGED <<processed, applied, answered>>
  BY <1>1 DEF Promise!promiseVars
<1>2. CASE Unresolved(d) \/ Duplicate(d) \/ Ignore(d)
  <2>1. /\ e \in Events /\ e \notin processed /\ applied[e] \in Nat
        /\ processed' = processed \cup {e}
        /\ UNCHANGED <<applied, answered>>
    BY <1>0, <1>2 DEF Unresolved, Duplicate, Ignore, Unhandled, Commit, Inv, TypeOK, DeliveryInv
  <2>2. CASE applied[e] = 0
    <3>1. dropped' = dropped \cup {e} /\ e \notin dropped
      BY <2>1, <2>2
    <3>2. Promise!Drop(e)
      BY <2>1, <2>2, <3>1 DEF Promise!Drop, Promise!Settled
    <3> QED
      BY <2>1, <3>2 DEF Promise!Next
  <2>3. CASE applied[e] > 0
    <3>1. dropped' = dropped
      BY <2>1, <2>3
    <3> QED
      BY <2>1, <3>1 DEF Promise!promiseVars
  <2> QED
    BY <2>1, <2>2, <2>3
<1>3. CASE Handle(d)
  <2>1. /\ e \in Events /\ e \notin processed /\ applied[e] = 0
        /\ processed' = processed \cup {e}
        /\ applied' = [applied EXCEPT ![e] = 1]
        /\ UNCHANGED answered
    <3>1. e \in Events /\ e \notin processed
      BY <1>0, <1>3 DEF Handle, Unhandled, Inv, DeliveryInv
    <3>2. applied[e] \in Nat /\ event[e].status # "succeeded"
      BY <1>0, <1>3, <3>1 DEF Handle, Unhandled, Inv, TypeOK
    <3>3. applied[e] = 0
      BY <3>1, <3>2 DEF Inv, EventInv
    <3>4. applied' = [applied EXCEPT ![e] = 1]
      BY <1>0, <1>3, <3>3 DEF Handle
    <3> QED
      BY <1>0, <1>3, <3>1, <3>3, <3>4 DEF Handle, Commit
  <2>2. dropped' = dropped
    BY <2>1 DEF Inv, TypeOK
  <2>3. Promise!Apply(e)
    BY <2>1, <2>2 DEF Promise!Apply, Promise!Settled
  <2> QED
    BY <2>1, <2>3 DEF Promise!Next
<1>4. CASE Answer(d)
  <2>1. /\ e \in processed /\ e \in Events /\ applied[e] \in Nat
        /\ answered' = answered \cup {e}
        /\ UNCHANGED <<processed, applied>>
    BY <1>0, <1>4 DEF Answer, Inv, TypeOK, DeliveryInv
  <2>2. Promise!Answer(e)
    BY <2>1 DEF Promise!Answer, Promise!Settled
  <2> QED
    BY <2>1, <2>2 DEF Promise!Next
<1>5. \/ UNCHANGED <<processed, applied, answered>>
      \/ Unresolved(d) \/ Duplicate(d) \/ Ignore(d) \/ Handle(d) \/ Answer(d)
  BY DEF Deliver, Finish, Receive, Claim, Locate, Mismatch, Raise, Crash
<1> QED
  BY <1>1, <1>2, <1>3, <1>4, <1>5

\* The webhook implements EventPromise: effects at most once, and success only for
\* events that were applied or dropped.
THEOREM ImplementsPromise == Spec => PromiseKept
<1>1. Init => Promise!Init
  BY DEF Init, Promise!Init
<1>2. Inv /\ [Next]_vars => [Promise!Next]_(Promise!promiseVars)
  <2> SUFFICES ASSUME Inv, [Next]_vars
               PROVE  [Promise!Next]_(Promise!promiseVars)
    OBVIOUS
  <2>1. CASE \E d \in Deliveries : Deliver(d)
    BY <2>1, DeliverKeepsPromise
  <2>2. CASE UNCHANGED <<processed, applied, answered>>
    BY <2>2 DEF Promise!promiseVars
  <2> QED
    BY <2>1, <2>2 DEF Next, RowAppears, RowDeleted, vars
<1> QED
  BY Invariance, <1>1, <1>2, PTL DEF Spec, PromiseKept, Promise!Spec
=============================================================================
