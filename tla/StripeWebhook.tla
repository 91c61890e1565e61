--------------------------- MODULE StripeWebhook ---------------------------
(***************************************************************************)
(* POST /v1/payments/stripe/webhook: concurrent deliveries of Stripe events *)
(* about bookings and invoices.  A delivery is one transaction: it inserts  *)
(* the event's id into stripe_events_processed, locks the booking or the    *)
(* invoice, records the event in stripe_events, runs the handler in a       *)
(* savepoint and commits; a handler that raises gives the id back.  What a  *)
(* handler does is abstracted to the events its object has absorbed.        *)
(***************************************************************************)
EXTENDS Naturals

CONSTANTS Events,       \* Stripe event ids
          Deliveries,   \* deliveries the server handles at once
          Objects,      \* bookings and invoices
          ObjectOf,     \* the object each event is about
          Payloads,     \* the bodies an event may be delivered with
          MaxFaults,    \* bound: handlers that raise and processes that die
          NoEvent, NoPayload

ASSUME WebhookAssumption ==
  /\ ObjectOf \in [Events -> Objects]
  /\ MaxFaults \in Nat
  /\ NoEvent \notin Events
  /\ NoPayload \notin Payloads

VARIABLES
  processed,  \* ids in stripe_events_processed
  event,      \* rows of stripe_events: status and payload hash
  row,        \* bookings and invoices: not yet there, there, or deleted
  ledger,     \* events each object has absorbed
  applied,    \* how often each event's handler was committed
  delivery,   \* the deliveries in progress
  answered,   \* events answered with success
  faults      \* failures so far

vars == <<processed, event, row, ledger, applied, delivery, answered, faults>>

NoDelivery == [pc |-> "idle", ev |-> NoEvent, payload |-> NoPayload, seen |-> {}]

\* Events settled before stripe_events_processed was introduced are known to
\* stripe_events only.
Init ==
  \E legacy \in SUBSET Events, p \in Payloads :
    /\ event = [e \in Events |-> IF e \in legacy
                  THEN [status |-> "succeeded", payload |-> p]
                  ELSE [status |-> "absent", payload |-> NoPayload]]
    /\ applied = [e \in Events |-> IF e \in legacy THEN 1 ELSE 0]
    /\ ledger = [o \in Objects |-> {e \in legacy : ObjectOf[e] = o}]
    /\ row = [o \in Objects |-> IF ledger[o] = {} THEN "absent" ELSE "present"]
    /\ processed = {} /\ answered = {}
    /\ delivery = [d \in Deliveries |-> NoDelivery]
    /\ faults = 0

-----------------------------------------------------------------------------
(* Stripe and the rows the events are about.                                *)

\* Stripe delivers an event, again and again, with or without an answer.
Receive(d, e, p) ==
  /\ delivery[d].pc = "idle"
  /\ delivery' = [delivery EXCEPT ![d] =
       [pc |-> "received", ev |-> e, payload |-> p, seen |-> {}]]
  /\ UNCHANGED <<processed, event, row, ledger, applied, answered, faults>>

Holds(d, o) == delivery[d].pc = "located" /\ ObjectOf[delivery[d].ev] = o

RowAppears(o) ==
  /\ row[o] = "absent"
  /\ row' = [row EXCEPT ![o] = "present"]
  /\ UNCHANGED <<processed, event, ledger, applied, delivery, answered, faults>>

\* The cleanup's DELETE waits for the lock a delivery holds.
RowDeleted(o) ==
  /\ row[o] = "present"
  /\ \A d \in Deliveries : ~Holds(d, o)
  /\ row' = [row EXCEPT ![o] = "deleted"]
  /\ UNCHANGED <<processed, event, ledger, applied, delivery, answered, faults>>

-----------------------------------------------------------------------------
(* One delivery.                                                            *)

\* The transaction of d has inserted the id of e and not ended.
Claims(d, e) == delivery[d].ev = e /\ delivery[d].pc \in {"claimed", "located"}

\* INSERT ... ON CONFLICT DO NOTHING: it waits for a transaction that has
\* inserted the same id, and finds no row to insert if that one committed.
Claim(d) ==
  LET e == delivery[d].ev IN
  /\ delivery[d].pc = "received"
  /\ \A c \in Deliveries \ {d} : ~Claims(c, e)
  /\ delivery' = [delivery EXCEPT ![d].pc =
       IF e \in processed THEN "answering" ELSE "claimed"]
  /\ UNCHANGED <<processed, event, row, ledger, applied, answered, faults>>

LockIgnored(d, o) == TRUE

\* SELECT ... FOR UPDATE of the booking or invoice.
MayLock(d, o) == \A c \in Deliveries \ {d} : ~Holds(c, o)

Locate(d) ==
  LET o == ObjectOf[delivery[d].ev] IN
  /\ delivery[d].pc = "claimed"
  /\ row[o] = "present"
  /\ MayLock(d, o)
  /\ delivery' = [delivery EXCEPT ![d] =
       [pc |-> "located", ev |-> @.ev, payload |-> @.payload, seen |-> ledger[o]]]
  /\ UNCHANGED <<processed, event, row, ledger, applied, answered, faults>>

AbortUnresolved(d) ==
  LET e == delivery[d].ev IN
  /\ delivery[d].pc = "claimed"
  /\ row[ObjectOf[e]] # "present"
  /\ delivery' = [delivery EXCEPT ![d] = NoDelivery]
  /\ UNCHANGED <<processed, event, row, ledger, applied, answered, faults>>

\* No such booking or invoice: the id stays, and success is answered.
Unresolved(d) ==
  LET e == delivery[d].ev IN
  /\ delivery[d].pc = "claimed"
  /\ row[ObjectOf[e]] # "present"
  /\ processed' = processed \cup {e}
  /\ delivery' = [delivery EXCEPT ![d].pc = "answering"]
  /\ UNCHANGED <<event, row, ledger, applied, answered, faults>>

\* The event is recorded with another body: roll back, 400.
Mismatch(d) ==
  LET e == delivery[d].ev IN
  /\ delivery[d].pc = "located"
  /\ event[e].status # "absent" /\ event[e].payload # delivery[d].payload
  /\ delivery' = [delivery EXCEPT ![d] = NoDelivery]
  /\ UNCHANGED <<processed, event, row, ledger, applied, answered, faults>>

AlwaysUnhandled(d) ==
  delivery[d].pc = "located"

\* The handler is to run: the event is new, or its handler raised before.
Unhandled(d) ==
  LET e == delivery[d].ev IN
  /\ delivery[d].pc = "located"
  /\ \/ event[e].status = "absent"
     \/ event[e].status = "error" /\ event[e].payload = delivery[d].payload

\* Commit with the id kept; the answer is still to be sent.
Commit(d, status) ==
  LET e == delivery[d].ev IN
  /\ event' = [event EXCEPT ![e] = [status |-> status, payload |-> delivery[d].payload]]
  /\ processed' = processed \cup {e}
  /\ delivery' = [delivery EXCEPT ![d].pc = "answering"]
  /\ UNCHANGED <<row, answered, faults>>

\* The event was settled by an earlier delivery: keep the id, change nothing.
Duplicate(d) ==
  LET e == delivery[d].ev IN
  /\ delivery[d].pc = "located"
  /\ event[e].status \in {"succeeded", "ignored"}
  /\ event[e].payload = delivery[d].payload
  /\ processed' = processed \cup {e}
  /\ delivery' = [delivery EXCEPT ![d].pc = "answering"]
  /\ UNCHANGED <<event, row, ledger, applied, answered, faults>>

\* The handler writes what follows from the object it read under the lock.
Handle(d) ==
  LET e == delivery[d].ev IN
  /\ Unhandled(d)
  /\ ledger' = [ledger EXCEPT ![ObjectOf[e]] = delivery[d].seen \cup {e}]
  /\ applied' = [applied EXCEPT ![e] = @ + 1]
  /\ Commit(d, "succeeded")

\* The handler has nothing to do for this event.
Ignore(d) ==
  /\ Unhandled(d)
  /\ Commit(d, "ignored")
  /\ UNCHANGED <<ledger, applied>>

RaiseKeepingId(d) ==
  LET e == delivery[d].ev IN
  /\ Unhandled(d) /\ faults < MaxFaults
  /\ event' = [event EXCEPT ![e] = [status |-> "error", payload |-> delivery[d].payload]]
  /\ processed' = processed \cup {e}
  /\ delivery' = [delivery EXCEPT ![d] = NoDelivery]
  /\ faults' = faults + 1
  /\ UNCHANGED <<row, ledger, applied, answered>>

\* The handler raises: the savepoint is undone, the error is recorded, the id
\* is deleted again, and 500 makes Stripe come back.
Raise(d) ==
  LET e == delivery[d].ev IN
  /\ Unhandled(d) /\ faults < MaxFaults
  /\ event' = [event EXCEPT ![e] = [status |-> "error", payload |-> delivery[d].payload]]
  /\ delivery' = [delivery EXCEPT ![d] = NoDelivery]
  /\ faults' = faults + 1
  /\ UNCHANGED <<processed, row, ledger, applied, answered>>

AnswerAfterReset(d) ==
  /\ delivery[d].pc = "answering"
  /\ delivery' = [delivery EXCEPT ![d] = NoDelivery]
  /\ answered' = answered \cup {delivery'[d].ev}
  /\ UNCHANGED <<processed, event, row, ledger, applied, faults>>

Answer(d) ==
  /\ delivery[d].pc = "answering"
  /\ answered' = answered \cup {delivery[d].ev}
  /\ delivery' = [delivery EXCEPT ![d] = NoDelivery]
  /\ UNCHANGED <<processed, event, row, ledger, applied, faults>>

\* The process dies, the commit fails, or the answer is lost.
Crash(d) ==
  /\ delivery[d].pc # "idle" /\ faults < MaxFaults
  /\ delivery' = [delivery EXCEPT ![d] = NoDelivery]
  /\ faults' = faults + 1
  /\ UNCHANGED <<processed, event, row, ledger, applied, answered>>

Finish(d) == Mismatch(d) \/ Duplicate(d) \/ Handle(d) \/ Ignore(d) \/ Raise(d)

Deliver(d) ==
  \/ \E e \in Events, p \in Payloads : Receive(d, e, p)
  \/ Claim(d) \/ Locate(d) \/ Unresolved(d) \/ Finish(d) \/ Answer(d) \/ Crash(d)

Next ==
  \/ \E d \in Deliveries : Deliver(d)
  \/ \E o \in Objects : RowAppears(o) \/ RowDeleted(o)

Spec == Init /\ [][Next]_vars

\* Stripe redelivers an event, with the body it had, until it is answered, PostgreSQL grants a lock
\* that comes free again and again, and a handler that holds its lock goes on.
Fairness ==
  /\ \A e \in Events : SF_vars(e \notin answered /\
       \E d \in Deliveries, p \in Payloads :
         event[e].payload \in {NoPayload, p} /\ Receive(d, e, p))
  /\ \A d \in Deliveries :
       /\ SF_vars(Claim(d)) /\ SF_vars(Locate(d) \/ Unresolved(d))
       /\ WF_vars(Finish(d)) /\ WF_vars(Answer(d))

FairSpec == Spec /\ Fairness

-----------------------------------------------------------------------------
(* Properties.                                                              *)

DeliveryRecord ==
  [pc : {"idle", "received", "claimed", "located", "answering"},
   ev : Events \cup {NoEvent}, payload : Payloads \cup {NoPayload},
   seen : SUBSET Events]

\* Every variable has its type.
TypeOK ==
  /\ processed \subseteq Events /\ answered \subseteq Events
  /\ event \in [Events -> [status : {"absent", "succeeded", "ignored", "error"},
                           payload : Payloads \cup {NoPayload}]]
  /\ row \in [Objects -> {"absent", "present", "deleted"}]
  /\ ledger \in [Objects -> SUBSET Events]
  /\ applied \in [Events -> Nat]
  /\ delivery \in [Deliveries -> DeliveryRecord]
  /\ faults \in 0..MaxFaults

\* No two deliveries overwrite what the other wrote on a shared booking or
\* invoice: an object shows exactly the events whose handlers were committed.
LedgerComplete ==
  \A o \in Objects : ledger[o] = {e \in Events : ObjectOf[e] = o /\ applied[e] > 0}

\* An event whose handler raised is not taken for settled as long as its
\* booking or invoice is there, so Stripe's next delivery runs it again.
FailedIsRetried ==
  \A e \in processed : event[e].status = "error" => row[ObjectOf[e]] = "deleted"

\* The webhook keeps the promise: effects at most once, whatever is delivered
\* twice, at the same time, or again after a failure, and no success answered
\* for an event that was neither applied nor dropped.
Promise == INSTANCE EventPromise
             WITH dropped <- {x \in processed : applied[x] = 0}
PromiseKept == Promise!Spec

\* With finitely many failures every event is eventually answered.
EveryEventAnswered == \A e \in Events : <>(e \in answered)

-----------------------------------------------------------------------------
(* The inductive invariant the proofs rest on.                              *)

\* Two transactions never hold the same id or the same booking or invoice.
LockInv ==
  \A c, d \in Deliveries : c # d =>
    /\ \A e \in Events : ~(Claims(c, e) /\ Claims(d, e))
    /\ \A o \in Objects : ~(Holds(c, o) /\ Holds(d, o))

\* A transaction's id is not committed yet, what it read under its lock is
\* still so, and only a settled event is being answered.
DeliveryInv ==
  \A d \in Deliveries : delivery[d].pc # "idle" =>
    /\ delivery[d].ev \in Events
    /\ delivery[d].pc \in {"claimed", "located"} => delivery[d].ev \notin processed
    /\ delivery[d].pc = "located" =>
         /\ row[ObjectOf[delivery[d].ev]] = "present"
         /\ delivery[d].seen = ledger[ObjectOf[delivery[d].ev]]
    /\ delivery[d].pc = "answering" => delivery[d].ev \in processed

\* stripe_events tells which events were applied, and only of objects that
\* have been there.
EventInv ==
  \A e \in Events :
    /\ applied[e] > 0 <=> event[e].status = "succeeded"
    /\ event[e].status # "absent" => row[ObjectOf[e]] # "absent"

Inv == TypeOK /\ LockInv /\ DeliveryInv /\ EventInv /\ LedgerComplete /\ FailedIsRetried
=============================================================================
