-------------------------- MODULE InvoicePayments ---------------------------
(***************************************************************************)
(* One invoice and its payments: Stripe checkout sessions, the webhook     *)
(* events about them in any order, manual payments, sending, reconciling.  *)
(* Webhooks and reconcile lock the invoice row; the other requests read    *)
(* it unlocked, wait for Stripe or for mail, write, and commit later.      *)
(* Each event is applied once (module StripeWebhook).  SENT stands for     *)
(* OVERDUE as well: which of the two depends on today's date only.         *)
(***************************************************************************)
EXTENDS Integers, FiniteSets, FiniteSetsExt

CONSTANTS Intents,       \* payment intents, one per checkout session
          Slots,         \* bound: payment rows about one intent
          Requests,      \* concurrent requests that do not lock the invoice
          Total,         \* total_cents of the invoice
          ManualAmounts, \* amounts staff record
          MaxManual,     \* bound on the sum of the manual payments
          ChargeNames,   \* whether a charge carries its intent's metadata
          SomeIntent, SomeSlot   \* fillers of requests without one

ASSUME InvoiceAssumption ==
  /\ Total \in Nat \ {0} /\ ManualAmounts \subseteq Nat \ {0} /\ MaxManual \in Nat
  /\ SomeIntent \in Intents /\ SomeSlot \in Slots /\ ChargeNames \subseteq BOOLEAN
  /\ IsFiniteSet(Intents) /\ IsFiniteSet(Slots)

VARIABLES
  status,    \* invoices.status
  row,       \* invoice_payments of each intent
  manual,    \* sum of the manual payments, all SUCCEEDED
  intent,    \* Stripe: the state of each checkout and its intent
  event,     \* Stripe: events not yet delivered
  request,   \* requests that do not lock the invoice
  raced,     \* history: the status was last written from a stale sum
  strayed    \* history: intents whose events were applied out of order,
             \* ignored, or overwritten by a slow checkout

vars == <<status, row, manual, intent, event, request, raced, strayed>>

Statuses == {"DRAFT", "SENT", "PARTIAL", "PAID"}
NoRow == [status |-> "none", amount |-> 0, ref |-> FALSE, session |-> FALSE]
NoRows == [i \in Intents |-> [s \in Slots |-> NoRow]]
Idle == [pc |-> "idle", kind |-> "send", intent |-> SomeIntent, slot |-> SomeSlot,
         amount |-> 0, seen |-> "DRAFT", known |-> [s \in Slots |-> NoRow],
         new |-> "DRAFT", fresh |-> TRUE]

Init ==
  /\ status = "DRAFT"
  /\ row = NoRows
  /\ manual = 0
  /\ intent = [i \in Intents |-> [state |-> "none", amount |-> 0, refunded |-> 0]]
  /\ event = {}
  /\ request = [r \in Requests |-> Idle]
  /\ raced = FALSE /\ strayed = {}

-----------------------------------------------------------------------------
(* The ledger.                                                              *)

\* What the succeeded rows of an intent add up to.
Counted(rows) ==
  MapThenSumSet(LAMBDA s : IF rows[s].status = "SUCCEEDED" THEN rows[s].amount ELSE 0, Slots)

\* _paid_cents, or its SQL form.
PaidBy(rw, m) == m + MapThenSumSet(LAMBDA i : Counted(rw[i]), Intents)
Paid == PaidBy(row, manual)

DerivedUpwards(paid, old) ==
  IF paid >= Total THEN "PAID" ELSE IF paid > 0 THEN "PARTIAL" ELSE old

\* _refresh_invoice_payment_status.
Derived(paid, old) ==
  IF paid >= Total THEN "PAID"
  ELSE IF paid > 0 THEN "PARTIAL"
  ELSE IF old = "DRAFT" THEN old ELSE "SENT"

\* _planned_reconciled_status: PARTIAL without a payment stays.
Reconciled(paid, old) == IF old = "PARTIAL" /\ ~(paid > 0) THEN old ELSE Derived(paid, old)

-----------------------------------------------------------------------------
(* Requests without the invoice lock.                                       *)

Written(r) == request[r].pc = "written"

\* Between its write and its commit a request holds the payment row it
\* updates; the invoice row, if it inserts a payment or changes the status.
NewRow(r) == row[request[r].intent][request[r].slot].status = "none"
HoldsRow(i) == \E r \in Requests : Written(r) /\ request[r].kind = "checkout"
                                     /\ request[r].intent = i /\ ~NewRow(r)
Inserts(r) == request[r].kind = "manual" \/ (request[r].kind = "checkout" /\ NewRow(r))
InvoiceHeld == \E r \in Requests : Written(r) /\ request[r].kind # "send" /\
                 (Inserts(r) \/ request[r].new # request[r].seen)

Free(i) == {s \in Slots : row[i][s].status = "none" /\
              \A r \in Requests : Written(r) /\ request[r].kind = "checkout" =>
                request[r].intent # i \/ request[r].slot # s}
NewSlots(i) == IF Free(i) = {} THEN {} ELSE {CHOOSE s \in Free(i) : TRUE}
WithRef(i) == {s \in Slots : row[i][s].ref}
WithSession(i) == {s \in Slots : row[i][s].session}

\* A checkout for amount a gets intent i: the idempotency key gives back an
\* earlier session of the same amount, or Stripe has forgotten the key.
SessionFor(i, a) == intent[i].state = "none" \/ intent[i].amount = a

Enter(r, q) ==
  /\ request[r].pc = "idle"
  /\ request' = [request EXCEPT ![r] = q]
  /\ UNCHANGED <<status, row, manual, event, raced, strayed>>

BeginCheckout(r, i) ==
  LET due == Total - Paid IN
  /\ status # "DRAFT" /\ due \in 1..Total /\ SessionFor(i, due)
  /\ intent' = IF intent[i].state = "none"
               THEN [intent EXCEPT ![i] = [state |-> "made", amount |-> due, refunded |-> 0]]
               ELSE intent
  /\ Enter(r, [Idle EXCEPT !.pc = "loaded", !.kind = "checkout", !.intent = i,
                           !.amount = due, !.seen = status, !.known = row[i]])

BeginManual(r, a) ==
  /\ a + manual <= MaxManual
  /\ Enter(r, [Idle EXCEPT !.pc = "loaded", !.kind = "manual", !.amount = a, !.seen = status])
  /\ UNCHANGED intent

\* Sending and reminding mail the customer between the read and the write.
BeginSend(r) ==
  /\ status = "DRAFT"
  /\ Enter(r, [Idle EXCEPT !.pc = "written", !.kind = "send", !.new = "SENT"])
  /\ UNCHANGED intent

\* The columns that differ from what the request has loaded are written.
Saved(now, known, new) == [c \in DOMAIN now |-> IF new[c] = known[c] THEN now[c] ELSE new[c]]

\* register_payment with status PENDING, on slot s of the intent of q.
Pending(rw, q, s) ==
  LET now == rw[q.intent][s]
      known == IF q.known[s].status = "none" THEN now ELSE q.known[s]
  IN Saved(now, known, [status |-> "PENDING", amount |-> q.amount, ref |-> known.ref, session |-> TRUE])

WithPending(rw, q, s) == [rw EXCEPT ![q.intent][s] = Pending(rw, q, s)]

SaveRequest(r, s, paid) ==
  /\ request' = [request EXCEPT ![r].pc = "written", ![r].slot = s,
                                ![r].new = Derived(paid, request[r].seen), ![r].fresh = TRUE]
  /\ UNCHANGED <<status, row, manual, intent, event, raced, strayed>>

WriteCheckout(r) ==
  LET q == request[r]
      found == WithSession(q.intent)
  IN
  /\ q.pc = "loaded" /\ q.kind = "checkout" /\ ~HoldsRow(q.intent)
  /\ \E s \in IF found = {} THEN NewSlots(q.intent) ELSE found :
       SaveRequest(r, s, PaidBy(WithPending(row, q, s), manual))

WriteManual(r) ==
  /\ request[r].pc = "loaded" /\ request[r].kind = "manual"
  /\ SaveRequest(r, SomeSlot, PaidBy(row, manual + request[r].amount))

\* The other requests that have written computed their sum before this.
Outdated(q) == [q EXCEPT !.fresh = q.fresh /\ q.pc # "written"]
Outdate(r) == request' = [p \in Requests |-> IF p = r THEN Idle ELSE Outdated(request[p])]

Overwrites(q) == q.kind = "checkout" /\ row[q.intent][q.slot].status = "SUCCEEDED"
                 /\ Pending(row, q, q.slot).status = "PENDING"

Commit(r) ==
  LET q == request[r] IN
  /\ Written(r)
  /\ row' = IF q.kind = "checkout" THEN WithPending(row, q, q.slot) ELSE row
  /\ manual' = IF q.kind = "manual" THEN manual + q.amount ELSE manual
  /\ status' = IF q.new # q.seen THEN q.new ELSE status
  /\ raced' = (raced \/ ~q.fresh \/ (q.new = q.seen /\ status # q.seen))
  /\ strayed' = IF Overwrites(q) THEN strayed \cup {q.intent} ELSE strayed
  /\ intent' = IF q.kind = "checkout" /\ intent[q.intent].state = "made"
               THEN [intent EXCEPT ![q.intent].state = "open"] ELSE intent
  /\ Outdate(r) /\ UNCHANGED event

\* Stripe or the mail adapter fails, the client goes away, the process dies.
Abort(r) ==
  /\ request[r].pc # "idle"
  /\ request' = [request EXCEPT ![r] = Idle]
  /\ UNCHANGED <<status, row, manual, intent, event, raced, strayed>>

-----------------------------------------------------------------------------
(* Webhook events and reconciling: the invoice row is locked.               *)

Rank(e) == CASE e.kind = "failed" -> 0
             [] e.kind \in {"completed", "succeeded"} -> 1
             [] e.kind = "refunded" -> 1 + e.refunded

\* An older event about the same intent is still to come.
Overtakes(e) == \E d \in event : d.intent = e.intent /\ Rank(d) < Rank(e)

Took(e) ==
  /\ e \in event /\ event' = event \ {e}
  /\ UNCHANGED <<manual, intent>>

Refreshed ==
  /\ status' = Derived(PaidBy(row', manual), status)
  /\ raced' = FALSE
  /\ request' = [r \in Requests |-> Outdated(request[r])]

Stray(i, if) == strayed' = IF if THEN strayed \cup {i} ELSE strayed

MatchesSession(e) == IF e.kind = "completed" THEN WithSession(e.intent) ELSE {}

\* register_payment looks for the intent, then for the session if the event
\* names it, and else inserts a row.
Matches(e) ==
  IF WithRef(e.intent) = {} /\ e.kind = "completed" THEN WithSession(e.intent) ELSE WithRef(e.intent)

Record(e, st) ==
  LET i == e.intent IN
  /\ ~InvoiceHeld /\ (Matches(e) = {} \/ ~HoldsRow(i))
  /\ \E s \in IF Matches(e) = {} THEN NewSlots(i) ELSE Matches(e) :
       row' = [row EXCEPT ![i][s] =
         [status |-> st, amount |-> intent[i].amount, ref |-> TRUE,
          session |-> row[i][s].session \/ e.kind = "completed"]]
  /\ Refreshed /\ Stray(i, Overtakes(e))

PaymentEvent(e) ==
  /\ Took(e)
  /\ \/ e.kind \in {"completed", "succeeded"} /\ Record(e, "SUCCEEDED")
     \/ e.kind = "failed" /\ Record(e, "FAILED")

Gross(charged, now, refunded) == charged
Subtracted(charged, now, refunded) == now - refunded

\* Of what was charged, whatever the row says now.
Net(charged, now, refunded) == charged - refunded

\* charge.refunded, with the total refunded so far.
Refunded(e) ==
  LET i == e.intent IN
  /\ Took(e) /\ e.kind = "refunded" /\ ~e.named /\ WithRef(i) # {}
  /\ ~InvoiceHeld /\ ~HoldsRow(i)
  /\ row' = [row EXCEPT ![i] = [s \in Slots |->
       IF ~row[i][s].ref THEN row[i][s]
       ELSE [row[i][s] EXCEPT !.amount = Net(intent[i].amount, @, e.refunded),
                              !.status = IF e.refunded >= intent[i].amount THEN "FAILED" ELSE @]]]
  /\ Refreshed /\ Stray(i, Overtakes(e))

\* A refund that names the invoice goes to _handle_invoice_event, which does
\* not know it; one without a payment row is acknowledged as well.
RefundIgnored(e) ==
  /\ Took(e) /\ e.kind = "refunded" /\ (e.named \/ WithRef(e.intent) = {})
  /\ Stray(e.intent, TRUE)
  /\ UNCHANGED <<status, row, request, raced>>

\* invoice.finalized.
Finalized ==
  /\ status = "DRAFT" /\ ~InvoiceHeld
  /\ status' = "SENT"
  /\ request' = [r \in Requests |-> Outdated(request[r])]
  /\ UNCHANGED <<row, manual, intent, event, raced, strayed>>

Reconcile ==
  /\ ~InvoiceHeld
  /\ status' = Reconciled(Paid, status)
  /\ raced' = (raced /\ status = "PARTIAL" /\ ~(Paid > 0))
  /\ request' = [r \in Requests |-> Outdated(request[r])]
  /\ UNCHANGED <<row, manual, intent, event, strayed>>

-----------------------------------------------------------------------------
(* Stripe and the customer.                                                 *)

Event(kind, i, refunded, named) ==
  [kind |-> kind, intent |-> i, refunded |-> refunded, named |-> named]

\* A card is declined; the customer may try again in the same session.
Decline(i) ==
  /\ intent[i].state = "open"
  /\ intent' = [intent EXCEPT ![i].state = "retry"]
  /\ event' = event \cup {Event("failed", i, 0, FALSE)}
  /\ UNCHANGED <<status, row, manual, request, raced, strayed>>

Pay(i) ==
  /\ intent[i].state \in {"open", "retry"}
  /\ intent' = [intent EXCEPT ![i].state = "paid"]
  /\ event' = event \cup {Event(k, i, 0, FALSE) : k \in {"completed", "succeeded"}}
  /\ UNCHANGED <<status, row, manual, request, raced, strayed>>

Refund(i, a, named) ==
  LET total == intent[i].refunded + a IN
  /\ intent[i].state = "paid" /\ total <= intent[i].amount
  /\ intent' = [intent EXCEPT ![i].refunded = total]
  /\ event' = event \cup {Event("refunded", i, total, named)}
  /\ UNCHANGED <<status, row, manual, request, raced, strayed>>

Unlocked(r) ==
  \/ \E i \in Intents : BeginCheckout(r, i)
  \/ \E a \in ManualAmounts : BeginManual(r, a)
  \/ BeginSend(r) \/ WriteCheckout(r) \/ WriteManual(r) \/ Commit(r) \/ Abort(r)

Webhook == \E e \in event : PaymentEvent(e) \/ Refunded(e) \/ RefundIgnored(e)

Stripe(i) == Decline(i) \/ Pay(i) \/ \E a \in 1..Total, named \in ChargeNames : Refund(i, a, named)

Next ==
  \/ \E r \in Requests : Unlocked(r)
  \/ Webhook \/ Finalized \/ Reconcile
  \/ \E i \in Intents : Stripe(i)

Spec == Init /\ [][Next]_vars

-----------------------------------------------------------------------------
(* Properties.                                                              *)

RowStatuses == {"none", "PENDING", "SUCCEEDED", "FAILED"}
RowType == [status : RowStatuses, amount : Nat, ref : BOOLEAN, session : BOOLEAN]
IntentType == [state : {"none", "made", "open", "retry", "paid"}, amount : Nat, refunded : Nat]
EventType == [kind : {"failed", "completed", "succeeded", "refunded"}, intent : Intents,
              refunded : Nat, named : BOOLEAN]
RequestType == [pc : {"idle", "loaded", "written"}, kind : {"checkout", "manual", "send"},
                intent : Intents, slot : Slots, amount : Nat, seen : Statuses,
                known : [Slots -> RowType], new : Statuses, fresh : BOOLEAN]

(* Every row, event and request keeps its type; amounts are not negative.   *)
TypeOK ==
  /\ status \in Statuses
  /\ row \in [Intents -> [Slots -> RowType]]
  /\ manual \in Nat
  /\ intent \in [Intents -> IntentType]
  /\ event \subseteq EventType
  /\ request \in [Requests -> RequestType]
  /\ raced \in BOOLEAN /\ strayed \subseteq Intents

(* A captured payment counts at most once in the invoice and never with     *)
(* more than was captured, although checkout and webhooks may each create a *)
(* row for it and events come in any order.                                 *)
CountedOnce ==
  \A i \in Intents, s, t \in Slots :
    row[i][s].status = "SUCCEEDED" =>
      /\ intent[i].state = "paid" /\ row[i][s].amount <= intent[i].amount
      /\ row[i][t].status = "SUCCEEDED" => s = t

(* The status says what the payments add up to, whatever is refunded and    *)
(* recorded, unless a request that does not lock the invoice wrote it from  *)
(* a stale sum or kept it because of a stale read.  The next webhook, and a *)
(* reconcile, repair it.                                                    *)
StatusFollows ==
  raced \/ /\ (status = "PAID") <=> (Paid >= Total)
           /\ (status = "PARTIAL") <=> (~(Paid >= Total) /\ Paid > 0)

(* Once the events about a payment have all been applied, in order, the     *)
(* invoice counts what Stripe has captured and not refunded.                *)
InOrderAgrees ==
  \A i \in Intents :
    i \in strayed \/ (\E e \in event : e.intent = i) \/
    Counted(row[i]) = IF intent[i].state = "paid" THEN intent[i].amount - intent[i].refunded ELSE 0
=============================================================================
