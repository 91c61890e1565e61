--------------------------- MODULE DepositBooking ---------------------------
(***************************************************************************)
(* The deposit of a cleaning booking, from the request that creates the    *)
(* booking to the Stripe events that settle it.  The bookings table, the   *)
(* checkout attempts, the payments and the table of processed Stripe       *)
(* events are the database; Stripe keeps checkout sessions, an idempotency *)
(* cache and the events it has emitted, which it may deliver late, twice   *)
(* or in any order.  Request handlers (creation, deposit checkout, staff   *)
(* operations) hold what they read across an await and may crash.          *)
(***************************************************************************)
EXTENDS Naturals, FiniteSets

CONSTANTS Bookings,         \* booking ids, generated before the row exists
          Sessions,         \* Stripe checkout sessions (one payment intent each)
          Handlers,         \* concurrent POST /v1/payments/deposit/checkout calls
          Staff,            \* concurrent confirm, cancel and complete calls
          SlotOf,           \* the (org, team, starts_at) of each booking
          HighRisk,         \* bookings whose risk_band is HIGH
          ManualStatuses,   \* statuses written by the dispatcher and bulk endpoints
          IntentAtCreation, \* does Stripe name the payment intent at creation?
          NoSession, NoBooking

Statuses == {"PENDING", "CONFIRMED", "DONE", "CANCELLED", "PLANNED", "IN_PROGRESS"}
BlockingStatuses == {"PENDING", "CONFIRMED"}
DepositStatuses == {"none", "pending", "paid", "expired", "failed"}
EventKinds == {"completed", "expired", "declined"}

ASSUME ConstantsAssumption ==
  /\ HighRisk \subseteq Bookings
  /\ ManualStatuses \subseteq Statuses
  /\ IntentAtCreation \in BOOLEAN
  /\ NoSession \notin Sessions
  /\ NoBooking \notin Bookings

VARIABLES
  status,          \* booking row: status, "absent" when there is no row
  deposit,         \* booking row: deposit_status
  required,        \* bookings with deposit_required
  checkoutSession, \* booking row: stripe_checkout_session_id
  paymentIntent,   \* booking row: stripe_payment_intent_id
  completed,       \* bookings whose actual_duration_minutes is set
  aged,            \* bookings created more than 30 minutes ago
  emailed,         \* bookings an email_events row refers to
  attempt,         \* checkout_attempts row of the booking
  payment,         \* invoice_payments row of the session
  processed,       \* stripe_processed_events rows
  creator,         \* the POST /v1/bookings call that creates the booking
  handler,         \* deposit checkout calls
  staff,           \* staff calls between their read and their write
  session,         \* Stripe: the state of each session
  owner,           \* Stripe: metadata.booking_id of each session
  idem,            \* Stripe: the session cached under the booking's key
  shared,          \* sessions whose URL was returned to a client
  emitted          \* Stripe: events emitted so far

rowVars    == <<status, deposit, required, checkoutSession, paymentIntent,
                completed, aged, emailed>>
tableVars  == <<attempt, payment, processed>>
callVars   == <<creator, handler, staff>>
stripeVars == <<session, owner, idem, shared, emitted>>
vars       == <<rowVars, tableVars, callVars, stripeVars>>

IdleHandler == [pc |-> "idle", booking |-> NoBooking, sess |-> NoSession,
                seenSession |-> NoSession, seenIntent |-> NoSession,
                seenDeposit |-> "none"]
IdleStaff   == [kind |-> "idle", booking |-> NoBooking, seen |-> "absent"]

Init ==
  /\ status = [b \in Bookings |-> "absent"]
  /\ deposit = [b \in Bookings |-> "none"]
  /\ required = {} /\ completed = {} /\ aged = {} /\ emailed = {}
  /\ checkoutSession = [b \in Bookings |-> NoSession]
  /\ paymentIntent = [b \in Bookings |-> NoSession]
  /\ attempt = [b \in Bookings |-> "none"]
  /\ payment = [s \in Sessions |-> "none"]
  /\ processed = {}
  /\ creator = [b \in Bookings |-> [pc |-> "init", sess |-> NoSession]]
  /\ handler = [h \in Handlers |-> IdleHandler]
  /\ staff = [p \in Staff |-> IdleStaff]
  /\ session = [s \in Sessions |-> "unused"]
  /\ owner = [s \in Sessions |-> NoBooking]
  /\ idem = [b \in Bookings |-> NoSession]
  /\ shared = {} /\ emitted = {}

-----------------------------------------------------------------------------
(* The partial unique index uq_bookings_active_slot: a row may carry status *)
(* st only if no other row of the slot is active or st does not block.      *)
SlotFree(b) == \A c \in Bookings \ {b} :
                  SlotOf[c] = SlotOf[b] => status[c] \notin BlockingStatuses
NoSlotIndex(b, st) == TRUE
MayBecome(b, st) ==
  st \in BlockingStatuses /\ status[b] \notin BlockingStatuses => SlotFree(b)

Exists(b) == status[b] # "absent"

\* The intent column after a session is attached at creation time.
IntentOf(s, old) == IF IntentAtCreation THEN s ELSE old

StripeCreatesKeyless(b, s) ==
  /\ session[s] = "unused"
  /\ session' = [session EXCEPT ![s] = "open"]
  /\ owner' = [owner EXCEPT ![s] = b]
  /\ UNCHANGED idem

\* Stripe creates (or, under a live key, returns again) the session s of b.
StripeCreates(b, s) ==
  \/ /\ idem[b] = s
     /\ UNCHANGED <<session, owner, idem>>
  \/ /\ idem[b] = NoSession
     /\ session[s] = "unused"
     /\ session' = [session EXCEPT ![s] = "open"]
     /\ owner' = [owner EXCEPT ![s] = b]
     /\ idem' = [idem EXCEPT ![b] = s]

-----------------------------------------------------------------------------
(* POST /v1/bookings.  Phase 1 calls Stripe before any row is written; a    *)
(* failed call downgrades the booking to one without a deposit, whether or  *)
(* not Stripe created the session before the answer was lost.               *)
CreatePhase1(b) ==
  /\ creator[b].pc = "init"
  /\ \/ /\ b \notin HighRisk
        /\ creator' = [creator EXCEPT ![b].pc = "insert"]
        /\ UNCHANGED <<session, owner, idem>>
     \/ \E s \in Sessions :
          /\ StripeCreates(b, s)
          /\ creator' = [creator EXCEPT ![b] = [pc |-> "insert", sess |-> s]]
     \/ /\ creator' = [creator EXCEPT ![b].pc = "insert"]
        /\ \/ \E s \in Sessions : StripeCreates(b, s)
           \/ UNCHANGED <<session, owner, idem>>
  /\ UNCHANGED <<rowVars, tableVars, handler, staff, shared, emitted>>

\* Phase 2: insert the PENDING row, attach the session, send the pending
\* email (which may leave an email_events row) and commit.
CreateCommit(b) ==
  LET s == creator[b].sess IN
  /\ creator[b].pc = "insert"
  /\ SlotFree(b)
  /\ status' = [status EXCEPT ![b] = "PENDING"]
  /\ IF s = NoSession
       THEN UNCHANGED <<deposit, required, checkoutSession, paymentIntent, shared>>
       ELSE /\ deposit' = [deposit EXCEPT ![b] = "pending"]
            /\ required' = required \cup {b}
            /\ checkoutSession' = [checkoutSession EXCEPT ![b] = s]
            /\ paymentIntent' = [paymentIntent EXCEPT ![b] = IntentOf(s, NoSession)]
            /\ shared' = shared \cup {s}
  /\ emailed' \in {emailed, emailed \cup {b}}
  /\ creator' = [creator EXCEPT ![b].pc = "done"]
  /\ UNCHANGED <<completed, aged, tableVars, handler, staff,
                 session, owner, idem, emitted>>

CompensateAlways(b) ==
  /\ creator[b].pc = "insert"
  /\ creator' = [creator EXCEPT ![b].pc = "compensate"]
  /\ UNCHANGED <<rowVars, tableVars, handler, staff, stripeVars>>

\* Phase 2 raises before its final commit: the slot is taken (409) or the
\* database fails; a session that was created must then be expired.
CreateRefused(b) ==
  /\ creator[b].pc = "insert"
  /\ creator' = [creator EXCEPT ![b].pc = IF creator[b].sess = NoSession
                                            THEN "done" ELSE "compensate"]
  /\ UNCHANGED <<rowVars, tableVars, handler, staff, stripeVars>>

\* cancel_checkout_session, best effort: a failed call is only logged.
CreateCompensate(b) ==
  LET s == creator[b].sess IN
  /\ creator[b].pc = "compensate"
  /\ creator' = [creator EXCEPT ![b].pc = "done"]
  /\ \/ /\ session' = [session EXCEPT ![s] = "expired"]
        /\ emitted' = emitted \cup {<<"expired", s>>}
     \/ UNCHANGED <<session, emitted>>
  /\ UNCHANGED <<rowVars, tableVars, handler, staff, owner, idem, shared>>

\* The final commit comes after the compensated block: a failure there is
\* reported to the client and the session is left as it is.
CreateCommitFails(b) ==
  /\ creator[b].pc = "insert"
  /\ SlotFree(b)
  /\ creator' = [creator EXCEPT ![b].pc = "failed"]
  /\ UNCHANGED <<rowVars, tableVars, handler, staff, stripeVars>>

CreateCrash(b) ==
  /\ creator[b].pc \in {"insert", "compensate"}
  /\ creator' = [creator EXCEPT ![b].pc = "lost"]
  /\ UNCHANGED <<rowVars, tableVars, handler, staff, stripeVars>>

-----------------------------------------------------------------------------
(* POST /v1/payments/deposit/checkout.                                      *)

\* Phase 0: read the booking, find or create the attempt row, commit.
CheckoutBegin(h, b) ==
  /\ handler[h].pc = "idle"
  /\ Exists(b) /\ b \in required
  /\ handler' = [handler EXCEPT ![h] =
       [pc |-> "begun", booking |-> b, sess |-> NoSession,
        seenSession |-> checkoutSession[b], seenIntent |-> paymentIntent[b],
        seenDeposit |-> deposit[b]]]
  /\ attempt' = [attempt EXCEPT ![b] = IF @ = "none" THEN "PENDING" ELSE @]
  /\ UNCHANGED <<rowVars, payment, processed, creator, staff, stripeVars>>

\* A status written to the attempt row, which is gone when its booking is.
SetAttempt(b, st) ==
  attempt' = [attempt EXCEPT ![b] = IF @ = "none" THEN @ ELSE st]

\* The session seen on the booking still has a URL: return it.
CheckoutReuse(h) ==
  LET b == handler[h].booking
      s == handler[h].seenSession IN
  /\ handler[h].pc = "begun"
  /\ s # NoSession
  /\ handler[h].seenDeposit \in {"pending", "paid"}
  /\ session[s] = "open"
  /\ SetAttempt(b, "CREATED")
  /\ shared' = shared \cup {s}
  /\ handler' = [handler EXCEPT ![h] = IdleHandler]
  /\ UNCHANGED <<rowVars, payment, processed, creator, staff,
                 session, owner, idem, emitted>>

\* Phase 1: no usable session, or the retrieve call failed.
CheckoutCreate(h) ==
  LET b == handler[h].booking IN
  /\ handler[h].pc = "begun"
  /\ \E s \in Sessions :
       /\ StripeCreates(b, s)
       /\ handler' = [handler EXCEPT ![h].pc = "created", ![h].sess = s]
  /\ UNCHANGED <<rowVars, tableVars, creator, staff, shared, emitted>>

\* Phase 1 fails; the session may exist all the same (a timeout).
CheckoutFails(h) ==
  LET b == handler[h].booking IN
  /\ handler[h].pc = "begun"
  /\ \/ \E s \in Sessions : StripeCreates(b, s)
     \/ UNCHANGED <<session, owner, idem>>
  /\ SetAttempt(b, "FAILED")
  /\ handler' = [handler EXCEPT ![h] = IdleHandler]
  /\ UNCHANGED <<rowVars, payment, processed, creator, staff, shared, emitted>>

\* Phase 2: one commit.  The ORM writes only the columns that differ from
\* what the handler read at the start, and deposit_status never differs.
CheckoutRecord(h) ==
  LET b == handler[h].booking
      s == handler[h].sess IN
  /\ handler[h].pc = "created"
  /\ Exists(b)
  /\ SetAttempt(b, "CREATED")
  /\ checkoutSession' = [checkoutSession EXCEPT ![b] =
       IF handler[h].seenSession = s THEN @ ELSE s]
  /\ paymentIntent' = [paymentIntent EXCEPT ![b] =
       IF handler[h].seenIntent = s THEN @ ELSE IntentOf(s, @)]
  /\ payment' = [payment EXCEPT ![s] = "PENDING"]
  /\ shared' = shared \cup {s}
  /\ handler' = [handler EXCEPT ![h] = IdleHandler]
  /\ UNCHANGED <<status, deposit, required, completed, aged, emailed,
                 processed, creator, staff, session, owner, idem, emitted>>

\* Phase 2 fails (the row is gone, or the database fails): rollback, FAILED.
CheckoutRecordFails(h) ==
  /\ handler[h].pc = "created"
  /\ SetAttempt(handler[h].booking, "FAILED")
  /\ handler' = [handler EXCEPT ![h] = IdleHandler]
  /\ UNCHANGED <<rowVars, payment, processed, creator, staff, stripeVars>>

CheckoutCrash(h) ==
  /\ handler[h].pc # "idle"
  /\ handler' = [handler EXCEPT ![h] = IdleHandler]
  /\ UNCHANGED <<rowVars, tableVars, creator, staff, stripeVars>>

-----------------------------------------------------------------------------
(* POST /v1/payments/stripe/webhook.  One transaction per delivery: the row *)
(* of processed event ids is inserted first, the booking row is locked, and *)
(* a handler that raises leaves nothing behind, so Stripe delivers again.   *)

\* A paid deposit confirms the booking unless its risk needs a human.
StatusWhenPaid(b) == IF b \in HighRisk THEN status[b] ELSE "CONFIRMED"

MarkPendingPaid(b) ==
  /\ status[b] = "PENDING"
  /\ status' = [status EXCEPT ![b] = StatusWhenPaid(b)]
  /\ deposit' = [deposit EXCEPT ![b] = "paid"]

\* mark_deposit_paid looks at no status; the slot index may refuse the row.
MarkDepositPaid(b) ==
  /\ MayBecome(b, StatusWhenPaid(b))
  /\ status' = [status EXCEPT ![b] = StatusWhenPaid(b)]
  /\ deposit' = [deposit EXCEPT ![b] = "paid"]

FailPaidDeposit(b, failure) ==
  /\ deposit' = [deposit EXCEPT ![b] = failure]
  /\ status' = [status EXCEPT ![b] = IF @ = "PENDING" THEN "CANCELLED" ELSE @]

FailDepositOnly(b, failure) ==
  /\ deposit' = [deposit EXCEPT ![b] = IF @ = "paid" THEN @ ELSE failure]
  /\ UNCHANGED status

FailureTakenForSuccess(b, failure) == MarkDepositPaid(b)

\* mark_deposit_failed: nothing once the deposit is paid.
MarkDepositFailed(b, failure) ==
  IF deposit[b] = "paid"
    THEN UNCHANGED <<status, deposit>>
    ELSE /\ deposit' = [deposit EXCEPT ![b] = failure]
         /\ status' = [status EXCEPT ![b] = IF @ = "PENDING" THEN "CANCELLED" ELSE @]

\* checkout.session.completed, paid.
DepositPaid(s) ==
  LET b == owner[s] IN
  /\ <<"completed", s>> \in emitted \ processed
  /\ Exists(b)
  /\ MarkDepositPaid(b)
  /\ checkoutSession' = [checkoutSession EXCEPT ![b] = s]
  /\ paymentIntent' = [paymentIntent EXCEPT ![b] = s]
  /\ payment' = [payment EXCEPT ![s] = "SUCCEEDED"]
  /\ processed' = processed \cup {<<"completed", s>>}
  /\ UNCHANGED <<required, completed, aged, emailed, attempt, callVars, stripeVars>>

\* checkout.session.expired: attach the event's session, and its payment intent
\* if Stripe has made one, then fail the deposit.
DepositExpired(s) ==
  LET b == owner[s] IN
  /\ <<"expired", s>> \in emitted \ processed
  /\ Exists(b)
  /\ MarkDepositFailed(b, "expired")
  /\ checkoutSession' = [checkoutSession EXCEPT ![b] = s]
  /\ \E intent \in {paymentIntent[b], s} :
       paymentIntent' = [paymentIntent EXCEPT ![b] = intent]
  /\ payment' = [payment EXCEPT ![s] = "FAILED"]
  /\ processed' = processed \cup {<<"expired", s>>}
  /\ UNCHANGED <<required, completed, aged, emailed, attempt, callVars, stripeVars>>

\* payment_intent.payment_failed carries no booking id: the booking is found
\* by its payment intent.
DepositDeclined(s, b) ==
  /\ <<"declined", s>> \in emitted \ processed
  /\ Exists(b) /\ paymentIntent[b] = s
  /\ MarkDepositFailed(b, "failed")
  /\ processed' = processed \cup {<<"declined", s>>}
  /\ UNCHANGED <<required, checkoutSession, paymentIntent, completed, aged,
                 emailed, attempt, payment, callVars, stripeVars>>

\* No booking to apply the event to: acknowledged, and never looked at again.
EventIgnored(e) ==
  /\ e \in emitted \ processed
  /\ IF e[1] = "declined"
       THEN \A b \in Bookings : Exists(b) => paymentIntent[b] # e[2]
       ELSE ~Exists(owner[e[2]])
  /\ processed' = processed \cup {e}
  /\ UNCHANGED <<rowVars, attempt, payment, callVars, stripeVars>>

Webhook ==
  \/ \E s \in Sessions : DepositPaid(s) \/ DepositExpired(s)
  \/ \E s \in Sessions, b \in Bookings : DepositDeclined(s, b)
  \/ \E e \in EventKinds \X Sessions : EventIgnored(e)

-----------------------------------------------------------------------------
(* Staff and client operations: the row is read and checked without a lock, *)
(* and written in a later step.                                             *)

StaffMayUnpaid(kind, b) ==
  CASE kind = "confirm"  -> status[b] = "PENDING"
    [] kind = "cancel"   -> status[b] \in {"PENDING", "CONFIRMED"}
    [] kind = "complete" -> b \notin completed

StaffMay(kind, b) ==
  CASE kind = "confirm"  -> /\ status[b] = "PENDING"
                            /\ b \in required => deposit[b] = "paid"
    [] kind = "cancel"   -> status[b] \in {"PENDING", "CONFIRMED"}
    [] kind = "complete" -> b \notin completed

StaffRead(p, kind, b) ==
  /\ staff[p].kind = "idle"
  /\ Exists(b)
  /\ StaffMay(kind, b)
  /\ staff' = [staff EXCEPT ![p] = [kind |-> kind, booking |-> b, seen |-> status[b]]]
  /\ UNCHANGED <<rowVars, tableVars, creator, handler, stripeVars>>

TargetStatus(kind) == CASE kind = "confirm"  -> "CONFIRMED"
                        [] kind = "cancel"   -> "CANCELLED"
                        [] kind = "complete" -> "DONE"

StaffWrite(p) ==
  LET b  == staff[p].booking
      st == TargetStatus(staff[p].kind) IN
  /\ staff[p].kind # "idle"
  /\ Exists(b)
  /\ MayBecome(b, st)
  /\ status' = [status EXCEPT ![b] = IF staff[p].seen = st THEN @ ELSE st]
  /\ completed' = IF st = "DONE" THEN completed \cup {b} ELSE completed
  /\ staff' = [staff EXCEPT ![p] = IdleStaff]
  /\ UNCHANGED <<deposit, required, checkoutSession, paymentIntent, aged, emailed,
                 tableVars, creator, handler, stripeVars>>

\* The call fails or its process dies: the row was deleted, the slot index
\* refused the write, or the commit failed.
StaffGivesUp(p) ==
  /\ staff[p].kind # "idle"
  /\ staff' = [staff EXCEPT ![p] = IdleStaff]
  /\ UNCHANGED <<rowVars, tableVars, creator, handler, stripeVars>>

\* The dispatcher's status endpoint (PLANNED, IN_PROGRESS, DONE, CANCELLED)
\* and the bulk update (any string) write a status as is.
WriteStatus(b, st) ==
  /\ Exists(b)
  /\ MayBecome(b, st)
  /\ status' = [status EXCEPT ![b] = st]
  /\ UNCHANGED <<deposit, required, checkoutSession, paymentIntent, completed,
                 aged, emailed, tableVars, callVars, stripeVars>>

\* POST /v1/admin/cleanup: one DELETE of every stale PENDING row, refused as
\* a whole while an email event or a payment still refers to one of them.
StaleBookings == {b \in aged : status[b] = "PENDING"}
Referenced(b) == \/ b \in emailed
                 \/ \E s \in Sessions : owner[s] = b /\ payment[s] # "none"
Cleanup ==
  /\ StaleBookings # {}
  /\ \A b \in StaleBookings : ~Referenced(b)
  /\ status' = [b \in Bookings |-> IF b \in StaleBookings THEN "absent" ELSE status[b]]
  /\ attempt' = [b \in Bookings |-> IF b \in StaleBookings THEN "none" ELSE attempt[b]]
  /\ UNCHANGED <<deposit, required, checkoutSession, paymentIntent, completed,
                 aged, emailed, payment, processed, callVars, stripeVars>>

-----------------------------------------------------------------------------
(* The customer, Stripe and the clock.                                      *)
ThirtyMinutesPass(b) ==
  /\ Exists(b) /\ b \notin aged
  /\ aged' = aged \cup {b}
  /\ UNCHANGED <<status, deposit, required, checkoutSession, paymentIntent,
                 completed, emailed, tableVars, callVars, stripeVars>>

CustomerPays(s) ==
  /\ session[s] = "open" /\ s \in shared
  /\ session' = [session EXCEPT ![s] = "paid"]
  /\ emitted' = emitted \cup {<<"completed", s>>}
  /\ UNCHANGED <<rowVars, tableVars, callVars, owner, idem, shared>>

CardDeclined(s) ==
  /\ session[s] = "open" /\ s \in shared
  /\ emitted' = emitted \cup {<<"declined", s>>}
  /\ UNCHANGED <<rowVars, tableVars, callVars, session, owner, idem, shared>>

\* After 24 hours, so not while the request that created it still runs.
SessionExpires(s) ==
  /\ session[s] = "open"
  /\ creator[owner[s]].pc \in {"done", "failed", "lost"}
  /\ \A h \in Handlers : handler[h].sess # s
  /\ Exists(owner[s]) => owner[s] \in aged
  /\ session' = [session EXCEPT ![s] = "expired"]
  /\ emitted' = emitted \cup {<<"expired", s>>}
  /\ UNCHANGED <<rowVars, tableVars, callVars, owner, idem, shared>>

\* Stripe forgets an idempotency key no sooner than the session's 24 hours.
KeyLapses(b) ==
  /\ idem[b] # NoSession /\ session[idem[b]] # "open"
  /\ \A h \in Handlers : handler[h].booking # b
  /\ idem' = [idem EXCEPT ![b] = NoSession]
  /\ UNCHANGED <<rowVars, tableVars, callVars, session, owner, shared, emitted>>

Stripe ==
  \/ \E s \in Sessions : CustomerPays(s) \/ CardDeclined(s) \/ SessionExpires(s)
  \/ \E b \in Bookings : KeyLapses(b)

Create(b) == \/ CreatePhase1(b) \/ CreateCommit(b) \/ CreateRefused(b)
             \/ CreateCompensate(b) \/ CreateCommitFails(b) \/ CreateCrash(b)

Checkout(h) == \/ \E b \in Bookings : CheckoutBegin(h, b)
               \/ CheckoutReuse(h) \/ CheckoutCreate(h) \/ CheckoutFails(h)
               \/ CheckoutRecord(h) \/ CheckoutRecordFails(h) \/ CheckoutCrash(h)

StaffCall(p) ==
  \/ \E kind \in {"confirm", "cancel", "complete"}, b \in Bookings : StaffRead(p, kind, b)
  \/ StaffWrite(p)
  \/ StaffGivesUp(p)

Next ==
  \/ \E b \in Bookings : Create(b) \/ ThirtyMinutesPass(b)
  \/ \E h \in Handlers : Checkout(h)
  \/ \E p \in Staff : StaffCall(p)
  \/ \E b \in Bookings, st \in ManualStatuses : WriteStatus(b, st)
  \/ Webhook
  \/ Cleanup
  \/ Stripe

Spec == Init /\ [][Next]_vars

\* Stripe redelivers an event until it is acknowledged, the scheduler keeps
\* calling the cleanup endpoint, and a request that holds a row finishes or dies.
Deliver(e) ==
  \/ e[1] = "completed" /\ DepositPaid(e[2])
  \/ e[1] = "expired" /\ DepositExpired(e[2])
  \/ e[1] = "declined" /\ \E b \in Bookings : DepositDeclined(e[2], b)
  \/ EventIgnored(e)

Fairness ==
  /\ \A e \in EventKinds \X Sessions : WF_vars(Deliver(e))
  /\ WF_vars(Cleanup)
  /\ \A b \in Bookings : WF_vars(ThirtyMinutesPass(b))

FairSpec == Spec /\ Fairness

-----------------------------------------------------------------------------
(* Properties.                                                              *)

Creators   == [pc : {"init", "insert", "compensate", "done", "failed", "lost"},
               sess : Sessions \cup {NoSession}]
Checkouts  == [pc : {"idle", "begun", "created"},
               booking : Bookings \cup {NoBooking},
               sess : Sessions \cup {NoSession},
               seenSession : Sessions \cup {NoSession},
               seenIntent : Sessions \cup {NoSession},
               seenDeposit : DepositStatuses]
StaffCalls == [kind : {"idle", "confirm", "cancel", "complete"},
               booking : Bookings \cup {NoBooking},
               seen : Statuses \cup {"absent"}]

\* Every variable has its type.
TypeOK ==
  /\ status \in [Bookings -> Statuses \cup {"absent"}]
  /\ deposit \in [Bookings -> DepositStatuses]
  /\ required \subseteq Bookings /\ completed \subseteq Bookings
  /\ aged \subseteq Bookings /\ emailed \subseteq Bookings
  /\ checkoutSession \in [Bookings -> Sessions \cup {NoSession}]
  /\ paymentIntent \in [Bookings -> Sessions \cup {NoSession}]
  /\ attempt \in [Bookings -> {"none", "PENDING", "CREATED", "FAILED"}]
  /\ payment \in [Sessions -> {"none", "PENDING", "SUCCEEDED", "FAILED"}]
  /\ processed \subseteq EventKinds \X Sessions
  /\ creator \in [Bookings -> Creators]
  /\ handler \in [Handlers -> Checkouts]
  /\ staff \in [Staff -> StaffCalls]
  /\ session \in [Sessions -> {"unused", "open", "paid", "expired"}]
  /\ owner \in [Sessions -> Bookings \cup {NoBooking}]
  /\ idem \in [Bookings -> Sessions \cup {NoSession}]
  /\ shared \subseteq Sessions
  /\ emitted \subseteq EventKinds \X Sessions

\* Two active bookings never hold the same slot, whatever the order in which
\* creations, late webhooks and staff writes make rows active again.
SlotExclusive ==
  \A b, c \in Bookings :
    /\ b # c /\ SlotOf[b] = SlotOf[c]
    /\ status[b] \in BlockingStatuses
    => status[c] \notin BlockingStatuses

\* A deposit is marked paid only if Stripe collected it: a session of this
\* very booking was paid and its event was processed.
PaidBackedByCharge ==
  \A b \in Bookings : deposit[b] = "paid" =>
    \E s \in Sessions : /\ owner[s] = b /\ session[s] = "paid"
                        /\ <<"completed", s>> \in processed

\* A CONFIRMED booking that needs a deposit has it, although staff confirm
\* from a read that webhooks, checkouts and cancellations may overtake.
ConfirmedDepositPaid ==
  \A b \in Bookings :
    status[b] = "CONFIRMED" /\ b \in required => deposit[b] = "paid"

\* A customer can never pay a booking twice at the same time: retries, lost
\* answers and concurrent checkouts leave at most one open session.
OneOpenSession ==
  \A s, t \in Sessions :
    session[s] = "open" /\ session[t] = "open" /\ owner[s] = owner[t] => s = t

\* Once a deposit is paid the row stays, and stays paid: no late failure event,
\* stale checkout or cleanup takes it back.
PaidIsFinal ==
  [][\A b \in Bookings : Exists(b) /\ deposit[b] = "paid" =>
       Exists(b)' /\ deposit'[b] = "paid"]_vars

\* A paid session is eventually reflected on its booking, unless the row was
\* deleted or another booking took the slot.
PaymentReflected ==
  \A s \in Sessions, b \in Bookings :
    session[s] = "paid" /\ owner[s] = b
      ~> deposit[b] = "paid" \/ ~Exists(b) \/ ~SlotFree(b)

\* An unpaid booking whose checkout session expired does not stay PENDING, so
\* its slot is freed.
ExpiryFreesSlot ==
  \A s \in Sessions, b \in Bookings :
    session[s] = "expired" /\ owner[s] = b /\ status[b] = "PENDING"
      ~> status[b] # "PENDING" \/ deposit[b] = "paid"

-----------------------------------------------------------------------------
(* The inductive invariant the proofs rest on.                              *)

\* What Stripe holds: only used sessions have an owner, an open session is the
\* one cached under its owner's key, only a shared session is ever paid, a
\* completed event is a payment and every event is about an owned session.
StripeInv ==
  /\ \A s \in Sessions :
       /\ session[s] = "unused" <=> owner[s] = NoBooking
       /\ session[s] = "open" => idem[owner[s]] = s
       /\ session[s] = "paid" => s \in shared
       /\ <<"completed", s>> \in emitted => session[s] = "paid"
       /\ \A kind \in EventKinds : <<kind, s>> \in emitted => owner[s] # NoBooking
  /\ \A b \in Bookings : idem[b] # NoSession => owner[idem[b]] = b

\* A creation holds a session of its booking, and certainly one to expire.
CreatorInv ==
  \A b \in Bookings :
    /\ creator[b].sess # NoSession => owner[creator[b].sess] = b
    /\ creator[b].pc = "compensate" => creator[b].sess # NoSession

\* A row exists only after its creation is over, and refers to its own session.
RowInv ==
  \A b \in Bookings :
    /\ Exists(b) => creator[b].pc = "done"
    /\ checkoutSession[b] # NoSession => owner[checkoutSession[b]] = b

\* A session's URL leaves the back end only after the creation is over.
SharedInv ==
  \A s \in shared : owner[s] # NoBooking /\ creator[owner[s]].pc = "done"

\* A checkout holds sessions of a booking whose creation is over.
CheckoutInv ==
  \A h \in Handlers : handler[h].pc # "idle" =>
    /\ handler[h].booking # NoBooking
    /\ creator[handler[h].booking].pc = "done"
    /\ handler[h].seenSession # NoSession =>
         owner[handler[h].seenSession] = handler[h].booking
    /\ handler[h].pc = "created" =>
         handler[h].sess # NoSession /\ owner[handler[h].sess] = handler[h].booking

\* A paid deposit has its charge, its processed event and a payment row.
PaidInv ==
  \A b \in Bookings : deposit[b] = "paid" =>
    /\ creator[b].pc = "done"
    /\ \E s \in Sessions : /\ owner[s] = b /\ session[s] = "paid"
                           /\ <<"completed", s>> \in processed
                           /\ payment[s] # "none"

\* What a confirmation in flight has checked is still true.
StaffInv ==
  \A p \in Staff : staff[p].kind # "idle" =>
    /\ staff[p].booking # NoBooking
    /\ staff[p].kind = "confirm" =>
         /\ creator[staff[p].booking].pc = "done"
         /\ staff[p].booking \in required => deposit[staff[p].booking] = "paid"

Inv == /\ TypeOK /\ StripeInv /\ CreatorInv /\ RowInv
       /\ SharedInv /\ CheckoutInv /\ PaidInv /\ StaffInv

=============================================================================
