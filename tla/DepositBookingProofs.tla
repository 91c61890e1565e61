------------------------ MODULE DepositBookingProofs ------------------------
(***************************************************************************)
(* Proofs about the deposit of a booking, for any number of bookings,      *)
(* checkout sessions, checkout calls and staff calls.                      *)
(***************************************************************************)
EXTENDS DepositBooking, TLAPS

\* The invariant holds of the empty tables, the idle calls and a fresh Stripe.
LEMMA InitInv == Init => Inv
<1> SUFFICES ASSUME Init PROVE Inv
  OBVIOUS
<1>1. TypeOK
  BY ConstantsAssumption
  DEF Init, TypeOK, Creators, Checkouts, StaffCalls, Statuses, DepositStatuses,
      EventKinds, IdleHandler, IdleStaff
<1>2. StripeInv
  BY ConstantsAssumption DEF Init, StripeInv
<1>3. CreatorInv /\ RowInv /\ SharedInv
  BY DEF Init, CreatorInv, RowInv, SharedInv, Exists
<1>4. CheckoutInv /\ PaidInv /\ StaffInv
  BY DEF Init, CheckoutInv, PaidInv, StaffInv, IdleHandler, IdleStaff
<1> QED
  BY <1>1, <1>2, <1>3, <1>4 DEF Inv

-----------------------------------------------------------------------------
(* What no step of the system takes back.                                   *)

Steady ==
  /\ \A s \in Sessions :
       /\ owner[s] # NoBooking => owner'[s] = owner[s]
       /\ session[s] = "paid" => session'[s] = "paid"
       /\ payment[s] # "none" => payment'[s] # "none"
  /\ \A b \in Bookings : creator[b].pc = "done" =>
       /\ creator'[b].pc = "done"
       /\ b \in required' => b \in required
       /\ deposit[b] = "paid" => deposit'[b] = "paid"
  /\ processed \subseteq processed'

\* A steady step keeps every part of the invariant whose own state it leaves
\* alone.
LEMMA SteadyKeeps ==
  ASSUME Inv, Steady
  PROVE  /\ creator' = creator => CreatorInv'
         /\ (/\ checkoutSession' = checkoutSession
             /\ \A b \in Bookings : Exists(b)' => Exists(b)) => RowInv'
         /\ shared' = shared => SharedInv'
         /\ handler' = handler => CheckoutInv'
         /\ (\A b \in Bookings : deposit'[b] = "paid" => deposit[b] = "paid") => PaidInv'
         /\ staff' = staff => StaffInv'
<1>1. creator' = creator => CreatorInv'
  BY ConstantsAssumption DEF Inv, Steady, TypeOK, CreatorInv, Creators
<1>2. (/\ checkoutSession' = checkoutSession
       /\ \A b \in Bookings : Exists(b)' => Exists(b)) => RowInv'
  BY ConstantsAssumption DEF Inv, Steady, TypeOK, RowInv, Exists
<1>3. shared' = shared => SharedInv'
  BY DEF Inv, Steady, TypeOK, SharedInv
<1>4. handler' = handler => CheckoutInv'
  BY ConstantsAssumption DEF Inv, Steady, TypeOK, CheckoutInv, Checkouts
<1>5. (\A b \in Bookings : deposit'[b] = "paid" => deposit[b] = "paid") => PaidInv'
  BY ConstantsAssumption DEF Inv, Steady, PaidInv
<1>6. staff' = staff => StaffInv'
  BY DEF Inv, Steady, TypeOK, StaffInv, StaffCalls
<1> QED
  BY <1>1, <1>2, <1>3, <1>4, <1>5, <1>6

-----------------------------------------------------------------------------
(* Stripe creates a session.                                                *)

\* Stripe keeps its types, and every session that had an owner keeps it, its
\* state and its place in the cache.
LEMMA StripeCreatesKeeps ==
  ASSUME Inv, NEW b \in Bookings, NEW s \in Sessions, StripeCreates(b, s)
  PROVE  /\ session' \in [Sessions -> {"unused", "open", "paid", "expired"}]
         /\ owner' \in [Sessions -> Bookings \cup {NoBooking}]
         /\ idem' \in [Bookings -> Sessions \cup {NoSession}]
         /\ owner'[s] = b
         /\ \A t \in Sessions : owner[t] # NoBooking =>
              owner'[t] = owner[t] /\ session'[t] = session[t]
<1>0. s # NoSession /\ b # NoBooking
  BY ConstantsAssumption
<1>1. CASE idem[b] = s /\ UNCHANGED <<session, owner, idem>>
  BY <1>0, <1>1 DEF Inv, TypeOK, StripeInv
<1>2. CASE /\ idem[b] = NoSession
           /\ session[s] = "unused"
           /\ session' = [session EXCEPT ![s] = "open"]
           /\ owner' = [owner EXCEPT ![s] = b]
           /\ idem' = [idem EXCEPT ![b] = s]
  <2>1. owner[s] = NoBooking
    BY <1>2 DEF Inv, StripeInv
  <2>2. \A t \in Sessions : owner[t] # NoBooking => t # s
    BY <2>1
  <2> QED
    BY <1>0, <1>2, <2>2 DEF Inv, TypeOK
<1> QED
  BY <1>1, <1>2 DEF StripeCreates

\* With the sessions shared and the events emitted left alone, what Stripe
\* holds stays consistent.
LEMMA StripeCreatesInv ==
  ASSUME Inv, NEW b \in Bookings, NEW s \in Sessions, StripeCreates(b, s),
         UNCHANGED <<shared, emitted>>
  PROVE  StripeInv'
<1>1. CASE UNCHANGED <<session, owner, idem>>
  BY <1>1 DEF Inv, StripeInv
<1>2. CASE /\ idem[b] = NoSession
           /\ session[s] = "unused"
           /\ session' = [session EXCEPT ![s] = "open"]
           /\ owner' = [owner EXCEPT ![s] = b]
           /\ idem' = [idem EXCEPT ![b] = s]
  <2>0. s # NoSession /\ b # NoBooking /\ owner[s] = NoBooking
    BY <1>2, ConstantsAssumption DEF Inv, StripeInv
  <2>1. \A t \in Sessions : t # s =>
          session'[t] = session[t] /\ owner'[t] = owner[t]
    BY <1>2 DEF Inv, TypeOK
  <2>2. session'[s] = "open" /\ owner'[s] = b /\ idem'[b] = s
    BY <1>2 DEF Inv, TypeOK
  <2>3. \A c \in Bookings : c # b => idem'[c] = idem[c]
    BY <1>2 DEF Inv, TypeOK
  <2>4. ASSUME NEW t \in Sessions
        PROVE  /\ session'[t] = "unused" <=> owner'[t] = NoBooking
               /\ session'[t] = "open" => idem'[owner'[t]] = t
               /\ session'[t] = "paid" => t \in shared'
               /\ <<"completed", t>> \in emitted' => session'[t] = "paid"
               /\ \A kind \in EventKinds :
                    <<kind, t>> \in emitted' => owner'[t] # NoBooking
    <3>1. CASE t = s
      BY <3>1, <2>0, <2>2, <1>2 DEF Inv, StripeInv
    <3>2. CASE t # s /\ owner[t] # b
      BY <3>2, <2>1, <2>3 DEF Inv, TypeOK, StripeInv
    <3>3. CASE t # s /\ owner[t] = b
      BY <3>3, <2>0, <2>1, <1>2, ConstantsAssumption DEF Inv, StripeInv
    <3> QED
      BY <3>1, <3>2, <3>3
  <2>5. ASSUME NEW c \in Bookings, idem'[c] # NoSession
        PROVE  owner'[idem'[c]] = c
    <3>1. CASE c = b
      BY <3>1, <2>2
    <3>2. CASE c # b
      <4>1. idem[c] \in Sessions /\ owner[idem[c]] = c
        BY <3>2, <2>3, <2>5 DEF Inv, TypeOK, StripeInv
      <4> QED
        BY <4>1, <3>2, <2>0, <2>1, <2>3, <2>5, ConstantsAssumption
    <3> QED
      BY <3>1, <3>2
  <2> QED
    BY <2>4, <2>5 DEF StripeInv
<1> QED
  BY <1>1, <1>2 DEF StripeCreates

\* A call that may have reached Stripe keeps Stripe's types and consistency, and
\* what the owned sessions are.
LEMMA StripeMayCreate ==
  ASSUME Inv, NEW b \in Bookings, UNCHANGED <<shared, emitted>>,
         \/ \E s \in Sessions : StripeCreates(b, s)
         \/ UNCHANGED <<session, owner, idem>>
  PROVE  /\ session' \in [Sessions -> {"unused", "open", "paid", "expired"}]
         /\ owner' \in [Sessions -> Bookings \cup {NoBooking}]
         /\ idem' \in [Bookings -> Sessions \cup {NoSession}]
         /\ \A t \in Sessions : owner[t] # NoBooking =>
              owner'[t] = owner[t] /\ session'[t] = session[t]
         /\ StripeInv'
<1>1. CASE \E s \in Sessions : StripeCreates(b, s)
  BY <1>1, StripeCreatesKeeps, StripeCreatesInv
<1>2. CASE UNCHANGED <<session, owner, idem>>
  BY <1>2 DEF Inv, TypeOK, StripeInv
<1> QED
  BY <1>1, <1>2

-----------------------------------------------------------------------------
(* The creation of a booking.                                               *)

\* The call to Stripe, answered, lost or failed.
LEMMA CreatePhase1Inv ==
  ASSUME Inv, NEW b \in Bookings, CreatePhase1(b)
  PROVE  Inv' /\ Steady
<1> DEFINE Kept == \A t \in Sessions : owner[t] # NoBooking => owner'[t] = owner[t] /\ session'[t] = session[t]
           Typed == /\ session' \in [Sessions -> {"unused", "open", "paid", "expired"}]
                    /\ owner' \in [Sessions -> Bookings \cup {NoBooking}]
                    /\ idem' \in [Bookings -> Sessions \cup {NoSession}]
           Started == /\ creator' \in [Bookings -> Creators]
                      /\ \A c \in Bookings : c # b => creator'[c] = creator[c]
                      /\ creator'[b].pc = "insert"
                      /\ creator'[b].sess \in Sessions \cup {NoSession}
                      /\ creator'[b].sess # NoSession => owner'[creator'[b].sess] = b
<1>1. /\ \A c \in Bookings : creator[c] \in Creators
      /\ creator[b].pc = "init"
      /\ creator[b].sess \in Sessions \cup {NoSession}
      /\ creator[b].sess # NoSession => owner[creator[b].sess] = b
  BY DEF CreatePhase1, Inv, TypeOK, CreatorInv, Creators
<1>2. UNCHANGED <<status, deposit, required, checkoutSession, paymentIntent, completed,
                  aged, emailed, attempt, payment, processed, handler, staff, shared, emitted>>
  BY DEF CreatePhase1, rowVars, tableVars
<1>5. Typed /\ Kept /\ StripeInv'
  BY <1>2, StripeMayCreate DEF CreatePhase1
<1>6. Started
  <2>1. CASE creator' = [creator EXCEPT ![b].pc = "insert"]
    <3>1. creator' \in [Bookings -> Creators] /\ creator'[b].pc = "insert"
          /\ creator'[b].sess = creator[b].sess
      BY <2>1, <1>1 DEF Inv, TypeOK, Creators
    <3> QED
      BY <2>1, <3>1, <1>1, <1>5, ConstantsAssumption DEF Inv, TypeOK
  <2>2. ASSUME NEW s \in Sessions, StripeCreates(b, s),
               creator' = [creator EXCEPT ![b] = [pc |-> "insert", sess |-> s]]
        PROVE  Started
    BY <2>2, <1>1, StripeCreatesKeeps DEF Inv, TypeOK, Creators
  <2> QED
    BY <2>1, <2>2 DEF CreatePhase1
<1>7. TypeOK'
  BY <1>2, <1>5, <1>6 DEF Inv, TypeOK
<1>8. Steady
  BY <1>1, <1>2, <1>5, <1>6 DEF Inv, Steady, StripeInv
<1>9. CreatorInv'
  BY <1>1, <1>5, <1>6, ConstantsAssumption DEF Inv, TypeOK, CreatorInv, Creators
<1> QED
  BY <1>2, <1>5, <1>7, <1>8, <1>9, SteadyKeeps DEF Inv, Exists

\* The commit of the row, its session and its email.
LEMMA CreateCommitInv ==
  ASSUME Inv, NEW b \in Bookings, CreateCommit(b)
  PROVE  Inv' /\ Steady
<1> DEFINE s == creator[b].sess
<1>1. /\ s \in Sessions \cup {NoSession}
      /\ s # NoSession => owner[s] = b
      /\ creator[b].pc = "insert"
      /\ b # NoBooking
  BY ConstantsAssumption DEF CreateCommit, Inv, TypeOK, CreatorInv, Creators
<1>2. /\ creator' \in [Bookings -> Creators]
      /\ \A c \in Bookings : c # b => creator'[c] = creator[c]
      /\ creator'[b].pc = "done" /\ creator'[b].sess = s
  BY DEF CreateCommit, Inv, TypeOK, Creators
<1>3. UNCHANGED <<completed, aged, attempt, payment, processed, handler, staff,
                  session, owner, idem, emitted>>
  BY DEF CreateCommit, tableVars
<1>4. /\ \A c \in Bookings : c # b =>
           /\ deposit'[c] = deposit[c]
           /\ checkoutSession'[c] = checkoutSession[c]
           /\ Exists(c)' <=> Exists(c)
           /\ c \in required' => c \in required
      /\ deposit'[b] = "paid" => deposit[b] = "paid"
      /\ checkoutSession'[b] # NoSession => owner[checkoutSession'[b]] = b
      /\ shared \subseteq shared' /\ shared' \subseteq shared \cup {s}
      /\ s = NoSession => shared' = shared
  BY <1>1 DEF CreateCommit, Inv, TypeOK, RowInv, Exists
<1>5. TypeOK'
  BY <1>1, <1>2, <1>3
  DEF CreateCommit, Inv, TypeOK, IntentOf, Statuses, DepositStatuses
<1>6. Steady
  BY <1>1, <1>2, <1>3, <1>4 DEF Inv, Steady
<1>7. StripeInv' /\ CreatorInv' /\ RowInv'
  BY <1>1, <1>2, <1>3, <1>4 DEF Inv, StripeInv, CreatorInv, RowInv
<1>8. SharedInv'
  BY <1>1, <1>2, <1>3, <1>4 DEF Inv, TypeOK, SharedInv
<1>9. PaidInv'
  BY <1>1, <1>2, <1>3, <1>4 DEF Inv, PaidInv
<1> QED
  BY <1>3, <1>5, <1>6, <1>7, <1>8, <1>9, SteadyKeeps DEF Inv

\* A creation that ends without a row leaves the tables and Stripe alone.
LEMMA CreateEndsInv ==
  ASSUME Inv, NEW b \in Bookings,
         CreateRefused(b) \/ CreateCommitFails(b) \/ CreateCrash(b)
  PROVE  Inv' /\ Steady
<1>1. UNCHANGED <<rowVars, tableVars, handler, staff, stripeVars>>
  BY DEF CreateRefused, CreateCommitFails, CreateCrash
<1>2. /\ creator[b].pc # "done"
      /\ creator' \in [Bookings -> Creators]
      /\ \A c \in Bookings : c # b => creator'[c] = creator[c]
      /\ creator'[b].sess = creator[b].sess
      /\ creator'[b].pc = "compensate" => creator[b].sess # NoSession
  <2>1. CASE CreateRefused(b)
    BY <2>1 DEF CreateRefused, Inv, TypeOK, Creators
  <2>2. CASE CreateCommitFails(b)
    BY <2>2 DEF CreateCommitFails, Inv, TypeOK, Creators
  <2>3. CASE CreateCrash(b)
    BY <2>3 DEF CreateCrash, Inv, TypeOK, Creators
  <2> QED
    BY <2>1, <2>2, <2>3
<1>3. TypeOK' /\ StripeInv'
  BY <1>1, <1>2 DEF Inv, TypeOK, StripeInv, rowVars, tableVars, stripeVars
<1>4. Steady
  BY <1>1, <1>2 DEF Inv, Steady, rowVars, tableVars, stripeVars
<1>5. CreatorInv'
  BY <1>1, <1>2 DEF Inv, CreatorInv, stripeVars
<1> QED
  BY <1>1, <1>3, <1>4, <1>5, SteadyKeeps
  DEF Inv, Exists, rowVars, tableVars, stripeVars

\* The compensation expires a session no customer has seen, so an unpaid one.
LEMMA CreateCompensateInv ==
  ASSUME Inv, NEW b \in Bookings, CreateCompensate(b)
  PROVE  Inv' /\ Steady
<1> DEFINE s == creator[b].sess
<1>1. UNCHANGED <<rowVars, tableVars, handler, staff, owner, idem, shared>>
  BY DEF CreateCompensate
<1>2. /\ s \in Sessions /\ owner[s] = b /\ b # NoBooking
      /\ creator[b].pc = "compensate"
  BY ConstantsAssumption DEF CreateCompensate, Inv, TypeOK, CreatorInv, Creators
<1>3. /\ creator' \in [Bookings -> Creators]
      /\ \A c \in Bookings : c # b => creator'[c] = creator[c]
      /\ creator'[b].sess = s /\ creator'[b].pc = "done"
  BY DEF CreateCompensate, Inv, TypeOK, Creators
<1>4. session[s] # "paid"
  BY <1>2 DEF Inv, SharedInv, StripeInv
<1>5. /\ session' \in [Sessions -> {"unused", "open", "paid", "expired"}]
      /\ emitted' \subseteq EventKinds \X Sessions
      /\ \A t \in Sessions : t # s => session'[t] = session[t]
      /\ session'[s] \in {session[s], "expired"}
      /\ \A t \in Sessions : <<"completed", t>> \in emitted' => <<"completed", t>> \in emitted
      /\ \A t \in Sessions, kind \in EventKinds :
           <<kind, t>> \in emitted' => <<kind, t>> \in emitted \/ t = s
  BY <1>2 DEF CreateCompensate, Inv, TypeOK, EventKinds
<1>6. TypeOK'
  BY <1>1, <1>3, <1>5 DEF Inv, TypeOK, rowVars, tableVars
<1>7. Steady
  BY <1>1, <1>2, <1>3, <1>4, <1>5 DEF Inv, Steady, rowVars, tableVars
<1>8. StripeInv'
  BY <1>1, <1>2, <1>4, <1>5 DEF Inv, StripeInv
<1>9. CreatorInv'
  BY <1>1, <1>3 DEF Inv, CreatorInv
<1> QED
  BY <1>1, <1>6, <1>7, <1>8, <1>9, SteadyKeeps DEF Inv, Exists, rowVars

-----------------------------------------------------------------------------
(* The deposit checkout.                                                    *)

\* A handler that starts reads a committed row.
LEMMA CheckoutBeginInv ==
  ASSUME Inv, NEW h \in Handlers, NEW b \in Bookings, CheckoutBegin(h, b)
  PROVE  Inv' /\ Steady
<1>1. /\ UNCHANGED <<rowVars, payment, processed, creator, staff, stripeVars>>
      /\ Exists(b)
  BY DEF CheckoutBegin
<1>2. /\ handler' \in [Handlers -> Checkouts]
      /\ \A g \in Handlers : g # h => handler'[g] = handler[g]
      /\ handler'[h].booking = b /\ handler'[h].pc = "begun"
      /\ handler'[h].seenSession = checkoutSession[b]
  BY DEF CheckoutBegin, Inv, TypeOK, Checkouts
<1>3. TypeOK'
  BY <1>1, <1>2 DEF CheckoutBegin, Inv, TypeOK, rowVars, stripeVars
<1>4. Steady /\ StripeInv'
  BY <1>1 DEF Inv, Steady, StripeInv, rowVars, stripeVars
<1>5. CheckoutInv'
  BY <1>1, <1>2, ConstantsAssumption DEF Inv, CheckoutInv, RowInv, stripeVars
<1> QED
  BY <1>1, <1>3, <1>4, <1>5, SteadyKeeps DEF Inv, Exists, rowVars, stripeVars

\* A handler that gives up, its answer from Stripe lost or recorded nowhere.
LEMMA CheckoutEndsInv ==
  ASSUME Inv, NEW h \in Handlers,
         CheckoutFails(h) \/ CheckoutRecordFails(h) \/ CheckoutCrash(h)
  PROVE  Inv' /\ Steady
<1> DEFINE b == handler[h].booking
<1>1. /\ UNCHANGED <<rowVars, payment, processed, creator, staff, shared, emitted>>
      /\ handler' = [handler EXCEPT ![h] = IdleHandler]
      /\ attempt' = attempt \/ SetAttempt(b, "FAILED")
      /\ \/ \E s \in Sessions : StripeCreates(b, s)
         \/ UNCHANGED <<session, owner, idem>>
  BY DEF CheckoutFails, CheckoutRecordFails, CheckoutCrash, tableVars, stripeVars
<1>2. b \in Bookings
  BY DEF CheckoutFails, CheckoutRecordFails, CheckoutCrash,
         Inv, TypeOK, CheckoutInv, Checkouts
<1>3. /\ session' \in [Sessions -> {"unused", "open", "paid", "expired"}]
      /\ owner' \in [Sessions -> Bookings \cup {NoBooking}]
      /\ idem' \in [Bookings -> Sessions \cup {NoSession}]
      /\ \A t \in Sessions : owner[t] # NoBooking =>
           owner'[t] = owner[t] /\ session'[t] = session[t]
      /\ StripeInv'
  BY <1>1, <1>2, StripeMayCreate
<1>4. /\ handler' \in [Handlers -> Checkouts]
      /\ \A g \in Handlers : g # h => handler'[g] = handler[g]
      /\ handler'[h].pc = "idle"
  BY <1>1 DEF Inv, TypeOK, Checkouts, IdleHandler, DepositStatuses
<1>5. attempt' \in [Bookings -> {"none", "PENDING", "CREATED", "FAILED"}]
  BY <1>1 DEF SetAttempt, Inv, TypeOK
<1>6. TypeOK'
  BY <1>1, <1>3, <1>4, <1>5 DEF Inv, TypeOK, rowVars
<1>7. Steady
  BY <1>1, <1>3 DEF Inv, Steady, StripeInv, rowVars
<1>8. CheckoutInv'
  BY <1>1, <1>3, <1>4, ConstantsAssumption DEF Inv, TypeOK, CheckoutInv, Checkouts
<1> QED
  BY <1>1, <1>3, <1>6, <1>7, <1>8, SteadyKeeps DEF Inv, Exists, rowVars

\* A handler that returns the session its booking already has.
LEMMA CheckoutReuseInv ==
  ASSUME Inv, NEW h \in Handlers, CheckoutReuse(h)
  PROVE  Inv' /\ Steady
<1> DEFINE s == handler[h].seenSession
<1>1. UNCHANGED <<rowVars, payment, processed, creator, staff,
                  session, owner, idem, emitted>>
  BY DEF CheckoutReuse
<1>2. /\ s \in Sessions /\ owner[s] # NoBooking
      /\ creator[owner[s]].pc = "done"
      /\ shared' = shared \cup {s}
  BY DEF CheckoutReuse, Inv, TypeOK, CheckoutInv, Checkouts
<1>3. /\ handler' \in [Handlers -> Checkouts]
      /\ \A g \in Handlers : g # h => handler'[g] = handler[g]
      /\ handler'[h].pc = "idle"
  BY DEF CheckoutReuse, Inv, TypeOK, Checkouts, IdleHandler, DepositStatuses
<1>4. TypeOK'
  <2>1. attempt' \in [Bookings -> {"none", "PENDING", "CREATED", "FAILED"}]
    BY DEF CheckoutReuse, SetAttempt, Inv, TypeOK
  <2> QED
    BY <1>1, <1>2, <1>3, <2>1 DEF Inv, TypeOK, rowVars
<1>5. Steady /\ StripeInv'
  BY <1>1, <1>2 DEF Inv, Steady, StripeInv, rowVars
<1>6. SharedInv' /\ CheckoutInv'
  BY <1>1, <1>2, <1>3 DEF Inv, SharedInv, CheckoutInv
<1> QED
  BY <1>1, <1>4, <1>5, <1>6, SteadyKeeps DEF Inv, Exists, rowVars

\* A handler that gets a session from Stripe.
LEMMA CheckoutCreateInv ==
  ASSUME Inv, NEW h \in Handlers, CheckoutCreate(h)
  PROVE  Inv' /\ Steady
<1> DEFINE b == handler[h].booking
<1>1. /\ UNCHANGED <<rowVars, tableVars, creator, staff, shared, emitted>>
      /\ b \in Bookings /\ handler[h].pc = "begun"
  BY DEF CheckoutCreate, Inv, TypeOK, CheckoutInv, Checkouts
<1>2. PICK s \in Sessions :
        /\ StripeCreates(b, s)
        /\ handler' = [handler EXCEPT ![h].pc = "created", ![h].sess = s]
  BY DEF CheckoutCreate
<1>3. /\ session' \in [Sessions -> {"unused", "open", "paid", "expired"}]
      /\ owner' \in [Sessions -> Bookings \cup {NoBooking}]
      /\ idem' \in [Bookings -> Sessions \cup {NoSession}]
      /\ \A t \in Sessions : owner[t] # NoBooking =>
           owner'[t] = owner[t] /\ session'[t] = session[t]
      /\ StripeInv'
      /\ owner'[s] = b
  BY <1>1, <1>2, StripeCreatesKeeps, StripeCreatesInv
<1>4. /\ handler' \in [Handlers -> Checkouts]
      /\ \A g \in Handlers : g # h => handler'[g] = handler[g]
      /\ handler'[h].pc = "created" /\ handler'[h].sess = s
      /\ handler'[h].booking = b
      /\ handler'[h].seenSession = handler[h].seenSession
  <2>1. handler[h] \in Checkouts /\ handler \in [Handlers -> Checkouts]
    BY DEF Inv, TypeOK
  <2>2. handler' = [handler EXCEPT ![h] = [[handler[h] EXCEPT !.pc = "created"]
                                                       EXCEPT !.sess = s]]
    BY <1>2, <2>1 DEF Checkouts
  <2>3. [[handler[h] EXCEPT !.pc = "created"] EXCEPT !.sess = s] \in Checkouts
    BY <2>1 DEF Checkouts
  <2> QED
    BY <2>1, <2>2, <2>3, <1>1 DEF Checkouts
<1>5. TypeOK'
  BY <1>1, <1>3, <1>4 DEF Inv, TypeOK, rowVars, tableVars
<1>6. Steady
  BY <1>1, <1>3 DEF Inv, Steady, StripeInv, rowVars, tableVars
<1>7. CheckoutInv'
  BY <1>1, <1>3, <1>4, ConstantsAssumption DEF Inv, TypeOK, CheckoutInv, Checkouts
<1> QED
  BY <1>1, <1>3, <1>5, <1>6, <1>7, SteadyKeeps DEF Inv, Exists, rowVars

\* The commit of a checkout.
LEMMA CheckoutRecordInv ==
  ASSUME Inv, NEW h \in Handlers, CheckoutRecord(h)
  PROVE  Inv' /\ Steady
<1> DEFINE b == handler[h].booking
           s == handler[h].sess
<1>1. UNCHANGED <<status, deposit, required, completed, aged, emailed,
                  processed, creator, staff, session, owner, idem, emitted>>
  BY DEF CheckoutRecord
<1>2. /\ s \in Sessions /\ b \in Bookings /\ owner[s] = b /\ b # NoBooking
      /\ creator[b].pc = "done"
      /\ shared' = shared \cup {s}
  <2>1. handler[h] \in Checkouts /\ handler[h].pc = "created"
    BY DEF CheckoutRecord, Inv, TypeOK
  <2> QED
    BY <2>1, ConstantsAssumption DEF CheckoutRecord, Inv, CheckoutInv, Checkouts
<1>3. /\ handler' \in [Handlers -> Checkouts]
      /\ \A g \in Handlers : g # h => handler'[g] = handler[g]
      /\ handler'[h].pc = "idle"
  BY DEF CheckoutRecord, Inv, TypeOK, Checkouts, IdleHandler, DepositStatuses
<1>4. /\ checkoutSession' \in [Bookings -> Sessions \cup {NoSession}]
      /\ \A c \in Bookings : c # b => checkoutSession'[c] = checkoutSession[c]
      /\ checkoutSession'[b] \in {checkoutSession[b], s}
      /\ paymentIntent' \in [Bookings -> Sessions \cup {NoSession}]
      /\ attempt' \in [Bookings -> {"none", "PENDING", "CREATED", "FAILED"}]
  BY <1>2 DEF CheckoutRecord, SetAttempt, IntentOf, Inv, TypeOK
<1>5. /\ payment' \in [Sessions -> {"none", "PENDING", "SUCCEEDED", "FAILED"}]
      /\ \A t \in Sessions : payment'[t] = payment[t] \/ payment'[t] = "PENDING"
  BY <1>2 DEF CheckoutRecord, Inv, TypeOK
<1>6. TypeOK'
  BY <1>1, <1>2, <1>3, <1>4, <1>5 DEF Inv, TypeOK
<1>7. Steady /\ StripeInv'
  BY <1>1, <1>2, <1>5 DEF Inv, Steady, StripeInv
<1>8. RowInv' /\ SharedInv' /\ CheckoutInv'
  BY <1>1, <1>2, <1>3, <1>4 DEF Inv, RowInv, SharedInv, CheckoutInv, Exists
<1> QED
  BY <1>1, <1>6, <1>7, <1>8, SteadyKeeps DEF Inv

-----------------------------------------------------------------------------
(* The webhook.                                                             *)

\* A paid session's event marks its own booking paid.
LEMMA DepositPaidInv ==
  ASSUME Inv, NEW s \in Sessions, DepositPaid(s)
  PROVE  Inv' /\ Steady
<1> DEFINE b == owner[s]
<1>1. UNCHANGED <<required, completed, aged, emailed, attempt, callVars, stripeVars>>
  BY DEF DepositPaid
<1>2. /\ session[s] = "paid" /\ b \in Bookings /\ creator[b].pc = "done"
      /\ b # NoBooking /\ Exists(b)
  BY ConstantsAssumption DEF DepositPaid, Inv, TypeOK, StripeInv, RowInv
<1>3. /\ status' \in [Bookings -> Statuses \cup {"absent"}]
      /\ deposit' \in [Bookings -> DepositStatuses]
      /\ \A c \in Bookings : c # b =>
           deposit'[c] = deposit[c] /\ status'[c] = status[c]
      /\ deposit'[b] = "paid"
  BY <1>2 DEF DepositPaid, MarkDepositPaid, StatusWhenPaid, Inv, TypeOK,
              Statuses, DepositStatuses
<1>4. /\ checkoutSession' \in [Bookings -> Sessions \cup {NoSession}]
      /\ \A c \in Bookings : c # b => checkoutSession'[c] = checkoutSession[c]
      /\ checkoutSession'[b] = s
      /\ paymentIntent' \in [Bookings -> Sessions \cup {NoSession}]
  BY <1>2 DEF DepositPaid, Inv, TypeOK
<1>5. /\ payment' \in [Sessions -> {"none", "PENDING", "SUCCEEDED", "FAILED"}]
      /\ \A t \in Sessions : t # s => payment'[t] = payment[t]
      /\ payment'[s] = "SUCCEEDED"
      /\ processed' = processed \cup {<<"completed", s>>}
  BY DEF DepositPaid, Inv, TypeOK
<1>6. TypeOK'
  BY <1>1, <1>3, <1>4, <1>5 DEF Inv, TypeOK, EventKinds, callVars, stripeVars
<1>7. Steady /\ StripeInv'
  BY <1>1, <1>3, <1>5 DEF Inv, Steady, StripeInv, callVars, stripeVars
<1>8. RowInv'
  BY <1>1, <1>2, <1>3, <1>4 DEF Inv, RowInv, Exists, callVars, stripeVars
<1>9. PaidInv'
  <2> SUFFICES ASSUME NEW c \in Bookings, deposit'[c] = "paid"
               PROVE  /\ creator[c].pc = "done"
                      /\ \E t \in Sessions :
                           /\ owner[t] = c /\ session[t] = "paid"
                           /\ <<"completed", t>> \in processed'
                           /\ payment'[t] # "none"
    BY <1>1 DEF PaidInv, callVars, stripeVars
  <2>1. CASE c = b
    <3>1. owner[s] = c /\ session[s] = "paid" /\ creator[c].pc = "done"
      BY <2>1, <1>2
    <3>2. <<"completed", s>> \in processed' /\ payment'[s] # "none"
      BY <1>5
    <3> QED
      BY <3>1, <3>2
  <2>2. CASE c # b
    <3>1. deposit[c] = "paid"
      BY <2>2, <1>3
    <3>2. PICK t \in Sessions : /\ owner[t] = c /\ session[t] = "paid"
                               /\ <<"completed", t>> \in processed
                               /\ payment[t] # "none"
      BY <3>1 DEF Inv, PaidInv
    <3>3. payment'[t] # "none" /\ <<"completed", t>> \in processed'
      BY <3>2, <2>2, <1>5
    <3> QED
      BY <3>1, <3>2, <3>3 DEF Inv, PaidInv
  <2> QED
    BY <2>1, <2>2
<1> QED
  BY <1>1, <1>6, <1>7, <1>8, <1>9, SteadyKeeps DEF Inv, callVars, stripeVars

\* A failed deposit touches no paid one.
LEMMA MarkDepositFailedKeeps ==
  ASSUME Inv, NEW b \in Bookings, NEW failure \in {"expired", "failed"},
         MarkDepositFailed(b, failure)
  PROVE  /\ status' \in [Bookings -> Statuses \cup {"absent"}]
         /\ deposit' \in [Bookings -> DepositStatuses]
         /\ \A c \in Bookings :
              /\ deposit'[c] = "paid" <=> deposit[c] = "paid"
              /\ Exists(c)' <=> Exists(c)
              /\ status'[c] \in {status[c], "CANCELLED"}
  BY DEF MarkDepositFailed, Inv, TypeOK, Statuses, DepositStatuses, Exists

\* A failure event attaches at most its own session.
LEMMA DepositFailsInv ==
  ASSUME Inv, NEW s \in Sessions, NEW b \in Bookings,
         \/ DepositExpired(s) /\ b = owner[s]
         \/ DepositDeclined(s, b)
  PROVE  Inv' /\ Steady
<1>1. /\ UNCHANGED <<required, completed, aged, emailed, attempt, callVars, stripeVars>>
      /\ \E failure \in {"expired", "failed"} : MarkDepositFailed(b, failure)
  BY DEF DepositExpired, DepositDeclined
<1>2. /\ status' \in [Bookings -> Statuses \cup {"absent"}]
      /\ deposit' \in [Bookings -> DepositStatuses]
      /\ \A c \in Bookings :
           /\ deposit'[c] = "paid" <=> deposit[c] = "paid"
           /\ Exists(c)' <=> Exists(c)
  BY <1>1, MarkDepositFailedKeeps
<1>3. /\ checkoutSession' \in [Bookings -> Sessions \cup {NoSession}]
      /\ \A c \in Bookings : \/ checkoutSession'[c] = checkoutSession[c]
                             \/ checkoutSession'[c] = s /\ owner[s] = c
  <2>1. CASE DepositExpired(s) /\ b = owner[s]
    <3>1. checkoutSession \in [Bookings -> Sessions \cup {NoSession}]
      BY DEF Inv, TypeOK
    <3>2. checkoutSession' = [checkoutSession EXCEPT ![b] = s]
      BY <2>1 DEF DepositExpired
    <3> QED
      BY <2>1, <3>1, <3>2
  <2>2. CASE DepositDeclined(s, b)
    <3>1. checkoutSession \in [Bookings -> Sessions \cup {NoSession}]
      BY DEF Inv, TypeOK
    <3>2. checkoutSession' = checkoutSession
      BY <2>2 DEF DepositDeclined
    <3> QED
      BY <3>1, <3>2
  <2> QED
    BY <2>1, <2>2
<1>4. /\ payment' \in [Sessions -> {"none", "PENDING", "SUCCEEDED", "FAILED"}]
      /\ \A t \in Sessions : payment[t] # "none" => payment'[t] # "none"
      /\ processed \subseteq processed' /\ processed' \subseteq EventKinds \X Sessions
  BY DEF DepositExpired, DepositDeclined, Inv, TypeOK, EventKinds
<1>i. paymentIntent' \in [Bookings -> Sessions \cup {NoSession}]
  BY DEF DepositExpired, DepositDeclined, Inv, TypeOK
<1>5. TypeOK'
  BY <1>1, <1>2, <1>3, <1>4, <1>i DEF Inv, TypeOK, callVars, stripeVars
<1>6. Steady /\ StripeInv'
  BY <1>1, <1>2, <1>4 DEF Inv, Steady, StripeInv, callVars, stripeVars
<1>7. RowInv'
  BY <1>1, <1>2, <1>3 DEF Inv, RowInv, callVars, stripeVars
<1> QED
  BY <1>1, <1>2, <1>5, <1>6, <1>7, SteadyKeeps DEF Inv, callVars, stripeVars

\* A delivery, applied or ignored.
LEMMA WebhookInv ==
  ASSUME Inv, Webhook
  PROVE  Inv' /\ Steady
<1>1. ASSUME NEW s \in Sessions, DepositPaid(s)
      PROVE  Inv' /\ Steady
  BY <1>1, DepositPaidInv
<1>2. ASSUME NEW s \in Sessions, DepositExpired(s)
      PROVE  Inv' /\ Steady
  <2>1. owner[s] \in Bookings
    <3>1. <<"expired", s>> \in emitted /\ "expired" \in EventKinds
      BY <1>2 DEF DepositExpired, EventKinds
    <3> QED
      BY <3>1 DEF Inv, TypeOK, StripeInv
  <2> QED
    BY <1>2, <2>1, DepositFailsInv
<1>3. ASSUME NEW s \in Sessions, NEW b \in Bookings, DepositDeclined(s, b)
      PROVE  Inv' /\ Steady
  BY <1>3, DepositFailsInv
<1>4. ASSUME NEW e \in EventKinds \X Sessions, EventIgnored(e)
      PROVE  Inv' /\ Steady
  <2>1. UNCHANGED <<rowVars, attempt, payment, callVars, stripeVars>>
        /\ processed' = processed \cup {e}
    BY <1>4 DEF EventIgnored
  <2>2. TypeOK'
    BY <2>1 DEF Inv, TypeOK, rowVars, callVars, stripeVars
  <2>3. Steady /\ StripeInv'
    BY <2>1 DEF Inv, Steady, StripeInv, rowVars, callVars, stripeVars
  <2> QED
    BY <2>1, <2>2, <2>3, SteadyKeeps DEF Inv, Exists, rowVars, callVars, stripeVars
<1> QED
  BY <1>1, <1>2, <1>3, <1>4 DEF Webhook

-----------------------------------------------------------------------------
(* Staff, the dispatcher and the cleanup.                                   *)

\* A staff call reads a committed row; what it writes is one status.
LEMMA StaffCallInv ==
  ASSUME Inv, NEW p \in Staff, StaffCall(p)
  PROVE  Inv' /\ Steady
<1>1. ASSUME NEW kind \in {"confirm", "cancel", "complete"}, NEW b \in Bookings,
             StaffRead(p, kind, b)
      PROVE  Inv' /\ Steady
  <2>1. /\ UNCHANGED <<rowVars, tableVars, creator, handler, stripeVars>>
        /\ Exists(b) /\ StaffMay(kind, b)
    BY <1>1 DEF StaffRead
  <2>2. /\ staff' \in [Staff -> StaffCalls]
        /\ \A q \in Staff : q # p => staff'[q] = staff[q]
        /\ staff'[p].kind = kind /\ staff'[p].booking = b
    BY <1>1 DEF StaffRead, Inv, TypeOK, StaffCalls
  <2>3. TypeOK' /\ StripeInv'
    BY <2>1, <2>2 DEF Inv, TypeOK, StripeInv, rowVars, tableVars, stripeVars
  <2>4. Steady
    BY <2>1 DEF Inv, Steady, rowVars, tableVars, stripeVars
  <2>5. creator[b].pc = "done" /\ b # NoBooking
    BY <2>1, ConstantsAssumption DEF Inv, RowInv
  <2>6. kind = "confirm" => (b \in required => deposit[b] = "paid")
    BY <2>1 DEF StaffMay
  <2>7. StaffInv'
    BY <2>1, <2>2, <2>5, <2>6 DEF Inv, StaffInv, rowVars
  <2> QED
    BY <2>1, <2>3, <2>4, <2>7, SteadyKeeps DEF Inv, Exists, rowVars, stripeVars
<1>2. ASSUME StaffWrite(p)
      PROVE  Inv' /\ Steady
  <2> DEFINE b == staff[p].booking
             st == TargetStatus(staff[p].kind)
  <2>1. /\ UNCHANGED <<deposit, required, checkoutSession, paymentIntent, aged, emailed,
                       tableVars, creator, handler, stripeVars>>
        /\ staff' = [staff EXCEPT ![p] = IdleStaff]
        /\ status' = [status EXCEPT ![b] = IF staff[p].seen = st THEN @ ELSE st]
        /\ Exists(b) /\ staff[p].kind # "idle"
    BY <1>2 DEF StaffWrite
  <2>2. staff[p] \in StaffCalls /\ b \in Bookings
    BY <2>1 DEF Inv, TypeOK, StaffInv, StaffCalls
  <2>3. st \in {"CONFIRMED", "CANCELLED", "DONE"}
    BY <2>1, <2>2 DEF TargetStatus, StaffCalls
  <2>4. /\ status' \in [Bookings -> Statuses \cup {"absent"}]
        /\ \A c \in Bookings : Exists(c)' => Exists(c)
    BY <2>1, <2>3 DEF Inv, TypeOK, Statuses, Exists
  <2>5. /\ staff' \in [Staff -> StaffCalls]
        /\ \A q \in Staff : q # p => staff'[q] = staff[q]
        /\ staff'[p].kind = "idle"
    BY <2>1 DEF Inv, TypeOK, StaffCalls, IdleStaff
  <2>6. completed' \subseteq Bookings
    BY <1>2, <2>2 DEF StaffWrite, Inv, TypeOK
  <2>7. TypeOK' /\ StripeInv'
    BY <2>1, <2>4, <2>5, <2>6 DEF Inv, TypeOK, StripeInv, tableVars, stripeVars
  <2>8. Steady
    BY <2>1 DEF Inv, Steady, tableVars, stripeVars
  <2>9. StaffInv'
    BY <2>1, <2>5 DEF Inv, StaffInv
  <2> QED
    BY <2>1, <2>4, <2>7, <2>8, <2>9, SteadyKeeps DEF Inv, stripeVars
<1>3. ASSUME StaffGivesUp(p)
      PROVE  Inv' /\ Steady
  <2>1. /\ UNCHANGED <<rowVars, tableVars, creator, handler, stripeVars>>
        /\ staff' = [staff EXCEPT ![p] = IdleStaff]
    BY <1>3 DEF StaffGivesUp
  <2>2. /\ staff' \in [Staff -> StaffCalls]
        /\ \A q \in Staff : q # p => staff'[q] = staff[q]
        /\ staff'[p].kind = "idle"
    BY <2>1 DEF Inv, TypeOK, StaffCalls, IdleStaff
  <2>3. TypeOK' /\ StripeInv'
    BY <2>1, <2>2 DEF Inv, TypeOK, StripeInv, rowVars, tableVars, stripeVars
  <2>4. Steady
    BY <2>1 DEF Inv, Steady, rowVars, tableVars, stripeVars
  <2>5. StaffInv'
    BY <2>1, <2>2 DEF Inv, StaffInv, rowVars
  <2> QED
    BY <2>1, <2>3, <2>4, <2>5, SteadyKeeps DEF Inv, Exists, rowVars, stripeVars
<1> QED
  BY <1>1, <1>2, <1>3 DEF StaffCall

\* The dispatcher's write and the clock touch nothing but the row they name.
LEMMA WriteStatusInv ==
  ASSUME Inv, NEW b \in Bookings,
         \/ \E st \in ManualStatuses : WriteStatus(b, st)
         \/ ThirtyMinutesPass(b)
  PROVE  Inv' /\ Steady
<1>1. /\ UNCHANGED <<deposit, required, checkoutSession, paymentIntent, completed,
                     emailed, tableVars, callVars, stripeVars>>
      /\ Exists(b)
      /\ status' = status
         \/ \E st \in ManualStatuses : status' = [status EXCEPT ![b] = st]
      /\ aged' \in {aged, aged \cup {b}}
  BY DEF WriteStatus, ThirtyMinutesPass
<1>2. /\ status' \in [Bookings -> Statuses \cup {"absent"}]
      /\ \A c \in Bookings : Exists(c)' => Exists(c)
  BY <1>1, ConstantsAssumption DEF Inv, TypeOK, Exists
<1>3. TypeOK' /\ StripeInv'
  BY <1>1, <1>2 DEF Inv, TypeOK, StripeInv, tableVars, callVars, stripeVars
<1>4. Steady
  BY <1>1 DEF Inv, Steady, tableVars, callVars, stripeVars
<1> QED
  BY <1>1, <1>2, <1>3, <1>4, SteadyKeeps DEF Inv, callVars, stripeVars

\* The cleanup removes rows and their attempts.
LEMMA CleanupInv ==
  ASSUME Inv, Cleanup
  PROVE  Inv' /\ Steady
<1>1. UNCHANGED <<deposit, required, checkoutSession, paymentIntent, completed,
                  aged, emailed, payment, processed, callVars, stripeVars>>
  BY DEF Cleanup
<1>2. /\ status' \in [Bookings -> Statuses \cup {"absent"}]
      /\ attempt' \in [Bookings -> {"none", "PENDING", "CREATED", "FAILED"}]
      /\ \A c \in Bookings : Exists(c)' => Exists(c)
  BY DEF Cleanup, Inv, TypeOK, Exists
<1>3. TypeOK' /\ StripeInv'
  BY <1>1, <1>2 DEF Inv, TypeOK, StripeInv, callVars, stripeVars
<1>4. Steady
  BY <1>1 DEF Inv, Steady, callVars, stripeVars
<1> QED
  BY <1>1, <1>2, <1>3, <1>4, SteadyKeeps DEF Inv, callVars, stripeVars

-----------------------------------------------------------------------------
(* The customer and Stripe.                                                 *)

\* Whatever Stripe does by itself, a paid session stays paid.
LEMMA StripeStepInv ==
  ASSUME Inv, Stripe
  PROVE  Inv' /\ Steady
<1>1. UNCHANGED <<rowVars, tableVars, callVars, owner, shared>>
  BY DEF Stripe, CustomerPays, CardDeclined, SessionExpires, KeyLapses
<1> DEFINE Good == /\ TypeOK' /\ StripeInv'
                   /\ \A t \in Sessions : session[t] = "paid" => session'[t] = "paid"
<1>2. Good
  <2>1. ASSUME NEW s \in Sessions, CustomerPays(s)
        PROVE  Good
    <3>1. /\ session' = [session EXCEPT ![s] = "paid"]
          /\ emitted' = emitted \cup {<<"completed", s>>}
          /\ session[s] = "open" /\ s \in shared /\ idem' = idem
      BY <2>1 DEF CustomerPays
    <3>2. TypeOK'
      BY <1>1, <3>1 DEF Inv, TypeOK, EventKinds, rowVars, tableVars, callVars
    <3>3. StripeInv'
      BY <1>1, <3>1 DEF Inv, TypeOK, StripeInv
    <3> QED
      BY <3>1, <3>2, <3>3 DEF Inv, TypeOK
  <2>2. ASSUME NEW s \in Sessions, CardDeclined(s)
        PROVE  Good
    <3>1. /\ UNCHANGED <<session, idem>>
          /\ emitted' = emitted \cup {<<"declined", s>>}
          /\ session[s] = "open"
      BY <2>2 DEF CardDeclined
    <3>2. TypeOK'
      BY <1>1, <3>1 DEF Inv, TypeOK, EventKinds, rowVars, tableVars, callVars
    <3>3. StripeInv'
      BY <1>1, <3>1 DEF Inv, TypeOK, StripeInv
    <3> QED
      BY <3>1, <3>2, <3>3
  <2>3. ASSUME NEW s \in Sessions, SessionExpires(s)
        PROVE  Good
    <3>1. /\ session' = [session EXCEPT ![s] = "expired"]
          /\ emitted' = emitted \cup {<<"expired", s>>}
          /\ session[s] = "open" /\ idem' = idem
      BY <2>3 DEF SessionExpires
    <3>2. TypeOK'
      BY <1>1, <3>1 DEF Inv, TypeOK, EventKinds, rowVars, tableVars, callVars
    <3>3. StripeInv'
      BY <1>1, <3>1 DEF Inv, TypeOK, StripeInv
    <3> QED
      BY <3>1, <3>2, <3>3 DEF Inv, TypeOK
  <2>4. ASSUME NEW b \in Bookings, KeyLapses(b)
        PROVE  Good
    <3>1. /\ UNCHANGED <<session, emitted>>
          /\ idem' = [idem EXCEPT ![b] = NoSession]
          /\ session[idem[b]] # "open"
      BY <2>4 DEF KeyLapses
    <3>2. TypeOK'
      BY <1>1, <3>1 DEF Inv, TypeOK, rowVars, tableVars, callVars
    <3>3. \A c \in Bookings : c # b => idem'[c] = idem[c]
      BY <3>1 DEF Inv, TypeOK
    <3>4. idem'[b] = NoSession
      BY <3>1 DEF Inv, TypeOK
    <3>5. \A t \in Sessions : session[t] = "open" =>
            owner[t] \in Bookings /\ owner[t] # b
      <4>1. \A t \in Sessions : session[t] = "open" =>
              owner[t] # NoBooking /\ idem[owner[t]] = t
        BY DEF Inv, StripeInv
      <4> QED
        BY <3>1, <4>1 DEF Inv, TypeOK
    <3>6. StripeInv'
      BY <1>1, <3>1, <3>3, <3>4, <3>5 DEF Inv, StripeInv
    <3> QED
      BY <3>1, <3>2, <3>6
  <2> QED
    BY <2>1, <2>2, <2>3, <2>4 DEF Stripe
<1>3. Steady
  BY <1>1, <1>2 DEF Inv, Steady, rowVars, tableVars, callVars
<1> QED
  BY <1>1, <1>2, <1>3, SteadyKeeps DEF Inv, Exists, rowVars, callVars

-----------------------------------------------------------------------------
(* Every step.                                                              *)

\* Every action of Next keeps the invariant and what is steady.
LEMMA NextInv ==
  ASSUME Inv, Next
  PROVE  Inv' /\ Steady
<1>1. ASSUME NEW b \in Bookings, Create(b)
      PROVE  Inv' /\ Steady
  BY <1>1, CreatePhase1Inv, CreateCommitInv, CreateEndsInv, CreateCompensateInv
  DEF Create
<1>2. ASSUME NEW b \in Bookings, ThirtyMinutesPass(b)
      PROVE  Inv' /\ Steady
  BY <1>2, WriteStatusInv
<1>3. ASSUME NEW h \in Handlers, Checkout(h)
      PROVE  Inv' /\ Steady
  BY <1>3, CheckoutBeginInv, CheckoutEndsInv, CheckoutReuseInv,
     CheckoutCreateInv, CheckoutRecordInv
  DEF Checkout
<1>4. ASSUME NEW b \in Bookings, NEW st \in ManualStatuses, WriteStatus(b, st)
      PROVE  Inv' /\ Steady
  BY <1>4, WriteStatusInv
<1> QED
  BY <1>1, <1>2, <1>3, <1>4, StaffCallInv, WebhookInv, CleanupInv, StripeStepInv
  DEF Next

\* A step that changes nothing keeps the invariant.
LEMMA StutterInv ==
  ASSUME Inv, UNCHANGED vars
  PROVE  Inv' /\ Steady
<1>1. TypeOK' /\ StripeInv' /\ Steady
  BY DEF Inv, TypeOK, StripeInv, Steady,
         vars, rowVars, tableVars, callVars, stripeVars
<1> QED
  BY <1>1, SteadyKeeps
  DEF Inv, Exists, vars, rowVars, tableVars, callVars, stripeVars

\* The invariant holds of every reachable state.
THEOREM Invariance == Spec => []Inv
<1>1. Inv /\ [Next]_vars => Inv'
  BY NextInv, StutterInv
<1> QED
  BY InitInv, <1>1, PTL DEF Spec

\* Rows, calls and Stripe's objects have their types in every behaviour.
THEOREM TypeCorrect == Spec => []TypeOK
<1>1. Inv => TypeOK
  BY DEF Inv
<1> QED
  BY Invariance, <1>1, PTL

\* mark_deposit_paid: a deposit is marked paid only if a session of the booking
\* was paid and its event processed, whatever was delivered and in what order.
THEOREM PaidIsBacked == Spec => []PaidBackedByCharge
<1>1. Inv => PaidBackedByCharge
  BY DEF Inv, PaidInv, PaidBackedByCharge
<1> QED
  BY Invariance, <1>1, PTL

\* The deposit_checkout idempotency key: no booking ever has two sessions a
\* customer could pay, whatever answers were lost or calls ran at once.
THEOREM OneSessionOpen == Spec => []OneOpenSession
<1>1. Inv => OneOpenSession
  BY DEF Inv, StripeInv, OneOpenSession
<1> QED
  BY Invariance, <1>1, PTL

-----------------------------------------------------------------------------
(* What a step may do to the status of bookings.                            *)

\* st is a status booking b may take in this step: the slot index allows it
\* and a confirmation has its deposit.
Allowed(b, st) ==
  /\ MayBecome(b, st)
  /\ st = "CONFIRMED" => \/ status[b] = "CONFIRMED"
                         \/ b \in required' => deposit'[b] = "paid"
                         \/ "CONFIRMED" \in ManualStatuses

OneStatusWritten ==
  \E b \in Bookings, st \in Statuses :
    status' = [status EXCEPT ![b] = st] /\ Allowed(b, st)

\* Apart from the cleanup, a step writes one status at most, and one allowed.
LEMMA StatusSteps ==
  ASSUME Inv, [Next]_vars
  PROVE  status' = status \/ OneStatusWritten \/ Cleanup
<1>1. ASSUME NEW b \in Bookings, CreateCommit(b)
      PROVE  OneStatusWritten
  BY <1>1 DEF CreateCommit, OneStatusWritten, Allowed, MayBecome, Statuses
<1>2. ASSUME NEW b \in Bookings, MarkDepositPaid(b), Exists(b)
      PROVE  OneStatusWritten
  <2>1. /\ MayBecome(b, StatusWhenPaid(b)) /\ deposit'[b] = "paid"
        /\ status' = [status EXCEPT ![b] = StatusWhenPaid(b)]
    BY <1>2 DEF MarkDepositPaid, Inv, TypeOK
  <2>2. StatusWhenPaid(b) \in Statuses
    BY <1>2 DEF StatusWhenPaid, Inv, TypeOK, Exists, Statuses
  <2>3. Allowed(b, StatusWhenPaid(b))
    BY <2>1 DEF Allowed
  <2> QED
    BY <2>1, <2>2, <2>3 DEF OneStatusWritten
<1>3. ASSUME NEW b \in Bookings, NEW failure, MarkDepositFailed(b, failure), Exists(b)
      PROVE  status' = status \/ OneStatusWritten
  <2> DEFINE st == IF status[b] = "PENDING" THEN "CANCELLED" ELSE status[b]
  <2>1. status' = status \/ status' = [status EXCEPT ![b] = st]
    BY <1>3 DEF MarkDepositFailed
  <2>2. st \in Statuses
    BY <1>3 DEF Inv, TypeOK, Exists, Statuses
  <2>3. Allowed(b, st)
    BY DEF Allowed, MayBecome, BlockingStatuses
  <2> QED
    BY <2>1, <2>2, <2>3 DEF OneStatusWritten
<1>4. ASSUME NEW p \in Staff, StaffWrite(p)
      PROVE  OneStatusWritten
  <2> DEFINE b  == staff[p].booking
             st == TargetStatus(staff[p].kind)
  <2>1. /\ staff[p] \in StaffCalls /\ staff[p].kind # "idle" /\ b \in Bookings
        /\ status[b] \in Statuses /\ MayBecome(b, st)
        /\ status' = [status EXCEPT ![b] = IF staff[p].seen = st THEN @ ELSE st]
        /\ UNCHANGED <<deposit, required>>
    BY <1>4 DEF StaffWrite, Inv, TypeOK, StaffInv, StaffCalls, Exists
  <2>2. CASE staff[p].seen = st
    <3>1. status' = [status EXCEPT ![b] = status[b]]
      BY <2>1, <2>2
    <3>2. Allowed(b, status[b])
      BY DEF Allowed, MayBecome
    <3> QED
      BY <2>1, <3>1, <3>2 DEF OneStatusWritten
  <2>3. CASE staff[p].seen # st
    <3>1. status' = [status EXCEPT ![b] = st]
      BY <2>1, <2>3
    <3>2. st \in Statuses /\ (st = "CONFIRMED" => staff[p].kind = "confirm")
      BY <2>1 DEF TargetStatus, StaffCalls, Statuses
    <3>3. st = "CONFIRMED" /\ b \in required' => deposit'[b] = "paid"
      BY <2>1, <3>2 DEF Inv, StaffInv
    <3>4. Allowed(b, st)
      BY <2>1, <3>3 DEF Allowed
    <3> QED
      BY <2>1, <3>1, <3>2, <3>4 DEF OneStatusWritten
  <2> QED
    BY <2>2, <2>3
<1>5. ASSUME NEW b \in Bookings, NEW st \in ManualStatuses, WriteStatus(b, st)
      PROVE  OneStatusWritten
  BY <1>5, ConstantsAssumption DEF WriteStatus, OneStatusWritten, Allowed
<1>6. ASSUME NEW b \in Bookings, Create(b) \/ ThirtyMinutesPass(b)
      PROVE  status' = status \/ OneStatusWritten
  BY <1>1, <1>6 DEF Create, CreatePhase1, CreateRefused, CreateCompensate,
     CreateCommitFails, CreateCrash, ThirtyMinutesPass, rowVars
<1>7. ASSUME NEW h \in Handlers, Checkout(h)
      PROVE  status' = status
  BY <1>7 DEF Checkout, CheckoutBegin, CheckoutReuse, CheckoutCreate,
     CheckoutFails, CheckoutRecord, CheckoutRecordFails, CheckoutCrash, rowVars
<1>8. ASSUME NEW p \in Staff, StaffCall(p)
      PROVE  status' = status \/ OneStatusWritten
  BY <1>4, <1>8 DEF StaffCall, StaffRead, StaffGivesUp, rowVars
<1>9. CASE Webhook
  <2>0. ASSUME NEW s \in Sessions, NEW kind \in EventKinds, <<kind, s>> \in emitted
        PROVE  owner[s] \in Bookings
    <3>1. owner[s] # NoBooking
      BY <2>0 DEF Inv, StripeInv
    <3> QED
      BY <3>1 DEF Inv, TypeOK
  <2>1. ASSUME NEW s \in Sessions, DepositPaid(s)
        PROVE  OneStatusWritten
    <3>1. /\ <<"completed", s>> \in emitted
          /\ Exists(owner[s]) /\ MarkDepositPaid(owner[s])
      BY <2>1 DEF DepositPaid
    <3>2. owner[s] \in Bookings
      BY <2>0, <3>1 DEF EventKinds
    <3> QED
      BY <3>1, <3>2, <1>2
  <2>2. ASSUME NEW s \in Sessions, DepositExpired(s)
        PROVE  status' = status \/ OneStatusWritten
    <3>1. /\ <<"expired", s>> \in emitted
          /\ Exists(owner[s]) /\ MarkDepositFailed(owner[s], "expired")
      BY <2>2 DEF DepositExpired
    <3>2. owner[s] \in Bookings
      BY <2>0, <3>1 DEF EventKinds
    <3> QED
      BY <3>1, <3>2, <1>3
  <2>3. ASSUME NEW s \in Sessions, NEW b \in Bookings, DepositDeclined(s, b)
        PROVE  status' = status \/ OneStatusWritten
    BY <2>3, <1>3 DEF DepositDeclined
  <2>4. ASSUME NEW e \in EventKinds \X Sessions, EventIgnored(e)
        PROVE  status' = status
    BY <2>4 DEF EventIgnored, rowVars
  <2> QED
    BY <1>9, <2>1, <2>2, <2>3, <2>4 DEF Webhook
<1>10. CASE Stripe
  BY <1>10 DEF Stripe, CustomerPays, CardDeclined, SessionExpires, KeyLapses, rowVars
<1>11. CASE UNCHANGED vars
  BY <1>11 DEF vars, rowVars
<1> QED
  BY <1>5, <1>6, <1>7, <1>8, <1>9, <1>10, <1>11 DEF Next

-----------------------------------------------------------------------------
(* One active booking per slot.                                             *)

\* Writing an allowed status keeps the slots exclusive, and so does deleting.
LEMMA SlotExclusiveStep ==
  ASSUME Inv, SlotExclusive, [Next]_vars
  PROVE  SlotExclusive'
<1>1. CASE status' = status
  BY <1>1 DEF SlotExclusive
<1>2. CASE OneStatusWritten
  <2>1. PICK b \in Bookings, st \in Statuses :
          status' = [status EXCEPT ![b] = st] /\ Allowed(b, st)
    BY <1>2 DEF OneStatusWritten
  <2>2. /\ status'[b] = st
        /\ \A c \in Bookings : c # b => status'[c] = status[c]
    BY <2>1 DEF Inv, TypeOK
  <2>3. st \in BlockingStatuses =>
          \A c \in Bookings \ {b} :
            SlotOf[c] = SlotOf[b] => status[c] \notin BlockingStatuses
    BY <2>1 DEF Allowed, MayBecome, SlotFree, SlotExclusive
  <2> QED
    BY <2>2, <2>3 DEF SlotExclusive
<1>3. CASE Cleanup
  BY <1>3 DEF Cleanup, SlotExclusive, BlockingStatuses
<1> QED
  BY <1>1, <1>2, <1>3, StatusSteps

\* uq_bookings_active_slot: whatever writes a status, creations, payments, staff
\* or the dispatcher, a slot never has two active bookings.
THEOREM SlotHasOneHolder == Spec => []SlotExclusive
<1>1. Init => SlotExclusive
  BY DEF Init, SlotExclusive, BlockingStatuses
<1>2. Inv /\ SlotExclusive /\ [Next]_vars => SlotExclusive'
  BY SlotExclusiveStep
<1> QED
  BY Invariance, <1>1, <1>2, PTL DEF Spec

-----------------------------------------------------------------------------
(* Confirmed bookings and paid deposits.                                    *)

\* A deposit is asked for only when the row is created, as PENDING.
LEMMA RequiredSteps ==
  ASSUME Inv, [Next]_vars
  PROVE  \/ required' = required
         \/ \E b \in Bookings : /\ status' = [status EXCEPT ![b] = "PENDING"]
                                /\ required' = required \cup {b}
<1>1. ASSUME NEW b \in Bookings, CreateCommit(b)
      PROVE  \/ required' = required
             \/ /\ status' = [status EXCEPT ![b] = "PENDING"]
                /\ required' = required \cup {b}
  BY <1>1 DEF CreateCommit
<1>2. ASSUME NEW b \in Bookings, Create(b) \/ ThirtyMinutesPass(b)
      PROVE  CreateCommit(b) \/ required' = required
  BY <1>2 DEF Create, CreatePhase1, CreateRefused, CreateCompensate,
     CreateCommitFails, CreateCrash, ThirtyMinutesPass, rowVars
<1>3. ASSUME NEW h \in Handlers, Checkout(h)
      PROVE  required' = required
  BY <1>3 DEF Checkout, CheckoutBegin, CheckoutReuse, CheckoutCreate,
     CheckoutFails, CheckoutRecord, CheckoutRecordFails, CheckoutCrash, rowVars
<1>4. ASSUME NEW p \in Staff, StaffCall(p)
      PROVE  required' = required
  BY <1>4 DEF StaffCall, StaffRead, StaffWrite, StaffGivesUp, rowVars
<1>5. Webhook \/ Cleanup => required' = required
  BY DEF Webhook, DepositPaid, DepositExpired, DepositDeclined, EventIgnored,
         Cleanup, rowVars
<1>6. Stripe \/ UNCHANGED vars => required' = required
  BY DEF Stripe, CustomerPays, CardDeclined, SessionExpires, KeyLapses, vars, rowVars
<1>7. \A b \in Bookings, st \in ManualStatuses :
        WriteStatus(b, st) => required' = required
  BY DEF WriteStatus
<1> QED
  BY <1>1, <1>2, <1>3, <1>4, <1>5, <1>6, <1>7 DEF Next

\* A step keeps every confirmed booking's deposit paid.
LEMMA ConfirmedStep ==
  ASSUME Inv, ConfirmedDepositPaid, [Next]_vars, "CONFIRMED" \notin ManualStatuses
  PROVE  ConfirmedDepositPaid'
<1> SUFFICES ASSUME NEW b \in Bookings, status'[b] = "CONFIRMED", b \in required'
             PROVE  deposit'[b] = "paid"
  BY DEF ConfirmedDepositPaid
<1>1. Steady
  BY NextInv, StutterInv
<1>2. b \in required
  BY RequiredSteps DEF Inv, TypeOK
<1>3. CASE status[b] = "CONFIRMED"
  <2>1. deposit[b] = "paid" /\ creator[b].pc = "done"
    BY <1>2, <1>3 DEF ConfirmedDepositPaid, Inv, RowInv, Exists
  <2> QED
    BY <1>1, <2>1 DEF Steady
<1>4. CASE status[b] # "CONFIRMED"
  <2>1. ~(status' = status) /\ ~Cleanup
    BY <1>4 DEF Cleanup
  <2>2. PICK c \in Bookings, st \in Statuses :
          status' = [status EXCEPT ![c] = st] /\ Allowed(c, st)
    BY <2>1, StatusSteps DEF OneStatusWritten
  <2>3. c = b /\ st = "CONFIRMED"
    BY <1>4, <2>2 DEF Inv, TypeOK
  <2> QED
    BY <1>4, <2>2, <2>3 DEF Allowed
<1> QED
  BY <1>3, <1>4

\* assert_valid_booking_transition and confirm_booking: as long as nobody writes
\* CONFIRMED by hand, a confirmed booking that needs a deposit has it.
THEOREM ConfirmedIsPaid ==
  ASSUME "CONFIRMED" \notin ManualStatuses
  PROVE  Spec => []ConfirmedDepositPaid
<1>1. Init => ConfirmedDepositPaid
  BY DEF Init, ConfirmedDepositPaid
<1>2. Inv /\ ConfirmedDepositPaid /\ [Next]_vars => ConfirmedDepositPaid'
  BY ConfirmedStep
<1> QED
  BY Invariance, <1>1, <1>2, PTL DEF Spec

\* mark_deposit_failed, create_deposit_checkout and cleanup_stale_bookings: no
\* step takes a paid deposit back or deletes its row.
THEOREM PaidDepositIsFinal == Spec => PaidIsFinal
<1> DEFINE Kept == \A b \in Bookings : Exists(b) /\ deposit[b] = "paid" =>
                     Exists(b)' /\ deposit'[b] = "paid"
<1>1. Inv /\ [Next]_vars => Kept
  <2> SUFFICES ASSUME Inv, [Next]_vars,
                      NEW b \in Bookings, Exists(b), deposit[b] = "paid"
               PROVE  Exists(b)' /\ deposit'[b] = "paid"
    OBVIOUS
  <2>1. deposit'[b] = "paid"
    BY NextInv, StutterInv DEF Steady, Inv, PaidInv
  <2>2. CASE status' = status
    BY <2>1, <2>2 DEF Exists
  <2>3. CASE OneStatusWritten
    BY <2>1, <2>3 DEF OneStatusWritten, Inv, TypeOK, Exists, Statuses
  <2>4. CASE Cleanup
    <3>1. Referenced(b)
      BY DEF Inv, PaidInv, Referenced
    <3> QED
      BY <2>4, <3>1 DEF Cleanup, Exists
  <2> QED
    BY <2>1, <2>2, <2>3, <2>4, StatusSteps
<1> QED
  BY Invariance, <1>1, PTL DEF Spec, PaidIsFinal
=============================================================================
