----------------------- MODULE InvoicePaymentsProofs ------------------------
(***************************************************************************)
(* Proofs about InvoicePayments, for any intents, row bounds, requests,    *)
(* invoice total, manual amounts and form of the refund events.            *)
(***************************************************************************)
EXTENDS InvoicePayments, FiniteSetTheorems, TLAPS

(* A row that counts is about a paid intent and carries its reference.      *)
RowOK(w, n) ==
  /\ w.status = "SUCCEEDED" => w.ref /\ n.state = "paid" /\ w.amount <= n.amount
  /\ w.ref => w.status # "none"
RowInv == \A i \in Intents, s \in Slots : RowOK(row[i][s], intent[i])

(* One row at most carries the reference of an intent.                      *)
RefInv == \A i \in Intents, s, t \in Slots : row[i][s].ref /\ row[i][t].ref => s = t

(* Events are about what has happened at Stripe.                            *)
EventInv ==
  \A e \in event :
    /\ intent[e.intent].state # "none" /\ e.refunded <= intent[e.intent].amount
    /\ e.kind # "failed" => intent[e.intent].state = "paid"

(* A checkout asks for the amount of the session it got.                    *)
RequestInv ==
  \A r \in Requests : request[r].pc # "idle" /\ request[r].kind = "checkout" =>
    /\ intent[request[r].intent].state # "none"
    /\ request[r].amount = intent[request[r].intent].amount

IntentInv == \A i \in Intents : intent[i].refunded <= intent[i].amount

Inv == TypeOK /\ RowInv /\ RefInv /\ EventInv /\ RequestInv /\ IntentInv

(* What Stripe knows of an intent once it exists.                           *)
IntentKept ==
  \A i \in Intents : intent[i].state # "none" =>
    /\ intent'[i].state # "none" /\ intent'[i].amount = intent[i].amount
    /\ intent[i].state = "paid" => intent'[i].state = "paid"

-----------------------------------------------------------------------------
(* Types of the pieces.                                                     *)

LEMMA PieceTypes ==
  /\ NoRow \in RowType /\ Idle \in RequestType
  /\ NoRows \in [Intents -> [Slots -> RowType]]
BY InvoiceAssumption
   DEF NoRows, NoRow, RowType, RowStatuses, Idle, RequestType, Statuses

LEMMA DerivedType ==
  ASSUME NEW p, NEW old \in Statuses
  PROVE  /\ Derived(p, old) \in Statuses /\ Reconciled(p, old) \in Statuses
BY DEF Derived, Reconciled, Statuses

LEMMA OutdatedType ==
  ASSUME NEW q \in RequestType
  PROVE  /\ Outdated(q) \in RequestType
         /\ Outdated(q).pc = q.pc /\ Outdated(q).kind = q.kind
         /\ Outdated(q).intent = q.intent /\ Outdated(q).amount = q.amount
         /\ Outdated(q).pc = "written" => Outdated(q).fresh = FALSE
BY DEF Outdated, RequestType

(* The row a checkout writes: PENDING, or what it was already.              *)
LEMMA PendingType ==
  ASSUME TypeOK, NEW q \in RequestType, NEW s \in Slots
  PROVE  /\ Pending(row, q, s) \in RowType
         /\ Pending(row, q, s).ref = row[q.intent][s].ref
         /\ Pending(row, q, s).status \in {"PENDING", row[q.intent][s].status}
         /\ Pending(row, q, s).amount \in {q.amount, row[q.intent][s].amount}
         /\ row[q.intent][s].status # "none" => Pending(row, q, s).status # "none"
<1> DEFINE now == row[q.intent][s]
           known == IF q.known[s].status = "none" THEN now ELSE q.known[s]
           new == [status |-> "PENDING", amount |-> q.amount, ref |-> known.ref, session |-> TRUE]
           W == Pending(row, q, s)
<1>1. now \in RowType /\ known \in RowType /\ new \in RowType
  BY DEF TypeOK, RequestType, RowType, RowStatuses
<1>2. W = Saved(now, known, new)
  BY DEF Pending
<1> HIDE DEF now, known
<1>3. DOMAIN now = {"status", "amount", "ref", "session"}
  BY <1>1 DEF RowType
<1>4. W = [c \in {"status", "amount", "ref", "session"} |->
             IF new[c] = known[c] THEN now[c] ELSE new[c]]
  BY <1>2, <1>3 DEF Saved
<1>5. W = [status |-> W.status, amount |-> W.amount, ref |-> W.ref, session |-> W.session]
  BY <1>4
<1>6. /\ W.status \in {"PENDING", now.status} /\ W.amount \in {q.amount, now.amount}
      /\ W.ref = now.ref /\ W.session \in BOOLEAN
  BY <1>1, <1>4 DEF RowType
<1>7. W.status \in RowStatuses /\ W.amount \in Nat /\ W.ref \in BOOLEAN
  BY <1>1, <1>6 DEF RowType, RowStatuses, RequestType
<1>8. W \in RowType
  BY <1>5, <1>6, <1>7 DEF RowType
<1>9. now.status # "none" => W.status # "none"
  BY <1>6
<1> QED BY <1>6, <1>8, <1>9 DEF now

-----------------------------------------------------------------------------
(* What is left to show of a step that keeps what Stripe knows.             *)

SameCheckout(q, p) ==
  /\ p.pc # "idle" /\ p.kind = "checkout" /\ p.intent = q.intent /\ p.amount = q.amount

LEMMA Keep ==
  ASSUME Inv, TypeOK', IntentKept, IntentInv', RefInv',
         \A i \in Intents, s \in Slots :
           row'[i][s] = row[i][s] \/ RowOK(row'[i][s], intent'[i]),
         \A e \in event' : e \in event \/
           /\ intent'[e.intent].state # "none" /\ e.refunded <= intent'[e.intent].amount
           /\ e.kind # "failed" => intent'[e.intent].state = "paid",
         \A p \in Requests : request'[p].pc # "idle" /\ request'[p].kind = "checkout" =>
           \/ SameCheckout(request'[p], request[p])
           \/ /\ intent'[request'[p].intent].state # "none"
              /\ request'[p].amount = intent'[request'[p].intent].amount
  PROVE  Inv'
<1>1. RowInv'
  <2> SUFFICES ASSUME NEW i \in Intents, NEW s \in Slots, row'[i][s] = row[i][s]
               PROVE  RowOK(row'[i][s], intent'[i])
    BY DEF RowInv, RowOK
  <2>1. RowOK(row[i][s], intent[i])
    BY DEF Inv, RowInv
  <2> QED BY <2>1 DEF RowOK, IntentKept
<1>2. EventInv'
  <2> SUFFICES ASSUME NEW e \in event', e \in event
               PROVE  /\ intent'[e.intent].state # "none"
                      /\ e.refunded <= intent'[e.intent].amount
                      /\ e.kind # "failed" => intent'[e.intent].state = "paid"
    BY DEF EventInv
  <2>1. e.intent \in Intents
    BY DEF Inv, TypeOK, EventType
  <2> QED BY <2>1 DEF Inv, EventInv, IntentKept
<1>3. RequestInv'
  <2> SUFFICES ASSUME NEW p \in Requests, SameCheckout(request'[p], request[p])
               PROVE  /\ intent'[request'[p].intent].state # "none"
                      /\ request'[p].amount = intent'[request'[p].intent].amount
    BY DEF RequestInv
  <2>1. request[p].intent \in Intents
    BY DEF Inv, TypeOK, RequestType
  <2> QED BY <2>1 DEF Inv, RequestInv, IntentKept, SameCheckout
<1> QED BY <1>1, <1>2, <1>3 DEF Inv

(* A step of the webhook or of the admin changes no request but its fresh.  *)
LEMMA AllOutdated ==
  ASSUME TypeOK, request' = [p \in Requests |-> Outdated(request[p])]
  PROVE  /\ request' \in [Requests -> RequestType]
         /\ \A p \in Requests :
              /\ request'[p].pc = request[p].pc /\ request'[p].kind = request[p].kind
              /\ request'[p].pc # "idle" /\ request'[p].kind = "checkout" =>
                   SameCheckout(request'[p], request[p])
              /\ request'[p].pc = "written" => request'[p].fresh = FALSE
<1>1. \A o \in Requests : request[o] \in RequestType /\ request'[o] = Outdated(request[o])
  BY DEF TypeOK
<1>2. request' \in [Requests -> RequestType]
  BY <1>1, OutdatedType
<1>3. \A p \in Requests :
        /\ request'[p].pc = request[p].pc /\ request'[p].kind = request[p].kind
        /\ request'[p].pc # "idle" /\ request'[p].kind = "checkout" =>
             SameCheckout(request'[p], request[p])
        /\ request'[p].pc = "written" => request'[p].fresh = FALSE
  BY <1>1, OutdatedType DEF SameCheckout
<1> QED BY <1>2, <1>3

-----------------------------------------------------------------------------
(* Requests.                                                                *)

(* A step of request r that touches no row.                                 *)
LEMMA RequestStep ==
  ASSUME Inv, NEW r \in Requests, NEW q \in RequestType,
         request' = [request EXCEPT ![r] = q],
         UNCHANGED <<row, manual, event, raced, strayed, status>>,
         intent' \in [Intents -> IntentType], IntentKept, IntentInv',
         q.pc # "idle" /\ q.kind = "checkout" =>
           intent'[q.intent].state # "none" /\ q.amount = intent'[q.intent].amount
  PROVE  Inv'
<1>1. TypeOK'
  BY DEF Inv, TypeOK
<1>2. RefInv'
  BY DEF Inv, RefInv
<1>3. \A p \in Requests : request'[p].pc # "idle" /\ request'[p].kind = "checkout" =>
        \/ SameCheckout(request'[p], request[p])
        \/ /\ intent'[request'[p].intent].state # "none"
           /\ request'[p].amount = intent'[request'[p].intent].amount
  BY DEF SameCheckout, Inv, TypeOK
<1> QED BY <1>1, <1>2, <1>3, Keep

LEMMA Unkept == ASSUME TypeOK, UNCHANGED intent PROVE IntentKept
BY DEF IntentKept

LEMMA BeginCheckoutKeeps ==
  ASSUME Inv, NEW r \in Requests, NEW i \in Intents, BeginCheckout(r, i)
  PROVE  Inv'
<1> DEFINE due == Total - Paid
           q == [Idle EXCEPT !.pc = "loaded", !.kind = "checkout", !.intent = i,
                             !.amount = due, !.seen = status, !.known = row[i]]
           made == [state |-> "made", amount |-> due, refunded |-> 0]
<1>0. TypeOK
  BY DEF Inv
<1>1. due \in 1..Total /\ SessionFor(i, due)
  BY DEF BeginCheckout
<1>2. due \in Nat
  BY <1>1, InvoiceAssumption
<1>3. /\ request' = [request EXCEPT ![r] = q]
      /\ UNCHANGED <<row, manual, event, raced, strayed, status>>
      /\ intent' = IF intent[i].state = "none" THEN [intent EXCEPT ![i] = made] ELSE intent
  BY DEF BeginCheckout, Enter
<1> HIDE DEF due
<1>4. q \in RequestType /\ q.intent = i /\ q.amount = due /\ made \in IntentType
  BY <1>0, <1>2, PieceTypes DEF RequestType, IntentType, TypeOK, Idle
<1>5. CASE intent[i].state = "none"
  <2>1. intent' = [intent EXCEPT ![i] = made]
    BY <1>3, <1>5
  <2>2. /\ intent' \in [Intents -> IntentType] /\ intent'[i] = made
        /\ \A j \in Intents \ {i} : intent'[j] = intent[j]
    BY <2>1, <1>0, <1>4 DEF TypeOK
  <2>3. IntentKept /\ IntentInv'
    BY <2>2, <1>2, <1>5 DEF IntentKept, IntentInv, Inv
  <2>4. intent'[q.intent].state # "none" /\ q.amount = intent'[q.intent].amount
    BY <2>2, <1>4
  <2> HIDE DEF q, made
  <2> QED BY <2>2, <2>3, <2>4, <1>3, <1>4, RequestStep
<1>6. CASE intent[i].state # "none"
  <2>1. UNCHANGED intent /\ intent[i].amount = due
    BY <1>1, <1>3, <1>6 DEF SessionFor
  <2>2. intent' \in [Intents -> IntentType] /\ IntentKept /\ IntentInv'
    BY <2>1, <1>0, Unkept DEF TypeOK, Inv, IntentInv
  <2>3. intent'[q.intent].state # "none" /\ q.amount = intent'[q.intent].amount
    BY <2>1, <1>4, <1>6
  <2> HIDE DEF q
  <2> QED BY <2>2, <2>3, <1>3, <1>4, RequestStep
<1> QED BY <1>5, <1>6

(* A step of request r that touches neither rows nor Stripe.                *)
LEMMA PlainRequestStep ==
  ASSUME Inv, NEW r \in Requests, NEW q \in RequestType,
         request' = [request EXCEPT ![r] = q],
         UNCHANGED <<row, manual, event, raced, strayed, status, intent>>,
         q.pc # "idle" /\ q.kind = "checkout" => SameCheckout(q, request[r])
  PROVE  Inv'
<1>1. TypeOK /\ IntentKept /\ IntentInv' /\ intent' \in [Intents -> IntentType]
  BY Unkept DEF Inv, TypeOK, IntentInv
<1>2. q.pc # "idle" /\ q.kind = "checkout" =>
        intent'[q.intent].state # "none" /\ q.amount = intent'[q.intent].amount
  BY DEF Inv, RequestInv, SameCheckout
<1> QED BY <1>1, <1>2, RequestStep

LEMMA BeginSendKeeps ==
  ASSUME Inv, NEW r \in Requests, BeginSend(r)
  PROVE  Inv'
<1> DEFINE q == [Idle EXCEPT !.pc = "written", !.kind = "send", !.new = "SENT"]
<1>1. q \in RequestType /\ q.kind = "send"
  BY PieceTypes DEF RequestType, Statuses, Idle
<1>2. request' = [request EXCEPT ![r] = q]
  BY DEF BeginSend, Enter
<1>3. UNCHANGED <<row, manual, event, raced, strayed, status, intent>>
  BY DEF BeginSend, Enter
<1> HIDE DEF q
<1> QED BY <1>1, <1>2, <1>3, PlainRequestStep

LEMMA BeginManualKeeps ==
  ASSUME Inv, NEW r \in Requests, NEW m \in ManualAmounts, BeginManual(r, m)
  PROVE  Inv'
<1> DEFINE q == [Idle EXCEPT !.pc = "loaded", !.kind = "manual", !.amount = m, !.seen = status]
<1>1. status \in Statuses /\ m \in Nat
  BY InvoiceAssumption DEF Inv, TypeOK
<1>2. q \in RequestType /\ q.kind = "manual"
  BY <1>1, PieceTypes DEF RequestType, Idle
<1>3. request' = [request EXCEPT ![r] = q]
  BY DEF BeginManual, Enter
<1>4. UNCHANGED <<row, manual, event, raced, strayed, status, intent>>
  BY DEF BeginManual, Enter
<1> HIDE DEF q
<1> QED BY <1>2, <1>3, <1>4, PlainRequestStep

LEMMA SaveKeeps ==
  ASSUME Inv, NEW r \in Requests, NEW s \in Slots, NEW paid, request[r].pc = "loaded",
         SaveRequest(r, s, paid)
  PROVE  Inv'
<1> DEFINE q == [request[r] EXCEPT !.pc = "written", !.slot = s,
                                   !.new = Derived(paid, request[r].seen), !.fresh = TRUE]
<1>1. request[r] \in RequestType /\ Derived(paid, request[r].seen) \in Statuses
  BY DerivedType DEF Inv, TypeOK, RequestType
<1>2. q \in RequestType /\ (q.kind = "checkout" => SameCheckout(q, request[r]))
  BY <1>1 DEF RequestType, SameCheckout
<1>3. request' = [request EXCEPT ![r] = q]
  BY DEF SaveRequest
<1>4. UNCHANGED <<row, manual, event, raced, strayed, status, intent>>
  BY DEF SaveRequest
<1> HIDE DEF q
<1> QED BY <1>2, <1>3, <1>4, PlainRequestStep

LEMMA NewSlotsTyped == ASSUME NEW i PROVE NewSlots(i) \subseteq {s \in Slots : row[i][s].status = "none"}
BY DEF NewSlots, Free

LEMMA WriteKeeps ==
  ASSUME Inv, NEW r \in Requests, WriteCheckout(r) \/ WriteManual(r)
  PROVE  Inv'
<1>1. CASE WriteCheckout(r)
  <2>1. PICK s \in IF WithSession(request[r].intent) = {} THEN NewSlots(request[r].intent)
                   ELSE WithSession(request[r].intent) :
          SaveRequest(r, s, PaidBy(WithPending(row, request[r], s), manual))
    BY <1>1 DEF WriteCheckout
  <2>2. s \in Slots /\ request[r].pc = "loaded"
    BY <1>1, NewSlotsTyped DEF WithSession, WriteCheckout
  <2> QED BY <2>1, <2>2, SaveKeeps
<1>2. CASE WriteManual(r)
  BY <1>2, SaveKeeps, InvoiceAssumption DEF WriteManual
<1> QED BY <1>1, <1>2

LEMMA AbortKeeps ==
  ASSUME Inv, NEW r \in Requests, Abort(r)
  PROVE  Inv'
<1>1. UNCHANGED <<row, manual, event, raced, strayed, status, intent>>
  BY DEF Abort
<1>2. Idle \in RequestType /\ Idle.pc = "idle" /\ request' = [request EXCEPT ![r] = Idle]
  BY PieceTypes DEF Abort, Idle
<1> QED BY <1>1, <1>2, PlainRequestStep

(* Every other request keeps what it asks for when r commits.               *)
LEMMA OutdatedButOne ==
  ASSUME TypeOK, NEW r \in Requests, Outdate(r)
  PROVE  /\ request' \in [Requests -> RequestType]
         /\ \A p \in Requests :
              /\ request'[p].pc # "idle" /\ request'[p].kind = "checkout" =>
                   SameCheckout(request'[p], request[p])
              /\ request'[p].pc = "written" => request'[p].fresh = FALSE
<1>1. \A o \in Requests : request[o] \in RequestType
                          /\ request'[o] = IF o = r THEN Idle ELSE Outdated(request[o])
  BY DEF TypeOK, Outdate
<1>2. request' \in [Requests -> RequestType]
  <2>1. \A o \in Requests : request'[o] \in RequestType
    BY <1>1, OutdatedType, PieceTypes
  <2> QED BY <2>1 DEF Outdate
<1>3. Idle.pc = "idle"
  BY DEF Idle
<1>4. \A p \in Requests :
        /\ request'[p].pc # "idle" /\ request'[p].kind = "checkout" =>
             SameCheckout(request'[p], request[p])
        /\ request'[p].pc = "written" => request'[p].fresh = FALSE
  <2> TAKE p \in Requests
  <2>1. CASE p = r
    BY <1>1, <1>3, <2>1
  <2>2. CASE p # r
    <3>1. request'[p] = Outdated(request[p]) /\ request[p] \in RequestType
      BY <1>1, <2>2
    <3> QED BY <3>1, OutdatedType DEF SameCheckout
  <2> QED BY <2>1, <2>2
<1> QED BY <1>2, <1>4

(* A step that writes one payment row.                                      *)
LEMMA RowStep ==
  ASSUME Inv, NEW i \in Intents, NEW s \in Slots, NEW w \in RowType,
         row' = [row EXCEPT ![i][s] = w],
         RowOK(w, intent[i]),
         w.ref => \A t \in Slots \ {s} : ~row[i][t].ref
  PROVE  /\ row' \in [Intents -> [Slots -> RowType]] /\ RefInv'
         /\ \A j \in Intents, t \in Slots :
              row'[j][t] = row[j][t] \/ RowOK(row'[j][t], intent[j])
<1>1. row \in [Intents -> [Slots -> RowType]]
  BY DEF Inv, TypeOK
<1>2. /\ row' \in [Intents -> [Slots -> RowType]] /\ row'[i][s] = w
      /\ \A j \in Intents, t \in Slots : j # i \/ t # s => row'[j][t] = row[j][t]
  BY <1>1
<1>3. RefInv'
  BY <1>2 DEF RefInv, Inv
<1> QED BY <1>2, <1>3

LEMMA CommitKeeps ==
  ASSUME Inv, NEW r \in Requests, Commit(r)
  PROVE  Inv'
<1> DEFINE q == request[r]
           w == Pending(row, q, q.slot)
<1>0. TypeOK /\ q \in RequestType
  BY DEF Inv, TypeOK
<1>1. /\ row' = IF q.kind = "checkout" THEN WithPending(row, q, q.slot) ELSE row
      /\ manual' = IF q.kind = "manual" THEN manual + q.amount ELSE manual
      /\ status' = IF q.new # q.seen THEN q.new ELSE status
      /\ raced' = (raced \/ ~q.fresh \/ (q.new = q.seen /\ status # q.seen))
      /\ strayed' = IF Overwrites(q) THEN strayed \cup {q.intent} ELSE strayed
      /\ intent' = IF q.kind = "checkout" /\ intent[q.intent].state = "made"
                   THEN [intent EXCEPT ![q.intent].state = "open"] ELSE intent
      /\ event' = event /\ Outdate(r) /\ q.pc = "written"
  BY DEF Commit, Written
<1>2. /\ request' \in [Requests -> RequestType]
      /\ \A p \in Requests : request'[p].pc # "idle" /\ request'[p].kind = "checkout" =>
           SameCheckout(request'[p], request[p])
  BY <1>0, <1>1, OutdatedButOne
<1>3. q.intent \in Intents /\ q.slot \in Slots /\ q.amount \in Nat /\ q.new \in Statuses
  BY <1>0 DEF RequestType
<1>4. intent' \in [Intents -> IntentType] /\ IntentKept /\ IntentInv'
  BY <1>0, <1>1, <1>3 DEF TypeOK, Inv, IntentInv, IntentKept, IntentType
<1>5. /\ row' \in [Intents -> [Slots -> RowType]] /\ RefInv'
      /\ \A i \in Intents, s \in Slots : row'[i][s] = row[i][s] \/ RowOK(row'[i][s], intent[i])
  <2>1. CASE q.kind # "checkout"
    BY <2>1, <1>0, <1>1 DEF TypeOK, Inv, RefInv
  <2>2. CASE q.kind = "checkout"
    <3>1. row' = [row EXCEPT ![q.intent][q.slot] = w]
      BY <2>2, <1>1 DEF WithPending
    <3>2. /\ w \in RowType /\ w.ref = row[q.intent][q.slot].ref
          /\ w.status \in {"PENDING", row[q.intent][q.slot].status}
          /\ w.amount \in {q.amount, row[q.intent][q.slot].amount}
          /\ row[q.intent][q.slot].status # "none" => w.status # "none"
      BY <1>0, <1>3, PendingType
    <3>3. q.amount = intent[q.intent].amount
      BY <2>2, <1>1 DEF Inv, RequestInv
    <3>4. RowOK(row[q.intent][q.slot], intent[q.intent])
      BY <1>3 DEF Inv, RowInv
    <3>5. w.ref => \A t \in Slots \ {q.slot} : ~row[q.intent][t].ref
      BY <3>2, <1>3 DEF Inv, RefInv
    <3> HIDE DEF w
    <3>6. RowOK(w, intent[q.intent])
      BY <3>2, <3>3, <3>4, <1>3 DEF RowOK
    <3> QED BY <3>1, <3>2, <3>5, <3>6, <1>3, RowStep
  <2> QED BY <2>1, <2>2
<1>6. \A i \in Intents, s \in Slots : row'[i][s] = row[i][s] \/ RowOK(row'[i][s], intent'[i])
  BY <1>4, <1>5 DEF RowOK, IntentKept
<1>7. status' \in Statuses /\ manual' \in Nat /\ raced' \in BOOLEAN /\ strayed' \subseteq Intents
  BY <1>0, <1>1, <1>3 DEF TypeOK, RequestType
<1>8. TypeOK'
  BY <1>0, <1>1, <1>2, <1>4, <1>5, <1>7 DEF TypeOK
<1> QED BY <1>1, <1>2, <1>4, <1>5, <1>6, <1>8, Keep

-----------------------------------------------------------------------------
(* Webhooks, the admin and Stripe.                                          *)

LEMMA RecordKeeps ==
  ASSUME Inv, NEW e \in event, NEW st \in {"SUCCEEDED", "FAILED"}, Took(e), Record(e, st),
         st = "SUCCEEDED" => e.kind # "failed"
  PROVE  Inv'
<1> DEFINE i == e.intent
<1>0. TypeOK /\ i \in Intents /\ e \in EventType
  BY DEF Inv, TypeOK, EventType
<1>1. /\ event' = event \ {e} /\ UNCHANGED <<manual, intent>>
      /\ status' = Derived(PaidBy(row', manual), status) /\ raced' = FALSE
      /\ request' = [p \in Requests |-> Outdated(request[p])]
      /\ strayed' = IF Overtakes(e) THEN strayed \cup {i} ELSE strayed
  BY DEF Took, Record, Refreshed, Stray
<1>2. PICK s \in IF Matches(e) = {} THEN NewSlots(i) ELSE Matches(e) :
        row' = [row EXCEPT ![i][s] =
          [status |-> st, amount |-> intent[i].amount, ref |-> TRUE,
           session |-> row[i][s].session \/ e.kind = "completed"]]
  BY DEF Record
<1> DEFINE w == [status |-> st, amount |-> intent[i].amount, ref |-> TRUE,
                 session |-> row[i][s].session \/ e.kind = "completed"]
<1>3. s \in Slots
  BY <1>2, NewSlotsTyped DEF Matches, WithRef, WithSession
<1>4. \A t \in Slots \ {s} : ~row[i][t].ref
  <2>1. CASE WithRef(i) = {}
    BY <2>1 DEF WithRef
  <2>2. CASE WithRef(i) # {}
    <3>1. s \in WithRef(i)
      BY <2>2, <1>2 DEF Matches
    <3> QED BY <3>1, <1>0, <1>3 DEF WithRef, Inv, RefInv
  <2> QED BY <2>1, <2>2
<1>5. intent[i] \in IntentType /\ row[i][s].session \in BOOLEAN
  BY <1>0, <1>3 DEF TypeOK, RowType
<1>6. w \in RowType
  BY <1>5 DEF RowType, RowStatuses, IntentType
<1>7. st = "SUCCEEDED" => intent[i].state = "paid"
  BY DEF Inv, EventInv
<1>8. RowOK(w, intent[i])
  BY <1>5, <1>7 DEF RowOK, IntentType
<1>9. /\ row' \in [Intents -> [Slots -> RowType]] /\ RefInv'
      /\ \A j \in Intents, t \in Slots : row'[j][t] = row[j][t] \/ RowOK(row'[j][t], intent[j])
  <2>1. row' = [row EXCEPT ![i][s] = w]
    BY <1>2
  <2> HIDE DEF w, i
  <2> QED BY <2>1, <1>0, <1>3, <1>4, <1>6, <1>8, RowStep
<1>10. status' \in Statuses /\ strayed' \subseteq Intents
  BY <1>0, <1>1, DerivedType DEF TypeOK
<1>11. TypeOK'
  BY <1>0, <1>1, <1>9, <1>10, AllOutdated DEF TypeOK
<1>12. IntentKept /\ IntentInv'
  BY <1>0, <1>1, Unkept DEF Inv, IntentInv
<1> QED BY <1>0, <1>1, <1>9, <1>11, <1>12, AllOutdated, Keep

LEMMA PaymentEventKeeps ==
  ASSUME Inv, NEW e \in event, PaymentEvent(e)
  PROVE  Inv'
<1>1. CASE Record(e, "SUCCEEDED") /\ e.kind \in {"completed", "succeeded"}
  BY <1>1, RecordKeeps DEF PaymentEvent
<1>2. CASE Record(e, "FAILED")
  BY <1>2, RecordKeeps DEF PaymentEvent
<1> QED BY <1>1, <1>2 DEF PaymentEvent

LEMMA RefundedKeeps ==
  ASSUME Inv, NEW e \in event, Refunded(e)
  PROVE  Inv'
<1> DEFINE i == e.intent
           n == intent[i]
           new(s) == [row[i][s] EXCEPT !.amount = Net(n.amount, @, e.refunded),
                                       !.status = IF e.refunded >= n.amount THEN "FAILED" ELSE @]
<1>0. TypeOK /\ i \in Intents /\ e \in EventType
  BY DEF Inv, TypeOK, EventType
<1>1. /\ event' = event \ {e} /\ UNCHANGED <<manual, intent>>
      /\ status' = Derived(PaidBy(row', manual), status) /\ raced' = FALSE
      /\ request' = [p \in Requests |-> Outdated(request[p])]
      /\ strayed' = IF Overtakes(e) THEN strayed \cup {i} ELSE strayed
      /\ row' = [row EXCEPT ![i] = [s \in Slots |->
                   IF ~row[i][s].ref THEN row[i][s] ELSE new(s)]]
  BY DEF Refunded, Took, Refreshed, Stray
<1>2. n \in IntentType /\ e.refunded \in Nat /\ e.refunded <= n.amount
  BY <1>0 DEF TypeOK, EventType, Inv, EventInv
<1>3. \A s \in Slots : row[i][s] \in RowType /\ RowOK(row[i][s], n)
  BY <1>0 DEF TypeOK, Inv, RowInv
<1>4. \A s \in Slots : /\ new(s) \in RowType /\ RowOK(new(s), n)
                       /\ new(s).ref = row[i][s].ref
  <2> TAKE s \in Slots
  <2>1. n.amount \in Nat
    BY <1>2 DEF IntentType
  <2>2. n.amount - e.refunded \in Nat /\ n.amount - e.refunded <= n.amount
    BY <1>2, <2>1
  <2>3. /\ new(s).amount = n.amount - e.refunded /\ new(s).ref = row[i][s].ref
        /\ new(s).status \in {"FAILED", row[i][s].status} /\ new(s) \in RowType
    BY <1>3, <2>2 DEF Net, RowType, RowStatuses
  <2>4. RowOK(row[i][s], n)
    BY <1>3
  <2> QED BY <2>2, <2>3, <2>4 DEF RowOK
<1> HIDE DEF new
<1>5. /\ row' \in [Intents -> [Slots -> RowType]]
      /\ \A j \in Intents, t \in Slots :
           /\ row'[j][t] = row[j][t] \/ (j = i /\ row'[j][t] = new(t))
           /\ row'[j][t].ref = row[j][t].ref
  BY <1>0, <1>1, <1>3, <1>4 DEF TypeOK
<1>6. RefInv'
  BY <1>5 DEF RefInv, Inv
<1>7. \A j \in Intents, t \in Slots : row'[j][t] = row[j][t] \/ RowOK(row'[j][t], intent'[j])
  BY <1>1, <1>4, <1>5
<1>8. status' \in Statuses /\ strayed' \subseteq Intents
  BY <1>0, <1>1, DerivedType DEF TypeOK
<1>9. TypeOK'
  BY <1>0, <1>1, <1>5, <1>8, AllOutdated DEF TypeOK
<1>10. IntentKept /\ IntentInv'
  BY <1>0, <1>1, Unkept DEF Inv, IntentInv
<1> QED BY <1>0, <1>1, <1>6, <1>7, <1>9, <1>10, AllOutdated, Keep

(* The rows and Stripe are left alone.                                      *)
LEMMA QuietKeeps ==
  ASSUME Inv, (\E e \in event : RefundIgnored(e)) \/ Finalized \/ Reconcile
  PROVE  Inv'
<1>0. TypeOK /\ \A e \in event : e.intent \in Intents
  BY DEF Inv, TypeOK, EventType
<1>1. UNCHANGED <<row, manual, intent>> /\ event' \subseteq event
  BY DEF RefundIgnored, Took, Finalized, Reconcile
<1>2. /\ status' \in Statuses /\ raced' \in BOOLEAN /\ strayed' \subseteq Intents
  BY <1>0, DerivedType DEF RefundIgnored, Took, Finalized, Reconcile, TypeOK, Stray, Statuses
<1>3. request' = request \/ request' = [p \in Requests |-> Outdated(request[p])]
  BY DEF RefundIgnored, Took, Finalized, Reconcile
<1>4. /\ request' \in [Requests -> RequestType]
      /\ \A p \in Requests : request'[p].pc # "idle" /\ request'[p].kind = "checkout" =>
           SameCheckout(request'[p], request[p])
  BY <1>0, <1>3, AllOutdated DEF TypeOK, SameCheckout
<1>5. TypeOK'
  BY <1>0, <1>1, <1>2, <1>4 DEF TypeOK
<1>6. IntentKept /\ IntentInv' /\ RefInv'
  BY <1>0, <1>1, Unkept DEF Inv, IntentInv, RefInv
<1> QED BY <1>1, <1>4, <1>5, <1>6, Keep

LEMMA DeclineKeeps ==
  ASSUME Inv, NEW i \in Intents, Decline(i)
  PROVE  Inv'
<1> DEFINE d == Event("failed", i, 0, FALSE)
<1>0. TypeOK
  BY DEF Inv
<1>1. /\ intent[i].state = "open" /\ intent' = [intent EXCEPT ![i].state = "retry"]
      /\ event' = event \cup {d}
      /\ UNCHANGED <<status, row, manual, request, raced, strayed>>
  BY DEF Decline
<1>2. d \in EventType /\ d.intent = i /\ d.refunded = 0 /\ d.kind = "failed"
  BY DEF Event, EventType
<1> HIDE DEF d
<1>3. intent' \in [Intents -> IntentType] /\ IntentKept /\ IntentInv'
  BY <1>0, <1>1 DEF TypeOK, IntentType, IntentKept, IntentInv, Inv
<1>4. TypeOK'
  BY <1>0, <1>1, <1>2, <1>3 DEF TypeOK
<1>5. RefInv'
  BY <1>1 DEF Inv, RefInv
<1>6. intent'[i].state # "none" /\ 0 <= intent'[i].amount
  BY <1>0, <1>1, <1>3 DEF TypeOK, IntentType
<1>7. \A p \in Requests : request'[p].pc # "idle" /\ request'[p].kind = "checkout" =>
        SameCheckout(request'[p], request[p])
  BY <1>1 DEF SameCheckout
<1> QED BY <1>1, <1>2, <1>3, <1>4, <1>5, <1>6, <1>7, Keep

LEMMA PayKeeps ==
  ASSUME Inv, NEW i \in Intents, Pay(i)
  PROVE  Inv'
<1> DEFINE D == {Event(k, i, 0, FALSE) : k \in {"completed", "succeeded"}}
<1>0. TypeOK
  BY DEF Inv
<1>1. /\ intent[i].state \in {"open", "retry"} /\ intent' = [intent EXCEPT ![i].state = "paid"]
      /\ event' = event \cup D
      /\ UNCHANGED <<status, row, manual, request, raced, strayed>>
  BY DEF Pay
<1>2. D \subseteq EventType /\ \A d \in D : d.intent = i /\ d.refunded = 0
  <2>1. \A k \in {"completed", "succeeded"} :
          LET d == Event(k, i, 0, FALSE)
          IN  d \in EventType /\ d.intent = i /\ d.refunded = 0
    BY DEF Event, EventType
  <2> QED BY <2>1
<1> HIDE DEF D
<1>3. intent' \in [Intents -> IntentType] /\ IntentKept /\ IntentInv'
  BY <1>0, <1>1 DEF TypeOK, IntentType, IntentKept, IntentInv, Inv
<1>4. TypeOK'
  BY <1>0, <1>1, <1>2, <1>3 DEF TypeOK
<1>5. RefInv'
  BY <1>1 DEF Inv, RefInv
<1>6. intent'[i].state = "paid" /\ 0 <= intent'[i].amount
  BY <1>0, <1>1, <1>3 DEF TypeOK, IntentType
<1>7. \A p \in Requests : request'[p].pc # "idle" /\ request'[p].kind = "checkout" =>
        SameCheckout(request'[p], request[p])
  BY <1>1 DEF SameCheckout
<1>8. \A d \in D : /\ intent'[d.intent].state # "none" /\ d.refunded <= intent'[d.intent].amount
                   /\ d.kind # "failed" => intent'[d.intent].state = "paid"
  BY <1>2, <1>6
<1> QED BY <1>1, <1>3, <1>4, <1>5, <1>7, <1>8, Keep

LEMMA RefundKeeps ==
  ASSUME Inv, NEW i \in Intents, NEW a \in 1..Total, NEW named \in ChargeNames,
         Refund(i, a, named)
  PROVE  Inv'
<1> DEFINE total == intent[i].refunded + a
           d == Event("refunded", i, total, named)
<1>0. TypeOK /\ intent[i] \in IntentType /\ a \in Nat /\ named \in BOOLEAN
  BY InvoiceAssumption DEF Inv, TypeOK
<1>1. /\ intent[i].state = "paid" /\ total <= intent[i].amount
      /\ intent' = [intent EXCEPT ![i].refunded = total] /\ event' = event \cup {d}
      /\ UNCHANGED <<status, row, manual, request, raced, strayed>>
  BY DEF Refund
<1>2. total \in Nat
  BY <1>0 DEF IntentType
<1> HIDE DEF total
<1>3. d \in EventType /\ d.intent = i /\ d.refunded = total
  BY <1>0, <1>2 DEF Event, EventType
<1> HIDE DEF d
<1>4. /\ intent' \in [Intents -> IntentType]
      /\ intent'[i] = [intent[i] EXCEPT !.refunded = total]
      /\ \A j \in Intents \ {i} : intent'[j] = intent[j]
  BY <1>0, <1>1, <1>2 DEF TypeOK, IntentType
<1>5. /\ intent'[i].state = "paid" /\ intent'[i].amount = intent[i].amount
      /\ intent'[i].refunded = total
  BY <1>0, <1>1, <1>4 DEF IntentType
<1>6. IntentKept /\ IntentInv'
  BY <1>1, <1>4, <1>5 DEF IntentKept, IntentInv, Inv
<1>7. TypeOK'
  BY <1>0, <1>1, <1>3, <1>4 DEF TypeOK
<1>8. RefInv'
  BY <1>1 DEF Inv, RefInv
<1>9. \A p \in Requests : request'[p].pc # "idle" /\ request'[p].kind = "checkout" =>
        SameCheckout(request'[p], request[p])
  BY <1>1 DEF SameCheckout
<1>10. /\ intent'[d.intent].state # "none" /\ d.refunded <= intent'[d.intent].amount
       /\ d.kind # "failed" => intent'[d.intent].state = "paid"
  BY <1>1, <1>3, <1>5
<1>11. \A e \in event' : e \in event \/ e = d
  BY <1>1
<1>12. \A e \in event' : e \in event \/
         /\ intent'[e.intent].state # "none" /\ e.refunded <= intent'[e.intent].amount
         /\ e.kind # "failed" => intent'[e.intent].state = "paid"
  BY <1>10, <1>11
<1>13. \A j \in Intents, t \in Slots : row'[j][t] = row[j][t]
  BY <1>1
<1> QED BY <1>6, <1>7, <1>8, <1>9, <1>12, <1>13, Keep

-----------------------------------------------------------------------------
(* The invariant.                                                           *)

LEMMA InitInv == Init => Inv
<1> SUFFICES ASSUME Init PROVE Inv
  OBVIOUS
<1>1. TypeOK
  BY PieceTypes DEF Init, TypeOK, Statuses, IntentType
<1>2. RowInv /\ RefInv
  BY DEF Init, RowInv, RowOK, RefInv, NoRows, NoRow
<1>3. EventInv /\ RequestInv /\ IntentInv
  BY DEF Init, EventInv, RequestInv, IntentInv, Idle
<1> QED BY <1>1, <1>2, <1>3 DEF Inv

LEMMA NextInv == Inv /\ [Next]_vars => Inv'
<1> SUFFICES ASSUME Inv, [Next]_vars PROVE Inv'
  OBVIOUS
<1>1. ASSUME NEW r \in Requests, Unlocked(r) PROVE Inv'
  <2>1. ASSUME NEW i \in Intents, BeginCheckout(r, i) PROVE Inv'
    BY <2>1, BeginCheckoutKeeps
  <2>2. ASSUME NEW m \in ManualAmounts, BeginManual(r, m) PROVE Inv'
    BY <2>2, BeginManualKeeps
  <2>3. CASE BeginSend(r)
    BY <2>3, BeginSendKeeps
  <2>4. CASE WriteCheckout(r) \/ WriteManual(r)
    BY <2>4, WriteKeeps
  <2>5. CASE Commit(r)
    BY <2>5, CommitKeeps
  <2>6. CASE Abort(r)
    BY <2>6, AbortKeeps
  <2> QED BY <1>1, <2>1, <2>2, <2>3, <2>4, <2>5, <2>6 DEF Unlocked
<1>2. CASE Webhook
  <2>1. ASSUME NEW e \in event, PaymentEvent(e) PROVE Inv'
    BY <2>1, PaymentEventKeeps
  <2>2. ASSUME NEW e \in event, Refunded(e) PROVE Inv'
    BY <2>2, RefundedKeeps
  <2>3. ASSUME NEW e \in event, RefundIgnored(e) PROVE Inv'
    BY <2>3, QuietKeeps
  <2> QED BY <1>2, <2>1, <2>2, <2>3 DEF Webhook
<1>3. CASE Finalized \/ Reconcile
  BY <1>3, QuietKeeps
<1>4. ASSUME NEW i \in Intents, Stripe(i) PROVE Inv'
  BY <1>4, DeclineKeeps, PayKeeps, RefundKeeps DEF Stripe
<1>5. CASE UNCHANGED vars
  <2>1. TypeOK'
    BY <1>5 DEF vars, Inv, TypeOK
  <2>2. RowInv' /\ RefInv'
    BY <1>5 DEF vars, Inv, RowInv, RefInv
  <2>3. EventInv' /\ RequestInv' /\ IntentInv'
    BY <1>5 DEF vars, Inv, EventInv, RequestInv, IntentInv
  <2> QED BY <2>1, <2>2, <2>3 DEF Inv
<1> QED BY <1>1, <1>2, <1>3, <1>4, <1>5 DEF Next

LEMMA AlwaysInv == Spec => []Inv
BY InitInv, NextInv, PTL DEF Spec

(* Rows, events and requests keep their types: no refund makes an amount    *)
(* negative.                                                                *)
THEOREM TypeCorrect == Spec => []TypeOK
<1>1. Inv => TypeOK
  BY DEF Inv
<1> QED BY <1>1, AlwaysInv, PTL

(* A captured payment counts at most once and with at most its amount.      *)
THEOREM NothingCountedTwice == Spec => []CountedOnce
<1>1. Inv => CountedOnce
  BY DEF Inv, CountedOnce, RowInv, RowOK, RefInv
<1> QED BY <1>1, AlwaysInv, PTL

-----------------------------------------------------------------------------
(* Sums over finite sets.                                                   *)

First(S) == CHOOSE x \in S : TRUE

(* f gives the sum of v over every subset of S. *)
Sums(f, v, S) ==
  f = [s \in SUBSET S |-> IF s = {} THEN 0 ELSE v[First(s)] + f[s \ {First(s)}]]

SumFun(v, S) == CHOOSE f : Sums(f, v, S)
SumOf(v, S) == SumFun(v, S)[S]

LEMMA FirstIn == ASSUME NEW S, S # {} PROVE First(S) \in S
BY DEF First

(* Induction over the subsets of a finite set: a property that fails for some *)
(* subset fails for a smallest one.                                           *)
LEMMA SmallestSubset ==
  ASSUME NEW S, IsFiniteSet(S), NEW T, T \subseteq SUBSET S, T # {}
  PROVE  \E t \in T : \A s \in T : s \subseteq t => s = t
<1>1. IsWellFoundedOn(StrictSubsetOrdering(S), SUBSET S)
  BY FS_StrictSubsetOrderingWellFounded, FS_FiniteSubsetsOfFinite
<1>2. PICK t \in T : \A s \in T : <<s, t>> \notin StrictSubsetOrdering(S)
  BY <1>1, WFMin
<1> QED
  BY <1>2 DEF StrictSubsetOrdering

LEMMA SumsAgree ==
  ASSUME NEW S, IsFiniteSet(S), NEW v, NEW w, NEW a \in SUBSET S, NEW b \in SUBSET S, NEW f, NEW g,
         Sums(f, v, a), Sums(g, w, b), NEW u, u \subseteq a, u \subseteq b, \A x \in u : v[x] = w[x]
  PROVE  f[u] = g[u]
<1> DEFINE Bad == {s \in SUBSET u : f[s] # g[s]}
<1>1. SUFFICES ASSUME Bad # {} PROVE FALSE
  OBVIOUS
<1>2. PICK t \in Bad : \A s \in Bad : s \subseteq t => s = t
  <2>1. Bad \subseteq SUBSET S
    OBVIOUS
  <2> HIDE DEF Bad
  <2> QED
    BY <1>1, <2>1, SmallestSubset
<1>3. t \subseteq u /\ f[t] # g[t]
  BY <1>2
<1>4. t # {}
  BY <1>3 DEF Sums
<1>5. First(t) \in t
  BY <1>4, FirstIn
<1>6. f[t \ {First(t)}] = g[t \ {First(t)}]
  BY <1>2, <1>3, <1>5
<1>7. f[t] = v[First(t)] + f[t \ {First(t)}]
  BY <1>3, <1>4 DEF Sums
<1>8. g[t] = w[First(t)] + g[t \ {First(t)}]
  BY <1>3, <1>4 DEF Sums
<1> QED
  BY <1>3, <1>5, <1>6, <1>7, <1>8

(* There is such a function. *)
LEMMA SumsExist ==
  ASSUME NEW S, IsFiniteSet(S), NEW v
  PROVE  Sums(SumFun(v, S), v, S)
<1> DEFINE Bad == {t \in SUBSET S : ~ \E f : Sums(f, v, t)}
<1>1. SUFFICES ASSUME Bad # {} PROVE FALSE
  BY DEF SumFun
<1>2. PICK t \in Bad : \A s \in Bad : s \subseteq t => s = t
  <2>1. Bad \subseteq SUBSET S
    OBVIOUS
  <2> HIDE DEF Bad
  <2> QED
    BY <1>1, <2>1, SmallestSubset
<1>3. \A s : s \subseteq t /\ s # t => Sums(SumFun(v, s), v, s)
  BY <1>2 DEF SumFun
<1> DEFINE h == [s \in SUBSET t |-> IF s = {} THEN 0
                   ELSE v[First(s)] + SumOf(v, s \ {First(s)})]
<1>4. ASSUME NEW s, s \subseteq t, s # t PROVE h[s] = SumOf(v, s)
  <2>1. CASE s = {}
    <3>1. Sums(SumFun(v, s), v, s)
      BY <1>3, <1>4
    <3> QED
      BY <2>1, <3>1 DEF SumOf, Sums
  <2>2. CASE s # {}
    <3> DEFINE r == s \ {First(s)}
    <3>1. First(s) \in s
      BY <2>2, FirstIn
    <3>2. r \subseteq t /\ r # t /\ r \subseteq s
      BY <1>4
    <3>3. Sums(SumFun(v, s), v, s) /\ Sums(SumFun(v, r), v, r)
      BY <1>3, <1>4, <3>2
    <3>4. SumFun(v, s)[s] = v[First(s)] + SumFun(v, s)[r]
      BY <2>2, <3>3 DEF Sums
    <3>5. SumFun(v, s)[r] = SumFun(v, r)[r]
      <4>1. s \in SUBSET S /\ r \in SUBSET S /\ r \subseteq r
        BY <1>2, <1>4
      <4> QED
        BY <3>2, <3>3, <4>1, SumsAgree
    <3>6. h[s] = v[First(s)] + SumOf(v, r)
      BY <1>4, <2>2
    <3> QED
      BY <3>4, <3>5, <3>6 DEF SumOf
  <2> QED
    BY <2>1, <2>2
<1>5. Sums(h, v, t)
  <2>1. ASSUME NEW s \in SUBSET t, s # {}
        PROVE  SumOf(v, s \ {First(s)}) = h[s \ {First(s)}]
    BY <1>4, <2>1, FirstIn
  <2>2. h = [s \in SUBSET t |-> IF s = {} THEN 0 ELSE v[First(s)] + h[s \ {First(s)}]]
    <3>1. \A s \in SUBSET t : h[s] = IF s = {} THEN 0 ELSE v[First(s)] + h[s \ {First(s)}]
      BY <2>1
    <3> QED
      BY <3>1
  <2> HIDE DEF h
  <2> QED
    BY <2>2 DEF Sums
<1> QED
  BY <1>2, <1>5


(* A sum of which one summand x is not 0.                                   *)
LEMMA SumOne ==
  ASSUME NEW S, IsFiniteSet(S), NEW v, NEW x, x \in S => v[x] \in Int,
         \A y \in S \ {x} : v[y] = 0
  PROVE  SumOf(v, S) = IF x \in S THEN v[x] ELSE 0
<1> DEFINE f == SumFun(v, S)
           one(t) == IF x \in t THEN v[x] ELSE 0
           Bad == {t \in SUBSET S : f[t] # one(t)}
<1>1. SUFFICES ASSUME Bad # {} PROVE FALSE
  BY DEF SumOf
<1>2. PICK t \in Bad : \A s \in Bad : s \subseteq t => s = t
  <2>1. Bad \subseteq SUBSET S
    OBVIOUS
  <2> HIDE DEF Bad
  <2> QED BY <1>1, <2>1, SmallestSubset
<1>3. t \in SUBSET S /\ f[t] # one(t)
  BY <1>2
<1>4. f[t] = IF t = {} THEN 0 ELSE v[First(t)] + f[t \ {First(t)}]
  <2>1. Sums(f, v, S)
    BY SumsExist
  <2> HIDE DEF f, Bad, one
  <2> QED BY <1>3, <2>1 DEF Sums
<1>5. t # {} /\ First(t) \in t
  BY <1>3, <1>4, FirstIn
<1>6. f[t \ {First(t)}] = one(t \ {First(t)})
  BY <1>2, <1>3, <1>5
<1> HIDE DEF f, Bad
<1> QED BY <1>3, <1>4, <1>5, <1>6

(* A sum of smaller summands is smaller.                                    *)
LEMMA SumsOrdered ==
  ASSUME NEW S, IsFiniteSet(S), NEW v, NEW w,
         \A x \in S : v[x] \in Int /\ w[x] \in Int /\ v[x] <= w[x]
  PROVE  SumOf(v, S) \in Int /\ SumOf(w, S) \in Int /\ SumOf(v, S) <= SumOf(w, S)
<1> DEFINE f == SumFun(v, S)
           g == SumFun(w, S)
           ok(t) == f[t] \in Int /\ g[t] \in Int /\ f[t] <= g[t]
           Bad == {t \in SUBSET S : ~ok(t)}
<1>1. SUFFICES ASSUME Bad # {} PROVE FALSE
  BY DEF SumOf
<1>2. PICK t \in Bad : \A s \in Bad : s \subseteq t => s = t
  <2>1. Bad \subseteq SUBSET S
    OBVIOUS
  <2> HIDE DEF Bad
  <2> QED BY <1>1, <2>1, SmallestSubset
<1>3. t \in SUBSET S /\ ~ok(t)
  BY <1>2
<1>4. /\ f[t] = IF t = {} THEN 0 ELSE v[First(t)] + f[t \ {First(t)}]
      /\ g[t] = IF t = {} THEN 0 ELSE w[First(t)] + g[t \ {First(t)}]
  <2>1. Sums(f, v, S) /\ Sums(g, w, S)
    BY SumsExist
  <2> HIDE DEF f, g, Bad, ok
  <2> QED BY <1>3, <2>1 DEF Sums
<1>5. t # {} /\ First(t) \in t
  BY <1>3, <1>4, FirstIn
<1>6. ok(t \ {First(t)})
  BY <1>2, <1>3, <1>5
<1> HIDE DEF f, g, Bad
<1> QED BY <1>3, <1>4, <1>5, <1>6

(* What counts, as a sum.                                                   *)
Counts(w) == IF w.status = "SUCCEEDED" THEN w.amount ELSE 0

LEMMA CountedSum ==
  ASSUME NEW rows
  PROVE  Counted(rows) = SumOf([s \in Slots |-> Counts(rows[s])], Slots)
BY DEF Counted, SumOf, SumFun, Sums, First, Counts, MapThenSumSet, MapThenFoldSet

LEMMA CountedOne ==
  ASSUME NEW rows, NEW t \in Slots, Counts(rows[t]) \in Int,
         \A s \in Slots \ {t} : rows[s].status # "SUCCEEDED"
  PROVE  Counted(rows) = Counts(rows[t])
<1> DEFINE v == [s \in Slots |-> Counts(rows[s])]
<1>1. Counted(rows) = SumOf(v, Slots)
  BY CountedSum
<1>2. v[t] \in Int /\ \A s \in Slots \ {t} : v[s] = 0
  BY DEF Counts
<1>3. IsFiniteSet(Slots)
  BY InvoiceAssumption
<1>4. SumOf(v, Slots) = v[t]
  <2> HIDE DEF v
  <2> QED BY <1>2, <1>3, SumOne
<1> QED BY <1>1, <1>4

LEMMA CountedNone ==
  ASSUME NEW rows, \A s \in Slots : rows[s].status # "SUCCEEDED"
  PROVE  Counted(rows) = 0
<1>1. Counts(rows[SomeSlot]) = 0
  BY InvoiceAssumption DEF Counts
<1> QED BY <1>1, InvoiceAssumption, CountedOne

LEMMA NothingPaid == PaidBy(NoRows, 0) = 0
<1> DEFINE v == [i \in Intents |-> Counted(NoRows[i])]
<1>1. PaidBy(NoRows, 0) = 0 + SumOf(v, Intents)
  BY DEF PaidBy, SumOf, SumFun, Sums, First, MapThenSumSet, MapThenFoldSet
<1>2. \A i \in Intents : v[i] = 0
  BY CountedNone DEF NoRows, NoRow
<1>3. SumOf(v, Intents) = 0
  <2>1. IsFiniteSet(Intents) /\ SomeIntent \in Intents
    BY InvoiceAssumption
  <2>2. v[SomeIntent] \in Int /\ \A i \in Intents \ {SomeIntent} : v[i] = 0
    BY <1>2, <2>1
  <2> HIDE DEF v
  <2> QED BY <1>2, <2>1, <2>2, SumOne
<1> QED BY <1>1, <1>3

(* What Stripe has captured, refunded or not.                               *)
Captured ==
  MapThenSumSet(LAMBDA i : IF intent[i].state = "paid" THEN intent[i].amount ELSE 0, Intents)

(* No invoice is paid with more than staff recorded and Stripe captured,    *)
(* in whatever order the webhooks come and whatever slow checkouts write.   *)
THEOREM NoMoreThanCaptured == Spec => [](Paid <= manual + Captured)
<1>1. Inv => Paid <= manual + Captured
  <2> SUFFICES ASSUME Inv PROVE Paid <= manual + Captured
    OBVIOUS
  <2> DEFINE v == [i \in Intents |-> Counted(row[i])]
             w == [i \in Intents |-> IF intent[i].state = "paid" THEN intent[i].amount ELSE 0]
  <2>1. Paid = manual + SumOf(v, Intents)
    BY DEF Paid, PaidBy, SumOf, SumFun, Sums, First, MapThenSumSet, MapThenFoldSet
  <2>2. Captured = SumOf(w, Intents)
    BY DEF Captured, SumOf, SumFun, Sums, First, MapThenSumSet, MapThenFoldSet
  <2>3. ASSUME NEW i \in Intents
        PROVE  /\ Counted(row[i]) \in Int /\ w[i] \in Int
               /\ Counted(row[i]) <= w[i]
    <3>1. intent[i].amount \in Nat /\ w[i] \in Nat /\ \A s \in Slots : row[i][s].amount \in Nat
      BY DEF Inv, TypeOK, IntentType, RowType
    <3>2. CASE \A s \in Slots : row[i][s].status # "SUCCEEDED"
      BY <3>1, <3>2, CountedNone
    <3>3. ASSUME NEW t \in Slots, row[i][t].status = "SUCCEEDED"
          PROVE  /\ Counted(row[i]) \in Int /\ Counted(row[i]) <= w[i]
      <4>1. RowOK(row[i][t], intent[i]) /\ \A s \in Slots : RowOK(row[i][s], intent[i])
        BY DEF Inv, RowInv
      <4>2. \A s \in Slots \ {t} : row[i][s].status # "SUCCEEDED"
        BY <3>3, <4>1 DEF Inv, RefInv, RowOK
      <4>3. Counts(row[i][t]) = row[i][t].amount
        BY <3>3 DEF Counts
      <4>4. Counted(row[i]) = row[i][t].amount
        BY <3>1, <4>2, <4>3, CountedOne
      <4> QED BY <3>1, <3>3, <4>1, <4>4 DEF RowOK
    <3> QED BY <3>1, <3>2, <3>3
  <2>4. /\ SumOf(v, Intents) \in Int /\ SumOf(w, Intents) \in Int
        /\ SumOf(v, Intents) <= SumOf(w, Intents)
    <3>1. IsFiniteSet(Intents) /\ \A i \in Intents : v[i] \in Int /\ w[i] \in Int /\ v[i] <= w[i]
      BY <2>3, InvoiceAssumption
    <3> HIDE DEF v, w
    <3> QED BY <3>1, SumsOrdered
  <2>5. manual \in Nat
    BY DEF Inv, TypeOK
  <2> HIDE DEF v, w
  <2> QED BY <2>1, <2>2, <2>4, <2>5
<1> QED BY <1>1, AlwaysInv, PTL

-----------------------------------------------------------------------------
(* The status.                                                              *)

Fits(st, paid) ==
  /\ (st = "PAID") <=> (paid >= Total)
  /\ (st = "PARTIAL") <=> (~(paid >= Total) /\ paid > 0)

LEMMA DerivedFits ==
  ASSUME NEW paid, NEW old \in Statuses
  PROVE  Fits(Derived(paid, old), paid)
BY DEF Fits, Derived, Statuses

LEMMA ReconciledFits ==
  ASSUME NEW paid, NEW old \in Statuses, ~(old = "PARTIAL" /\ ~(paid > 0))
  PROVE  Fits(Reconciled(paid, old), paid)
BY DerivedFits DEF Reconciled

(* A request that nobody overtook since its write will set the status that  *)
(* follows from the payments after its commit.                              *)
UpToDate(r) ==
  LET q == request[r] IN
  \/ /\ q.kind = "checkout"
     /\ q.new = Derived(PaidBy(WithPending(row, q, q.slot), manual), q.seen)
  \/ q.kind = "manual" /\ q.new = Derived(PaidBy(row, manual + q.amount), q.seen)
  \/ q.kind = "send" /\ q.new = "SENT" /\ q.seen = "DRAFT" /\ status = "DRAFT"

FreshInv == \A r \in Requests : Written(r) /\ request[r].fresh => UpToDate(r)

StatusInv == Inv /\ StatusFollows /\ FreshInv

(* Steps after which no written request counts as up to date.               *)
LEMMA FreshWhenOutdated ==
  ASSUME \A p \in Requests : request'[p].pc = "written" => request'[p].fresh = FALSE
  PROVE  FreshInv'
BY DEF FreshInv, Written

LEMMA FollowsFits == StatusFollows <=> (raced \/ Fits(status, Paid))
BY DEF StatusFollows, Fits

LEMMA FollowsFitsNext == StatusFollows' <=> (raced' \/ Fits(status', PaidBy(row', manual')))
BY DEF StatusFollows, Fits, Paid

LEMMA UpToDateNext ==
  ASSUME NEW r, NEW q, q = request'[r]
  PROVE  UpToDate(r)' <=>
           \/ /\ q.kind = "checkout"
              /\ q.new = Derived(PaidBy(WithPending(row', q, q.slot), manual'), q.seen)
           \/ q.kind = "manual" /\ q.new = Derived(PaidBy(row', manual' + q.amount), q.seen)
           \/ q.kind = "send" /\ q.new = "SENT" /\ q.seen = "DRAFT" /\ status' = "DRAFT"
BY DEF UpToDate

(* Steps that touch neither the ledger nor the status.                      *)
LEMMA FollowsKept ==
  ASSUME StatusInv, UNCHANGED <<status, row, manual, raced>>
  PROVE  /\ StatusFollows'
         /\ \A p \in Requests :
              request'[p] = request[p] /\ request[p].pc = "written" /\ request[p].fresh
              => UpToDate(p)'
<1>1. StatusFollows'
  BY FollowsFits, FollowsFitsNext DEF StatusInv, Paid
<1>2. ASSUME NEW p \in Requests, request'[p] = request[p],
             request[p].pc = "written", request[p].fresh
      PROVE  UpToDate(p)'
  <2>1. UpToDate(p)
    BY <1>2 DEF StatusInv, FreshInv, Written
  <2> QED BY <1>2, <2>1, UpToDateNext DEF UpToDate
<1> QED BY <1>1, <1>2

LEMMA LedgerQuiet ==
  ASSUME StatusInv, UNCHANGED <<status, row, manual, raced, request>>
  PROVE  StatusFollows' /\ FreshInv'
<1>1. \A p \in Requests : request'[p].pc = "written" /\ request'[p].fresh => UpToDate(p)'
  BY FollowsKept
<1> QED BY <1>1, FollowsKept DEF FreshInv, Written

LEMMA LedgerKept ==
  ASSUME StatusInv, NEW r \in Requests, UNCHANGED <<status, row, manual, raced>>,
         \A p \in Requests \ {r} : request'[p] = request[p],
         ~(request'[r].pc = "written" /\ request'[r].fresh) \/ UpToDate(r)'
  PROVE  StatusFollows' /\ FreshInv'
<1>1. \A p \in Requests : request'[p].pc = "written" /\ request'[p].fresh => UpToDate(p)'
  BY FollowsKept
<1> QED BY <1>1, FollowsKept DEF FreshInv, Written

(* A locked step that derives the status anew.                              *)
LEMMA RefreshedFollows ==
  ASSUME StatusInv, Refreshed, UNCHANGED manual
  PROVE  StatusFollows' /\ FreshInv'
<1>1. TypeOK
  BY DEF StatusInv, Inv
<1>2. FreshInv'
  BY <1>1, AllOutdated, FreshWhenOutdated DEF Refreshed
<1>3. Fits(status', PaidBy(row', manual'))
  BY <1>1, DerivedFits DEF Refreshed, TypeOK
<1> QED BY <1>2, <1>3, FollowsFitsNext

LEMMA BeginFollows ==
  ASSUME StatusInv, NEW r \in Requests,
         \/ \E i \in Intents : BeginCheckout(r, i)
         \/ \E m \in ManualAmounts : BeginManual(r, m)
         \/ BeginSend(r) \/ Abort(r)
  PROVE  StatusFollows' /\ FreshInv'
<1>0. request \in [Requests -> RequestType]
  BY DEF StatusInv, Inv, TypeOK
<1>1. /\ UNCHANGED <<status, row, manual, raced>>
      /\ \A p \in Requests \ {r} : request'[p] = request[p]
  BY <1>0 DEF BeginCheckout, BeginManual, BeginSend, Abort, Enter
<1>2. ~(request'[r].pc = "written" /\ request'[r].fresh) \/ UpToDate(r)'
  <2>1. CASE (\E i \in Intents : BeginCheckout(r, i)) \/ \E m \in ManualAmounts : BeginManual(r, m)
    <3>1. ASSUME NEW i \in Intents, BeginCheckout(r, i) PROVE request'[r].pc = "loaded"
      BY <3>1, <1>0 DEF BeginCheckout, Enter, Idle
    <3>2. ASSUME NEW m \in ManualAmounts, BeginManual(r, m) PROVE request'[r].pc = "loaded"
      BY <3>2, <1>0 DEF BeginManual, Enter, Idle
    <3>3. request'[r].pc = "loaded"
      BY <2>1, <3>1, <3>2
    <3> QED BY <3>3
  <2>2. CASE BeginSend(r)
    <3> DEFINE q == request'[r]
    <3>1. q = [Idle EXCEPT !.pc = "written", !.kind = "send", !.new = "SENT"]
      BY <2>2, <1>0 DEF BeginSend, Enter
    <3>2. q.kind = "send" /\ q.new = "SENT" /\ q.seen = "DRAFT"
      BY <3>1 DEF Idle
    <3>3. status' = "DRAFT"
      BY <2>2, <1>1 DEF BeginSend
    <3> QED BY <3>2, <3>3, UpToDateNext
  <2>3. CASE Abort(r)
    BY <2>3, <1>0 DEF Abort, Idle
  <2> QED BY <2>1, <2>2, <2>3
<1> QED BY <1>1, <1>2, LedgerKept

LEMMA WriteFollows ==
  ASSUME StatusInv, NEW r \in Requests, WriteCheckout(r) \/ WriteManual(r)
  PROVE  StatusFollows' /\ FreshInv'
<1> DEFINE old == request[r]
           q == request'[r]
<1>0. request \in [Requests -> RequestType] /\ old \in RequestType
  BY DEF StatusInv, Inv, TypeOK
<1>1. ASSUME NEW s, NEW paid, SaveRequest(r, s, paid)
      PROVE  /\ UNCHANGED <<status, row, manual, raced>>
             /\ \A p \in Requests \ {r} : request'[p] = request[p]
             /\ q.kind = old.kind /\ q.amount = old.amount /\ q.intent = old.intent
             /\ q.seen = old.seen /\ q.known = old.known /\ q.slot = s
             /\ q.new = Derived(paid, q.seen)
  BY <1>0, <1>1 DEF SaveRequest, RequestType
<1>2. CASE WriteCheckout(r)
  <2>1. PICK s : SaveRequest(r, s, PaidBy(WithPending(row, old, s), manual))
    BY <1>2 DEF WriteCheckout
  <2>2. WithPending(row, old, s) = WithPending(row, q, q.slot)
    BY <2>1, <1>1 DEF WithPending, Pending
  <2>3. q.kind = "checkout"
    BY <1>2, <2>1, <1>1 DEF WriteCheckout
  <2> HIDE DEF old, q
  <2>4. /\ q.new = Derived(PaidBy(WithPending(row', q, q.slot), manual'), q.seen)
        /\ UNCHANGED <<status, row, manual, raced>>
        /\ \A p \in Requests \ {r} : request'[p] = request[p]
    BY <2>1, <2>2, <1>1
  <2>5. UpToDate(r)'
    BY <2>3, <2>4, UpToDateNext DEF q
  <2> QED BY <2>4, <2>5, LedgerKept
<1>3. CASE WriteManual(r)
  <2>1. SaveRequest(r, SomeSlot, PaidBy(row, manual + old.amount)) /\ old.kind = "manual"
    BY <1>3 DEF WriteManual
  <2> HIDE DEF old, q
  <2>2. /\ q.kind = "manual" /\ q.new = Derived(PaidBy(row', manual' + q.amount), q.seen)
        /\ UNCHANGED <<status, row, manual, raced>>
        /\ \A p \in Requests \ {r} : request'[p] = request[p]
    BY <2>1, <1>1
  <2>3. UpToDate(r)'
    BY <2>2, UpToDateNext DEF q
  <2> QED BY <2>2, <2>3, LedgerKept
<1> QED BY <1>2, <1>3

LEMMA CommitFollows ==
  ASSUME StatusInv, NEW r \in Requests, Commit(r)
  PROVE  StatusFollows' /\ FreshInv'
<1> DEFINE q == request[r]
<1>0. TypeOK /\ q \in RequestType
  BY DEF StatusInv, Inv, TypeOK
<1>1. /\ row' = IF q.kind = "checkout" THEN WithPending(row, q, q.slot) ELSE row
      /\ manual' = IF q.kind = "manual" THEN manual + q.amount ELSE manual
      /\ status' = IF q.new # q.seen THEN q.new ELSE status
      /\ raced' = (raced \/ ~q.fresh \/ (q.new = q.seen /\ status # q.seen))
      /\ Outdate(r) /\ Written(r)
  BY DEF Commit
<1>2. FreshInv'
  BY <1>0, <1>1, OutdatedButOne, FreshWhenOutdated
<1>3. ASSUME ~raced' PROVE Fits(status', PaidBy(row', manual'))
  <2>1. ~raced /\ q.fresh /\ (q.new = q.seen => status = q.seen)
    BY <1>0, <1>1, <1>3 DEF TypeOK, RequestType
  <2>2. status' = q.new
    BY <1>1, <2>1
  <2>3. UpToDate(r)
    BY <1>1, <2>1 DEF StatusInv, FreshInv
  <2>4. q.seen \in Statuses
    BY <1>0 DEF RequestType
  <2>5. CASE q.kind = "checkout"
    <3>1. q.new = Derived(PaidBy(row', manual'), q.seen)
      BY <2>5, <2>3, <1>1 DEF UpToDate
    <3> QED BY <3>1, <2>2, <2>4, DerivedFits
  <2>6. CASE q.kind = "manual"
    <3>1. q.new = Derived(PaidBy(row', manual'), q.seen)
      BY <2>6, <2>3, <1>1 DEF UpToDate
    <3> QED BY <3>1, <2>2, <2>4, DerivedFits
  <2>7. CASE q.kind = "send"
    <3>1. q.new = "SENT" /\ status = "DRAFT" /\ PaidBy(row', manual') = Paid
      BY <2>7, <2>3, <1>1 DEF UpToDate, Paid
    <3>2. Fits(status, Paid)
      BY <2>1, FollowsFits DEF StatusInv
    <3> QED BY <2>2, <3>1, <3>2 DEF Fits
  <2> QED BY <1>0, <2>5, <2>6, <2>7 DEF RequestType
<1> QED BY <1>2, <1>3, FollowsFitsNext

LEMMA WebhookFollows ==
  ASSUME StatusInv, Webhook
  PROVE  StatusFollows' /\ FreshInv'
<1>1. ASSUME NEW e \in event, PaymentEvent(e) \/ Refunded(e) PROVE Refreshed /\ UNCHANGED manual
  BY <1>1 DEF PaymentEvent, Record, Refunded, Took
<1>2. ASSUME NEW e \in event, RefundIgnored(e) PROVE UNCHANGED <<status, row, manual, raced, request>>
  BY <1>2 DEF RefundIgnored, Took
<1>3. CASE UNCHANGED <<status, row, manual, raced, request>>
  BY <1>3, LedgerQuiet
<1> QED BY <1>1, <1>2, <1>3, RefreshedFollows DEF Webhook

LEMMA AdminFollows ==
  ASSUME StatusInv, Finalized \/ Reconcile
  PROVE  StatusFollows' /\ FreshInv'
<1>0. TypeOK
  BY DEF StatusInv, Inv
<1>1. FreshInv'
  BY <1>0, AllOutdated, FreshWhenOutdated DEF Finalized, Reconcile
<1>2. PaidBy(row', manual') = Paid
  BY DEF Finalized, Reconcile, Paid
<1>3. raced \/ Fits(status, Paid)
  BY FollowsFits DEF StatusInv
<1>4. CASE Finalized
  <2>1. status = "DRAFT" /\ status' = "SENT" /\ raced' = raced
    BY <1>4 DEF Finalized
  <2>2. raced' \/ Fits(status', Paid)
    BY <2>1, <1>3 DEF Fits
  <2> QED BY <1>1, <1>2, <2>2, FollowsFitsNext
<1>5. CASE Reconcile
  <2>1. /\ status' = Reconciled(Paid, status) /\ status \in Statuses
        /\ raced' = (raced /\ status = "PARTIAL" /\ ~(Paid > 0))
    BY <1>0, <1>5 DEF Reconcile, TypeOK
  <2>2. CASE status = "PARTIAL" /\ ~(Paid > 0)
    <3>1. raced
      BY <2>2, <1>3 DEF Fits
    <3> QED BY <1>1, <2>1, <2>2, <3>1, FollowsFitsNext
  <2>3. CASE ~(status = "PARTIAL" /\ ~(Paid > 0))
    <3>1. Fits(status', Paid)
      BY <2>1, <2>3, ReconciledFits
    <3> QED BY <1>1, <1>2, <3>1, FollowsFitsNext
  <2> QED BY <2>2, <2>3
<1> QED BY <1>4, <1>5

LEMMA NextStatus == StatusInv /\ [Next]_vars => StatusInv'
<1> SUFFICES ASSUME StatusInv, [Next]_vars PROVE StatusInv'
  OBVIOUS
<1>1. Inv'
  BY NextInv DEF StatusInv
<1>2. StatusFollows' /\ FreshInv'
  <2>1. ASSUME NEW r \in Requests, Unlocked(r) PROVE StatusFollows' /\ FreshInv'
    BY <2>1, BeginFollows, WriteFollows, CommitFollows DEF Unlocked
  <2>2. CASE Webhook
    BY <2>2, WebhookFollows
  <2>3. CASE Finalized \/ Reconcile
    BY <2>3, AdminFollows
  <2>4. CASE UNCHANGED <<status, row, manual, raced, request>>
    BY <2>4, LedgerQuiet
  <2>5. ASSUME NEW i \in Intents, Stripe(i)
        PROVE UNCHANGED <<status, row, manual, raced, request>>
    BY <2>5 DEF Stripe, Decline, Pay, Refund
  <2> QED BY <2>1, <2>2, <2>3, <2>4, <2>5 DEF Next, vars
<1> QED BY <1>1, <1>2 DEF StatusInv

(* The status is right except after a stale read by a request without the   *)
(* lock, whatever is refunded, recorded or reconciled.                      *)
THEOREM StatusIsRight == Spec => []StatusFollows
<1>1. Init => StatusInv
  <2> SUFFICES ASSUME Init PROVE StatusInv
    OBVIOUS
  <2>1. FreshInv
    BY DEF Init, FreshInv, Written, Idle
  <2>2. Paid = 0 /\ status = "DRAFT"
    BY NothingPaid DEF Paid, Init
  <2>3. StatusFollows
    BY <2>2, InvoiceAssumption DEF StatusFollows
  <2> QED BY InitInv, <2>1, <2>3 DEF StatusInv
<1>2. StatusInv => StatusFollows
  BY DEF StatusInv
<1> QED BY <1>1, <1>2, NextStatus, PTL DEF Spec

-----------------------------------------------------------------------------
(* In order.  What an intent that has not strayed looks like: rows are its  *)
(* payment rows, n what Stripe knows of it, E its events still to come.     *)

EventsOf(i) == {e \in event : e.intent = i}

PaidKinds == {"completed", "succeeded"}

(* Nothing of the payment has been recorded.                                *)
Unpaid(rows, n, E) ==
  /\ \A s \in Slots : rows[s].status # "SUCCEEDED"
  /\ n.state = "paid" => \A k \in PaidKinds : \E e \in E : e.kind = k

(* The payment has been recorded, and refunds up to r of it.                *)
Recorded(rows, n, E, r) ==
  /\ n.state = "paid"
  /\ \A e \in E : e.kind # "failed" /\ (e.kind \in PaidKinds => r = 0)
  /\ \E s \in Slots :
       /\ rows[s].ref
       /\ r < n.amount => rows[s].status = "SUCCEEDED" /\ rows[s].amount = n.amount - r
       /\ r = n.amount => rows[s].status # "SUCCEEDED"

(* Refunds up to r have been applied, and those to come are the later ones. *)
RefundedUpTo(n, E, r) ==
  /\ r = n.refunded \/ \E e \in E : e.kind = "refunded" /\ e.refunded = n.refunded
  /\ \A e \in E : e.kind = "refunded" => e.refunded > r

InOrder(rows, n, E) ==
  \E r \in 0 .. n.refunded :
    /\ RefundedUpTo(n, E, r)
    /\ (r = 0 /\ Unpaid(rows, n, E)) \/ Recorded(rows, n, E, r)

(* All has been refunded and nothing is to come.                            *)
Over(n, E) == n.state = "paid" /\ n.refunded = n.amount /\ E = {}

(* A row that may be recorded yet has the amount of the intent.             *)
Whole(w, n, E) == w.status \in {"PENDING", "FAILED"} => w.amount = n.amount \/ Over(n, E)

About(q, i) == q.pc # "idle" /\ q.kind = "checkout" /\ q.intent = i

(* The copy w that a request has of a row.                                  *)
Copied(w, now, n, E) == Whole(w, n, E) /\ (w.status # "none" => now.status # "none")

Orderly(i) ==
  /\ InOrder(row[i], intent[i], EventsOf(i))
  /\ \A s \in Slots : Whole(row[i][s], intent[i], EventsOf(i))
  /\ \A p \in Requests : About(request[p], i) =>
       \A s \in Slots : Copied(request[p].known[s], row[i][s], intent[i], EventsOf(i))

(* Every refund of an intent has its own total, and nothing is refunded or  *)
(* recorded before there is a payment.                                      *)
RefundInv ==
  /\ \A e \in event : e.refunded <= intent[e.intent].refunded
  /\ \A d, e \in event : d.kind = "refunded" /\ e.kind = "refunded" /\ d.intent = e.intent
                           /\ d.refunded = e.refunded => d = e
  /\ \A i \in Intents :
       /\ intent[i].state # "paid" => intent[i].refunded = 0
       /\ intent[i].state # "none" => intent[i].amount > 0
       /\ intent[i].state = "none" => \A s \in Slots : row[i][s].status = "none"

OrderInv == RefundInv /\ \A i \in Intents \ strayed : Orderly(i)

(* What is left to show of a step about intent j.                           *)
LEMMA OrderStep ==
  ASSUME Inv, Inv', OrderInv, RefundInv', NEW j \in Intents, strayed \subseteq strayed',
         \A i \in Intents \ {j} :
           row'[i] = row[i] /\ intent'[i] = intent[i] /\ EventsOf(i)' = EventsOf(i),
         \A p \in Requests, i \in Intents : About(request'[p], i) =>
           \/ About(request[p], i) /\ request'[p].known = request[p].known
           \/ request'[p].known = row'[i],
         j \in strayed' \/
           /\ InOrder(row'[j], intent'[j], EventsOf(j)')
           /\ \A s \in Slots : Whole(row'[j][s], intent'[j], EventsOf(j)')
           /\ \A s \in Slots : row[j][s].status # "none" => row'[j][s].status # "none"
           /\ intent[j].state # "none" =>
                /\ intent'[j].amount = intent[j].amount
                /\ Over(intent[j], EventsOf(j)) => Over(intent'[j], EventsOf(j)')
  PROVE  OrderInv'
<1> SUFFICES ASSUME NEW i \in Intents, i \notin strayed' PROVE Orderly(i)'
  BY DEF OrderInv
<1>1. Orderly(i)
  BY DEF OrderInv
<1>2. /\ InOrder(row'[i], intent'[i], EventsOf(i)')
      /\ \A s \in Slots : Whole(row'[i][s], intent'[i], EventsOf(i)')
  <2>1. CASE i = j
    BY <2>1
  <2>2. CASE i # j
    BY <2>2, <1>1 DEF Orderly
  <2> QED BY <2>1, <2>2
<1>3. ASSUME NEW p \in Requests, About(request'[p], i), NEW s \in Slots
      PROVE  Copied(request'[p].known[s], row'[i][s], intent'[i], EventsOf(i)')
  <2>1. CASE request'[p].known = row'[i]
    BY <2>1, <1>2 DEF Copied
  <2>2. CASE About(request[p], i) /\ request'[p].known = request[p].known
    <3>1. Copied(request[p].known[s], row[i][s], intent[i], EventsOf(i))
      BY <2>2, <1>1 DEF Orderly
    <3>2. intent[i].state # "none"
      BY <2>2 DEF Inv, RequestInv, About
    <3>3. CASE i = j
      BY <3>1, <3>2, <3>3, <2>2 DEF Copied, Whole
    <3>4. CASE i # j
      BY <3>1, <3>4, <2>2
    <3> QED BY <3>3, <3>4
  <2> QED BY <1>3, <2>1, <2>2
<1>4. /\ InOrder(row[i], intent[i], EventsOf(i))'
      /\ \A s \in Slots : Whole(row[i][s], intent[i], EventsOf(i))'
      /\ \A p \in Requests : About(request[p], i)' =>
           \A s \in Slots : Copied(request[p].known[s], row[i][s], intent[i], EventsOf(i))'
  BY <1>2, <1>3 DEF InOrder, RefundedUpTo, Unpaid, Recorded, Copied, Whole, About, Over
<1> QED BY <1>4 DEF Orderly

(* Steps that leave rows, intents and events alone.                         *)
LEMMA OrderQuiet ==
  ASSUME Inv, Inv', OrderInv, UNCHANGED <<row, intent, event>>, strayed \subseteq strayed',
         \A p \in Requests, i \in Intents : About(request'[p], i) =>
           \/ About(request[p], i) /\ request'[p].known = request[p].known
           \/ request'[p].known = row'[i]
  PROVE  OrderInv'
<1>1. RefundInv'
  BY DEF OrderInv, RefundInv
<1>2. \A i \in Intents : EventsOf(i)' = EventsOf(i)
  BY DEF EventsOf
<1>3. SomeIntent \in strayed' \/ Orderly(SomeIntent)
  BY InvoiceAssumption DEF OrderInv
<1> QED BY <1>1, <1>2, <1>3, InvoiceAssumption, OrderStep DEF Orderly

(* The requests' copies of the rows.                                        *)
KnownKept ==
  \A p \in Requests : request'[p].pc # "idle" /\ request'[p].kind = "checkout" =>
    /\ request[p].pc # "idle" /\ request[p].kind = "checkout"
    /\ request'[p].intent = request[p].intent /\ request'[p].known = request[p].known

LEMMA OutdatedKnown ==
  ASSUME TypeOK,
         \A p \in Requests : request'[p] = Outdated(request[p]) \/ request'[p].pc = "idle"
  PROVE  KnownKept
<1>1. ASSUME NEW p \in Requests, request'[p] = Outdated(request[p])
      PROVE  /\ request'[p].pc = request[p].pc /\ request'[p].kind = request[p].kind
             /\ request'[p].intent = request[p].intent /\ request'[p].known = request[p].known
  BY <1>1 DEF TypeOK, Outdated, RequestType
<1> QED BY <1>1 DEF KnownKept

LEMMA KnownAbout ==
  ASSUME KnownKept
  PROVE  \A p \in Requests, i \in Intents : About(request'[p], i) =>
           About(request[p], i) /\ request'[p].known = request[p].known
BY DEF KnownKept, About

LEMMA RequestsInOrder ==
  ASSUME Inv, Inv', OrderInv, NEW r \in Requests,
         \/ \E m \in ManualAmounts : BeginManual(r, m)
         \/ BeginSend(r) \/ WriteCheckout(r) \/ WriteManual(r) \/ Abort(r)
  PROVE  OrderInv'
<1>0. TypeOK
  BY DEF Inv
<1>1. UNCHANGED <<row, intent, event, strayed>>
  BY DEF BeginManual, BeginSend, WriteCheckout, WriteManual, Abort, Enter, SaveRequest
<1>2. KnownKept
  <2>1. /\ \A p \in Requests \ {r} : request'[p] = request[p]
        /\ r \in DOMAIN request /\ request[r] \in RequestType
    BY <1>0 DEF TypeOK, BeginManual, BeginSend, WriteCheckout, WriteManual, Abort, Enter,
                SaveRequest
  <2>2. ASSUME NEW m \in ManualAmounts, BeginManual(r, m) PROVE request'[r].kind = "manual"
    BY <2>1, <2>2 DEF BeginManual, Enter, Idle
  <2>3. ASSUME BeginSend(r) PROVE request'[r].kind = "send"
    BY <2>1, <2>3 DEF BeginSend, Enter, Idle
  <2>4. ASSUME Abort(r) PROVE request'[r].pc = "idle"
    BY <2>1, <2>4 DEF Abort, Idle
  <2>5. ASSUME NEW s, NEW paid, request[r].pc = "loaded", SaveRequest(r, s, paid)
        PROVE  /\ request[r].pc # "idle" /\ request'[r].kind = request[r].kind
               /\ request'[r].intent = request[r].intent
               /\ request'[r].known = request[r].known
    BY <2>1, <2>5 DEF SaveRequest, RequestType
  <2>6. ASSUME WriteCheckout(r) \/ WriteManual(r)
        PROVE  request[r].pc = "loaded" /\ \E s, paid : SaveRequest(r, s, paid)
    BY <2>6 DEF WriteCheckout, WriteManual
  <2> QED BY <2>1, <2>2, <2>3, <2>4, <2>5, <2>6 DEF KnownKept
<1> QED BY <1>1, <1>2, KnownAbout, OrderQuiet

LEMMA AdminInOrder ==
  ASSUME Inv, Inv', OrderInv, Finalized \/ Reconcile
  PROVE  OrderInv'
<1>1. UNCHANGED <<row, intent, event, strayed>>
  BY DEF Finalized, Reconcile
<1>2. KnownKept
  BY OutdatedKnown DEF Finalized, Reconcile, Inv
<1> QED BY <1>1, <1>2, KnownAbout, OrderQuiet

LEMMA BeginCheckoutInOrder ==
  ASSUME Inv, Inv', OrderInv, NEW r \in Requests, NEW i \in Intents, BeginCheckout(r, i)
  PROVE  OrderInv'
<1> DEFINE due == Total - Paid
           made == [state |-> "made", amount |-> due, refunded |-> 0]
<1>0. TypeOK /\ due > 0
  BY InvoiceAssumption DEF Inv, BeginCheckout
<1>1. /\ UNCHANGED <<row, event, strayed>>
      /\ intent' = IF intent[i].state = "none" THEN [intent EXCEPT ![i] = made] ELSE intent
      /\ \A p \in Requests \ {r} : request'[p] = request[p]
      /\ request'[r].known = row[i] /\ request'[r].intent = i
  BY <1>0 DEF BeginCheckout, Enter, Idle, TypeOK
<1> HIDE DEF due
<1>2. \A p \in Requests, j \in Intents : About(request'[p], j) =>
        \/ About(request[p], j) /\ request'[p].known = request[p].known
        \/ request'[p].known = row'[j]
  BY <1>1 DEF About
<1>3. CASE intent[i].state # "none"
  BY <1>1, <1>2, <1>3, OrderQuiet
<1>4. CASE intent[i].state = "none"
  <2>1. /\ intent'[i] = made /\ \A j \in Intents \ {i} : intent'[j] = intent[j]
    BY <1>0, <1>1, <1>4 DEF TypeOK
  <2>2. EventsOf(i) = {} /\ \A j \in Intents : EventsOf(j)' = EventsOf(j)
    BY <1>1, <1>4 DEF EventsOf, Inv, EventInv
  <2>3. \A s \in Slots : row[i][s].status = "none"
    BY <1>4 DEF OrderInv, RefundInv
  <2>4. RefundInv'
    <3>1. \A e \in event : e.intent \in Intents /\ e.intent # i
      BY <1>4 DEF Inv, EventInv, TypeOK, EventType
    <3> QED BY <1>0, <1>1, <2>1, <2>3, <3>1 DEF OrderInv, RefundInv
  <2>5. InOrder(row'[i], intent'[i], EventsOf(i)')
    BY <1>1, <2>1, <2>2, <2>3 DEF InOrder, RefundedUpTo, Unpaid
  <2>6. \A s \in Slots : Whole(row'[i][s], intent'[i], EventsOf(i)')
    BY <1>1, <2>3 DEF Whole
  <2> QED BY <1>1, <1>2, <1>4, <2>1, <2>2, <2>4, <2>5, <2>6, OrderStep
<1> QED BY <1>3, <1>4

LEMMA WebhookKnown ==
  ASSUME Inv, NEW e \in event, PaymentEvent(e) \/ Refunded(e) \/ RefundIgnored(e)
  PROVE  KnownKept
<1>1. CASE PaymentEvent(e) \/ Refunded(e)
  BY <1>1, OutdatedKnown DEF PaymentEvent, Refunded, Record, Refreshed, Inv
<1>2. CASE RefundIgnored(e)
  BY <1>2 DEF RefundIgnored, KnownKept
<1> QED BY <1>1, <1>2

(* Taking an event of intent i leaves the events of the others alone.       *)
LEMMA TookEvents ==
  ASSUME TypeOK, NEW e \in event, event' = event \ {e}
  PROVE  /\ EventsOf(e.intent)' = EventsOf(e.intent) \ {e} /\ e \in EventsOf(e.intent)
         /\ \A i \in Intents \ {e.intent} : EventsOf(i)' = EventsOf(i)
         /\ e.intent \in Intents /\ e \in EventType
BY DEF EventsOf, TypeOK, EventType

LEMMA RefundIgnoredInOrder ==
  ASSUME Inv, Inv', OrderInv, NEW e \in event, RefundIgnored(e)
  PROVE  OrderInv'
<1>1. /\ UNCHANGED <<row, intent>> /\ event' = event \ {e}
      /\ strayed' = strayed \cup {e.intent}
  BY DEF RefundIgnored, Took, Stray
<1>2. RefundInv'
  BY <1>1 DEF OrderInv, RefundInv
<1> QED BY <1>1, <1>2, TookEvents, WebhookKnown, KnownAbout, OrderStep DEF Inv

(* The row a checkout saves over the one it finds there.                    *)
LEMMA PendingSaved ==
  ASSUME TypeOK, NEW q \in RequestType, NEW s \in Slots
  PROVE  \E known \in RowType :
           /\ known = IF q.known[s].status = "none" THEN row[q.intent][s] ELSE q.known[s]
           /\ Pending(row, q, s).status =
                IF known.status = "PENDING" THEN row[q.intent][s].status ELSE "PENDING"
           /\ Pending(row, q, s).amount =
                IF q.amount = known.amount THEN row[q.intent][s].amount ELSE q.amount
           /\ Pending(row, q, s).ref = row[q.intent][s].ref
<1> DEFINE now == row[q.intent][s]
           known == IF q.known[s].status = "none" THEN now ELSE q.known[s]
           new == [status |-> "PENDING", amount |-> q.amount, ref |-> known.ref, session |-> TRUE]
           W == Pending(row, q, s)
<1>1. now \in RowType /\ known \in RowType
  BY DEF TypeOK, RequestType
<1>2. W = Saved(now, known, new)
  BY DEF Pending
<1>3. W.ref = now.ref
  BY PendingType
<1> SUFFICES /\ W.status = IF known.status = "PENDING" THEN now.status ELSE "PENDING"
             /\ W.amount = IF q.amount = known.amount THEN now.amount ELSE q.amount
  <2> HIDE DEF W, known, now
  <2> QED BY <1>1, <1>3 DEF W, known, now
<1> HIDE DEF now, known
<1>4. DOMAIN now = {"status", "amount", "ref", "session"}
  BY <1>1 DEF RowType
<1>5. W = [c \in {"status", "amount", "ref", "session"} |->
             IF new[c] = known[c] THEN now[c] ELSE new[c]]
  BY <1>2, <1>4 DEF Saved
<1> QED BY <1>5

LEMMA CommitOneInOrder ==
  ASSUME Inv, Inv', OrderInv, NEW r \in Requests, Commit(r),
         NEW q \in RequestType, q = request[r],
         NEW j \in Intents, j = q.intent, NEW s \in Slots, s = q.slot
  PROVE  OrderInv'
<1> DEFINE now == row[j][s]
           w == Pending(row, q, s)
           n == intent[j]
           E == EventsOf(j)
<1>0. TypeOK
  BY DEF Inv
<1>1. /\ row' = IF q.kind = "checkout" THEN WithPending(row, q, s) ELSE row
      /\ strayed' = IF Overwrites(q) THEN strayed \cup {j} ELSE strayed
      /\ intent' = IF q.kind = "checkout" /\ n.state = "made"
                   THEN [intent EXCEPT ![j].state = "open"] ELSE intent
      /\ event' = event /\ Outdate(r) /\ q.pc = "written"
  BY DEF Commit, Written
<1>2. KnownKept
  BY <1>0, <1>1, OutdatedKnown DEF Outdate, Idle
<1>3. CASE q.kind # "checkout"
  <2>1. UNCHANGED <<row, intent, event>> /\ strayed \subseteq strayed'
    BY <1>1, <1>3
  <2> QED BY <2>1, <1>2, KnownAbout, OrderQuiet
<1>4. CASE q.kind = "checkout"
  <2>1. /\ row' = [row EXCEPT ![j][s] = w]
        /\ Overwrites(q) <=> now.status = "SUCCEEDED" /\ w.status = "PENDING"
    BY <1>1, <1>4 DEF WithPending, Overwrites
  <2>2. About(q, j) /\ n.state # "none" /\ q.amount = n.amount
    BY <1>1, <1>4 DEF About, Inv, RequestInv
  <2>3. PICK known \in RowType :
          /\ known = IF q.known[s].status = "none" THEN now ELSE q.known[s]
          /\ w.status = IF known.status = "PENDING" THEN now.status ELSE "PENDING"
          /\ w.amount = IF q.amount = known.amount THEN now.amount ELSE q.amount
          /\ w.ref = now.ref
    BY <1>0, PendingSaved
  <2> HIDE DEF w
  <2>4. /\ row'[j][s] = w
        /\ \A t \in Slots \ {s} : row'[j][t] = row[j][t]
        /\ \A i \in Intents \ {j} : row'[i] = row[i] /\ intent'[i] = intent[i]
    BY <1>0, <1>1, <2>1 DEF TypeOK
  <2>5. /\ intent'[j].state = IF n.state = "made" THEN "open" ELSE n.state
        /\ intent'[j].amount = n.amount /\ intent'[j].refunded = n.refunded
        /\ n \in IntentType
    BY <1>0, <1>1, <1>4 DEF TypeOK, IntentType
  <2>6. EventsOf(j)' = E /\ \A i \in Intents : EventsOf(i)' = EventsOf(i)
    BY <1>1 DEF EventsOf
  <2>7. w.status \in {"PENDING", now.status}
    BY <2>3
  <2>8. RefundInv'
    <3>1. \A i \in Intents : intent'[i] = intent[i] \/
            /\ i = j /\ intent'[i].amount = intent[i].amount
            /\ intent'[i].refunded = intent[i].refunded
            /\ intent[i].state # "none" /\ intent'[i].state # "none"
            /\ intent[i].state = "paid" <=> intent'[i].state = "paid"
      BY <2>2, <2>4, <2>5
    <3>3. \A e \in event : /\ e.intent \in Intents
                           /\ intent'[e.intent].refunded = intent[e.intent].refunded
      BY <1>0, <3>1 DEF TypeOK, EventType
    <3>4. \A i \in Intents :
            /\ intent'[i].state # "paid" => intent'[i].refunded = 0
            /\ intent'[i].state # "none" => intent'[i].amount > 0
            /\ intent'[i].state = "none" => \A t \in Slots : row'[i][t].status = "none"
      <4> TAKE i \in Intents
      <4>1. /\ intent[i].state # "paid" => intent[i].refunded = 0
            /\ intent[i].state # "none" => intent[i].amount > 0
            /\ intent[i].state = "none" => \A t \in Slots : row[i][t].status = "none"
        BY DEF OrderInv, RefundInv
      <4>2. CASE i = j
        BY <4>1, <4>2, <2>2, <2>5
      <4>3. CASE i # j
        BY <4>1, <4>3, <2>4
      <4> QED BY <4>2, <4>3
    <3> QED BY <1>1, <3>3, <3>4 DEF OrderInv, RefundInv
  <2>9. SUFFICES ASSUME j \notin strayed, ~Overwrites(q)
                 PROVE  /\ InOrder(row'[j], intent'[j], E)
                        /\ \A t \in Slots : Whole(row'[j][t], intent'[j], E)
                        /\ \A t \in Slots : row[j][t].status # "none" => row'[j][t].status # "none"
                        /\ Over(n, E) => Over(intent'[j], E)
    <3>1. /\ strayed \subseteq strayed'
          /\ j \in strayed \/ Overwrites(q) => j \in strayed'
      BY <1>1
    <3>2. \A i \in Intents \ {j} :
            row'[i] = row[i] /\ intent'[i] = intent[i] /\ EventsOf(i)' = EventsOf(i)
      BY <2>4, <2>6
    <3>3. \A p \in Requests, i \in Intents : About(request'[p], i) =>
            \/ About(request[p], i) /\ request'[p].known = request[p].known
            \/ request'[p].known = row'[i]
      BY <1>2, KnownAbout
    <3>4. j \in strayed' \/
            /\ InOrder(row'[j], intent'[j], E)
            /\ \A t \in Slots : Whole(row'[j][t], intent'[j], E)
            /\ \A t \in Slots : row[j][t].status # "none" => row'[j][t].status # "none"
            /\ Over(n, E) => Over(intent'[j], E)
      BY <2>9, <3>1
    <3> QED BY <1>0, <2>5, <2>6, <2>8, <3>1, <3>2, <3>3, <3>4, OrderStep
  <2>10. Orderly(j)
    BY <1>0, <2>9 DEF OrderInv
  <2>11. /\ \A t \in Slots : Whole(row[j][t], n, E)
         /\ Copied(q.known[s], now, n, E)
    BY <1>0, <2>2, <2>10 DEF Orderly
  <2>12. PICK u \in 0 .. n.refunded :
        /\ RefundedUpTo(n, E, u)
        /\ (u = 0 /\ Unpaid(row[j], n, E)) \/ Recorded(row[j], n, E, u)
    BY <2>10 DEF Orderly, InOrder
  <2>13. n.refunded <= n.amount /\ n.amount \in Nat /\ n.refunded \in Nat
    BY <1>0, <2>5 DEF Inv, IntentInv, IntentType
  <2>14. Over(n, E) => Over(intent'[j], E)
    BY <2>5 DEF Over
  <2>15. Whole(w, n, E)
    <3>1. CASE now.status \in {"PENDING", "FAILED"}
      BY <2>2, <2>3, <2>11, <1>0, <3>1 DEF Whole
    <3>2. CASE now.status = "none"
      BY <2>2, <2>3, <2>11, <3>2 DEF Copied, Whole
    <3>3. CASE now.status = "SUCCEEDED"
      BY <2>1, <2>7, <2>9, <3>3 DEF Whole
    <3> QED BY <1>0, <3>1, <3>2, <3>3 DEF TypeOK, RowType, RowStatuses
  <2>16. RefundedUpTo(intent'[j], E, u) /\ u \in 0 .. intent'[j].refunded
    BY <2>5, <2>12 DEF RefundedUpTo
  <2>19. \A t \in Slots : /\ Whole(row'[j][t], intent'[j], E)
                          /\ row[j][t].status # "none" => row'[j][t].status # "none"
    <3> TAKE t \in Slots
    <3>1. CASE t = s
      BY <2>4, <2>5, <2>7, <2>14, <2>15, <3>1 DEF Whole
    <3>2. CASE t # s
      BY <2>4, <2>5, <2>11, <2>14, <3>2 DEF Whole
    <3> QED BY <3>1, <3>2
  <2>17. CASE u = 0 /\ Unpaid(row[j], n, E)
    <3>1. Unpaid(row'[j], intent'[j], E)
      BY <2>4, <2>5, <2>7, <2>17 DEF Unpaid
    <3> QED BY <2>14, <2>16, <2>17, <2>19, <3>1 DEF InOrder
  <2>18. CASE Recorded(row[j], n, E, u)
    <3>1. PICK t \in Slots :
            /\ row[j][t].ref
            /\ u < n.amount => row[j][t].status = "SUCCEEDED" /\ row[j][t].amount = n.amount - u
            /\ u = n.amount => row[j][t].status # "SUCCEEDED"
      BY <2>18 DEF Recorded
    <3>2. ASSUME t = s, u < n.amount
          PROVE  w.status = "SUCCEEDED" /\ w.amount = n.amount - u
      <4>1. w.status = "SUCCEEDED" /\ known.status = "PENDING" /\ known = q.known[s]
        BY <2>1, <2>3, <2>7, <2>9, <3>1, <3>2
      <4>2. ~Over(n, E)
        BY <2>12, <3>2 DEF Over, RefundedUpTo
      <4>3. known.amount = n.amount
        BY <2>11, <4>1, <4>2 DEF Copied, Whole
      <4> QED BY <2>2, <2>3, <3>1, <3>2, <4>1, <4>3
    <3>3. ASSUME t = s, u = n.amount PROVE w.status # "SUCCEEDED"
      BY <2>7, <3>1, <3>3
    <3>4. /\ row'[j][t].ref
          /\ u < n.amount => row'[j][t].status = "SUCCEEDED" /\ row'[j][t].amount = n.amount - u
          /\ u = n.amount => row'[j][t].status # "SUCCEEDED"
      <4>1. CASE t = s
        <5>1. row'[j][t] = w /\ w.ref
          BY <2>3, <2>4, <3>1, <4>1
        <5> QED BY <3>2, <3>3, <4>1, <5>1
      <4>2. CASE t # s
        BY <2>4, <3>1, <4>2
      <4> QED BY <4>1, <4>2
    <3>5. Recorded(row'[j], intent'[j], E, u)
      BY <2>5, <2>18, <3>4 DEF Recorded
    <3>6. InOrder(row'[j], intent'[j], E)
      <4> HIDE DEF E
      <4> QED BY <2>16, <3>5, Zenon DEF InOrder
    <3> QED BY <2>14, <2>19, <3>6
  <2> QED BY <2>12, <2>17, <2>18
<1> QED BY <1>3, <1>4

LEMMA CommitInOrder ==
  ASSUME Inv, Inv', OrderInv, NEW r \in Requests, Commit(r)
  PROVE  OrderInv'
<1>1. request[r] \in RequestType
  BY DEF Inv, TypeOK
<1> QED BY <1>1, CommitOneInOrder DEF RequestType

(* A webhook that applies an event of intent i.                             *)
LEMMA WebhookStep ==
  ASSUME Inv, Inv', OrderInv, NEW e \in event, event' = event \ {e}, UNCHANGED intent, KnownKept,
         NEW i \in Intents, i = e.intent, Stray(i, Overtakes(e)),
         \A j \in Intents \ {i} : row'[j] = row[j],
         i \in strayed \/ Overtakes(e) \/
           /\ InOrder(row'[i], intent[i], EventsOf(i) \ {e})
           /\ \A s \in Slots : Whole(row'[i][s], intent[i], EventsOf(i) \ {e})
           /\ \A s \in Slots : row[i][s].status # "none" => row'[i][s].status # "none"
  PROVE  OrderInv'
<1>1. /\ strayed \subseteq strayed'
      /\ i \in strayed \/ Overtakes(e) => i \in strayed'
  BY DEF Stray
<1>2. /\ EventsOf(i)' = EventsOf(i) \ {e} /\ e \in EventsOf(i)
      /\ \A j \in Intents \ {i} : EventsOf(j)' = EventsOf(j)
  BY TookEvents DEF Inv
<1>3. intent[i].state # "none"
  BY DEF Inv, EventInv
<1>4. RefundInv'
  BY <1>3 DEF OrderInv, RefundInv
<1>5. ~Over(intent[i], EventsOf(i))
  BY <1>2 DEF Over
<1>6. \A j \in Intents \ {i} :
        row'[j] = row[j] /\ intent'[j] = intent[j] /\ EventsOf(j)' = EventsOf(j)
  BY <1>2
<1>7. \A p \in Requests, j \in Intents : About(request'[p], j) =>
        \/ About(request[p], j) /\ request'[p].known = request[p].known
        \/ request'[p].known = row'[j]
  BY KnownAbout
<1>8. i \in strayed' \/
        /\ InOrder(row'[i], intent'[i], EventsOf(i)')
        /\ \A s \in Slots : Whole(row'[i][s], intent'[i], EventsOf(i)')
        /\ \A s \in Slots : row[i][s].status # "none" => row'[i][s].status # "none"
        /\ intent[i].state # "none" =>
             /\ intent'[i].amount = intent[i].amount
             /\ Over(intent[i], EventsOf(i)) => Over(intent'[i], EventsOf(i)')
  BY <1>1, <1>2, <1>5
<1> QED BY <1>1, <1>4, <1>6, <1>7, <1>8, OrderStep

LEMMA InTurn ==
  ASSUME TypeOK, NEW e \in event, ~Overtakes(e), NEW d \in EventsOf(e.intent)
  PROVE  /\ e.kind \in PaidKinds => d.kind # "failed"
         /\ e.kind = "refunded" /\ e.refunded > 0 => d.kind = "refunded" /\ d.refunded >= e.refunded
<1>1. d \in event /\ d.intent = e.intent /\ ~(Rank(d) < Rank(e))
  BY DEF EventsOf, Overtakes
<1>2. d \in EventType /\ e \in EventType
  BY <1>1 DEF TypeOK
<1>3. /\ e.kind \in {"failed", "completed", "succeeded", "refunded"} /\ e.refunded \in Nat
      /\ d.kind \in {"failed", "completed", "succeeded", "refunded"} /\ d.refunded \in Nat
  BY <1>2 DEF EventType
<1>4. \A x : /\ x.kind = "failed" => Rank(x) = 0
             /\ x.kind \in PaidKinds => Rank(x) = 1
             /\ x.kind = "refunded" => Rank(x) = 1 + x.refunded
  BY DEF Rank, PaidKinds
<1> QED BY <1>1, <1>3, <1>4 DEF PaidKinds

LEMMA RecordInOrder ==
  ASSUME Inv, Inv', OrderInv, NEW e \in event, NEW i \in Intents, i = e.intent,
         NEW st, Took(e), Record(e, st), KnownKept,
         \/ st = "SUCCEEDED" /\ e.kind \in PaidKinds
         \/ st = "FAILED" /\ e.kind = "failed"
  PROVE  OrderInv'
<1> DEFINE n == intent[i]
           E == EventsOf(i)
           F == E \ {e}
<1>0. TypeOK /\ n \in IntentType /\ e \in E
  BY DEF Inv, TypeOK, EventsOf
<1>1. /\ event' = event \ {e} /\ UNCHANGED intent /\ Stray(i, Overtakes(e))
  BY DEF Took, Record
<1>2. PICK s \in IF Matches(e) = {} THEN NewSlots(i) ELSE Matches(e) :
        row' = [row EXCEPT ![i][s] =
          [status |-> st, amount |-> n.amount, ref |-> TRUE,
           session |-> row[i][s].session \/ e.kind = "completed"]]
  BY DEF Record
<1>3. s \in Slots
  BY <1>2, NewSlotsTyped DEF Matches, WithRef, WithSession
<1>4. /\ row'[i][s].status = st /\ row'[i][s].amount = n.amount /\ row'[i][s].ref
      /\ \A t \in Slots \ {s} : row'[i][t] = row[i][t]
      /\ \A j \in Intents \ {i} : row'[j] = row[j]
  BY <1>0, <1>2, <1>3 DEF TypeOK
<1>5. SUFFICES ASSUME i \notin strayed, ~Overtakes(e)
               PROVE  InOrder(row'[i], n, F) /\ \A t \in Slots : Whole(row'[i][t], n, F)
  <2>1. \A t \in Slots : row[i][t].status # "none" => row'[i][t].status # "none"
    BY <1>4
  <2> QED BY <1>1, <1>4, <1>5, <2>1, WebhookStep
<1>6. Orderly(i)
  BY <1>5 DEF OrderInv
<1>7. \A t \in Slots : Whole(row'[i][t], n, F)
  <2> TAKE t \in Slots
  <2>1. Whole(row[i][t], n, E) /\ ~Over(n, E)
    BY <1>0, <1>6 DEF Orderly, Over
  <2> QED BY <1>4, <2>1 DEF Whole
<1>8. PICK u \in 0 .. n.refunded : /\ RefundedUpTo(n, E, u)
                                   /\ (u = 0 /\ Unpaid(row[i], n, E)) \/ Recorded(row[i], n, E, u)
  BY <1>6 DEF Orderly, InOrder
<1>9. n.refunded \in Nat /\ n.amount \in Nat
  BY <1>0 DEF IntentType
<1>10. RefundedUpTo(n, F, u)
  BY <1>8 DEF RefundedUpTo, PaidKinds
<1>11. CASE st = "SUCCEEDED" /\ e.kind \in PaidKinds
  <2>1. n.state = "paid" /\ n.amount > 0
    BY <1>11 DEF Inv, EventInv, OrderInv, RefundInv, PaidKinds
  <2>2. u = 0
    BY <1>0, <1>8, <1>11 DEF Recorded
  <2>3. \A d \in F : d.kind # "failed"
    BY <1>0, <1>5, <1>11, InTurn
  <2>4. Recorded(row'[i], n, F, 0)
    BY <1>3, <1>4, <1>9, <1>11, <2>1, <2>3 DEF Recorded
  <2>5. InOrder(row'[i], n, F)
    BY <1>8, <1>9, <1>10, <2>2, <2>4 DEF InOrder
  <2> QED BY <1>7, <2>5
<1>12. CASE st = "FAILED" /\ e.kind = "failed"
  <2>1. u = 0 /\ Unpaid(row[i], n, E)
    BY <1>0, <1>8, <1>12 DEF Recorded
  <2>2. Unpaid(row'[i], n, F)
    <3>1. \A t \in Slots : row'[i][t].status # "SUCCEEDED"
      BY <1>4, <1>12, <2>1 DEF Unpaid
    <3>2. ASSUME n.state = "paid", NEW k \in PaidKinds PROVE \E d \in F : d.kind = k
      BY <1>12, <2>1, <3>2 DEF Unpaid, PaidKinds
    <3> QED BY <3>1, <3>2 DEF Unpaid
  <2>3. InOrder(row'[i], n, F)
    BY <1>8, <1>9, <1>10, <2>1, <2>2 DEF InOrder
  <2> QED BY <1>7, <2>3
<1> QED BY <1>11, <1>12

LEMMA PaymentEventInOrder ==
  ASSUME Inv, Inv', OrderInv, NEW e \in event, PaymentEvent(e)
  PROVE  OrderInv'
<1>1. e.intent \in Intents
  BY DEF Inv, TypeOK, EventType
<1> QED BY <1>1, RecordInOrder, WebhookKnown DEF PaymentEvent, PaidKinds

LEMMA RefundedOneInOrder ==
  ASSUME Inv, Inv', OrderInv, NEW e \in event, Refunded(e), NEW i \in Intents, i = e.intent
  PROVE  OrderInv'
<1> DEFINE n == intent[i]
           E == EventsOf(i)
           F == E \ {e}
           total == e.refunded
           new(s) == [row[i][s] EXCEPT !.amount = Net(n.amount, @, total),
                                       !.status = IF total >= n.amount THEN "FAILED" ELSE @]
<1>0. TypeOK /\ n \in IntentType /\ e \in E /\ e \in EventType
  BY DEF Inv, TypeOK, EventsOf
<1>1. /\ event' = event \ {e} /\ UNCHANGED intent /\ Stray(i, Overtakes(e)) /\ e.kind = "refunded"
      /\ row' = [row EXCEPT ![i] = [s \in Slots |->
                   IF ~row[i][s].ref THEN row[i][s] ELSE new(s)]]
  BY DEF Refunded, Took
<1>2. \A s \in Slots : row[i][s] \in RowType
  BY <1>0 DEF TypeOK
<1>3. \A s \in Slots :
        /\ new(s).ref = row[i][s].ref /\ new(s).amount = n.amount - total
        /\ new(s).status = IF total >= n.amount THEN "FAILED" ELSE row[i][s].status
  BY <1>2 DEF Net, RowType
<1>4. /\ \A j \in Intents \ {i} : row'[j] = row[j]
      /\ \A s \in Slots : row'[i][s] = IF ~row[i][s].ref THEN row[i][s] ELSE new(s)
  BY <1>0, <1>1 DEF TypeOK
<1> HIDE DEF new
<1>5. SUFFICES ASSUME i \notin strayed, ~Overtakes(e)
               PROVE  InOrder(row'[i], n, F) /\ \A t \in Slots : Whole(row'[i][t], n, F)
  <2>1. \A t \in Slots : row[i][t].status # "none" => row'[i][t].status # "none"
    BY <1>3, <1>4
  <2> QED BY <1>1, <1>4, <1>5, <2>1, WebhookStep, WebhookKnown
<1>6. Orderly(i)
  BY <1>5 DEF OrderInv
<1>7. PICK u \in 0 .. n.refunded : /\ RefundedUpTo(n, E, u)
                                   /\ (u = 0 /\ Unpaid(row[i], n, E)) \/ Recorded(row[i], n, E, u)
  BY <1>6 DEF Orderly, InOrder
<1>8. /\ n.refunded \in Nat /\ n.amount \in Nat /\ n.refunded <= n.amount
      /\ total \in Nat /\ total > u /\ total <= n.refunded
  BY <1>0, <1>1, <1>7 DEF IntentType, EventType, Inv, IntentInv, RefundedUpTo, OrderInv, RefundInv
<1>9. \A d \in E : d.kind = "refunded" /\ d.refunded >= total
  BY <1>0, <1>1, <1>5, <1>8, InTurn
<1>10. \A d \in F : d.refunded > total /\ d.refunded <= n.refunded
  <2> TAKE d \in F
  <2>1. d \in event /\ d.intent = i /\ d \in EventType /\ d # e
    BY <1>0 DEF EventsOf, TypeOK
  <2>2. d.refunded # total /\ d.refunded <= n.refunded
    BY <1>1, <1>9, <2>1 DEF OrderInv, RefundInv
  <2> QED BY <1>8, <1>9, <2>1, <2>2 DEF EventType
<1>11. Recorded(row[i], n, E, u)
  <2>1. n.state = "paid"
    BY <1>1 DEF Inv, EventInv
  <2> QED BY <1>7, <1>9, <2>1 DEF Unpaid, PaidKinds
<1>12. RefundedUpTo(n, F, total)
  <2>1. total = n.refunded \/ \E d \in F : d.kind = "refunded" /\ d.refunded = n.refunded
    BY <1>7, <1>8 DEF RefundedUpTo
  <2> QED BY <1>10, <2>1 DEF RefundedUpTo
<1>13. PICK t \in Slots : row[i][t].ref /\ (u < n.amount => row[i][t].status = "SUCCEEDED")
  BY <1>11 DEF Recorded
<1>14. /\ row'[i][t].ref /\ row'[i][t].amount = n.amount - total
       /\ row'[i][t].status = IF total >= n.amount THEN "FAILED" ELSE "SUCCEEDED"
  BY <1>3, <1>4, <1>7, <1>8, <1>13
<1>15. Recorded(row'[i], n, F, total)
  BY <1>8, <1>9, <1>11, <1>13, <1>14 DEF Recorded, PaidKinds
<1>16. InOrder(row'[i], n, F)
  BY <1>8, <1>12, <1>15 DEF InOrder
<1>17. \A s \in Slots : Whole(row'[i][s], n, F)
  <2> TAKE s \in Slots
  <2>1. CASE s = t
    <3>1. CASE total < n.amount
      BY <1>8, <1>14, <2>1, <3>1 DEF Whole
    <3>2. CASE total = n.amount
      <4>1. F = {}
        <5> SUFFICES ASSUME NEW d \in F PROVE FALSE
          OBVIOUS
        <5>1. d \in EventType
          BY <1>0 DEF EventsOf, TypeOK
        <5> QED BY <1>8, <1>10, <3>2, <5>1 DEF EventType
      <4>2. Over(n, F)
        BY <1>8, <1>11, <3>2, <4>1 DEF Over, Recorded
      <4> QED BY <4>2 DEF Whole
    <3> QED BY <1>8, <3>1, <3>2
  <2>2. CASE s # t
    <3>1. row'[i][s] = row[i][s]
      BY <1>4, <1>13, <2>2 DEF Inv, RefInv
    <3>2. Whole(row[i][s], n, E) /\ ~Over(n, E)
      BY <1>0, <1>6 DEF Orderly, Over
    <3> QED BY <3>1, <3>2 DEF Whole
  <2> QED BY <2>1, <2>2
<1> QED BY <1>16, <1>17

LEMMA RefundedInOrder ==
  ASSUME Inv, Inv', OrderInv, NEW e \in event, Refunded(e)
  PROVE  OrderInv'
<1>1. e.intent \in Intents
  BY DEF Inv, TypeOK, EventType
<1> QED BY <1>1, RefundedOneInOrder

(* A step of Stripe or the customer about intent i, of which d is new.      *)
LEMMA StripeStep ==
  ASSUME Inv, Inv', OrderInv, UNCHANGED <<row, request, strayed>>, NEW i \in Intents,
         NEW D, event' = event \cup D, \A d \in D : d.intent = i,
         \A j \in Intents \ {i} : intent'[j] = intent[j],
         intent[i].state # "none", intent'[i].state # "none",
         intent'[i].amount = intent[i].amount, intent'[i].refunded >= intent[i].refunded,
         intent'[i].state # "paid" => intent'[i].refunded = 0,
         ~Over(intent[i], EventsOf(i)),
         \A d \in D : d.refunded <= intent'[i].refunded,
         \A d \in D, e \in event \cup D :
           d.kind = "refunded" /\ e.kind = "refunded" /\ e.refunded = d.refunded
             => d = e \/ e.intent # i,
         Orderly(i) => InOrder(row[i], intent'[i], EventsOf(i) \cup D)
  PROVE  OrderInv'
<1>1. /\ EventsOf(i)' = EventsOf(i) \cup D
      /\ \A j \in Intents \ {i} : EventsOf(j)' = EventsOf(j)
  BY DEF EventsOf
<1>2. RefundInv'
  <2>1. \A e \in event : e.refunded <= intent'[e.intent].refunded
    <3> TAKE e \in event
    <3>1. e.intent \in Intents /\ e.refunded \in Nat /\ intent[i].refunded \in Nat
          /\ intent'[i].refunded \in Nat
      BY DEF Inv, TypeOK, EventType, IntentType
    <3>2. e.refunded <= intent[e.intent].refunded
      BY DEF OrderInv, RefundInv
    <3>3. CASE e.intent = i
      BY <3>1, <3>2, <3>3
    <3>4. CASE e.intent # i
      BY <3>1, <3>2, <3>4
    <3> QED BY <3>3, <3>4
  <2>2. \A d, e \in event' : d.kind = "refunded" /\ e.kind = "refunded" /\ d.intent = e.intent
                               /\ d.refunded = e.refunded => d = e
    BY DEF OrderInv, RefundInv
  <2>3. \A j \in Intents :
          /\ intent'[j].state # "paid" => intent'[j].refunded = 0
          /\ intent'[j].state # "none" => intent'[j].amount > 0
          /\ intent'[j].state = "none" => \A s \in Slots : row'[j][s].status = "none"
    <3> TAKE j \in Intents
    <3>1. CASE j = i
      BY <3>1 DEF OrderInv, RefundInv
    <3>2. CASE j # i
      BY <3>2 DEF OrderInv, RefundInv
    <3> QED BY <3>1, <3>2
  <2>4. \A e \in event' : e.refunded <= intent'[e.intent].refunded
    BY <2>1
  <2> QED BY <2>2, <2>3, <2>4 DEF RefundInv
<1>3. i \in strayed' \/
        /\ InOrder(row'[i], intent'[i], EventsOf(i)')
        /\ \A s \in Slots : Whole(row'[i][s], intent'[i], EventsOf(i)')
        /\ \A s \in Slots : row[i][s].status # "none" => row'[i][s].status # "none"
        /\ intent[i].state # "none" =>
             /\ intent'[i].amount = intent[i].amount
             /\ Over(intent[i], EventsOf(i)) => Over(intent'[i], EventsOf(i)')
  <2> SUFFICES ASSUME i \notin strayed
               PROVE  /\ InOrder(row'[i], intent'[i], EventsOf(i)')
                      /\ \A s \in Slots : Whole(row'[i][s], intent'[i], EventsOf(i)')
    OBVIOUS
  <2>1. Orderly(i)
    BY DEF OrderInv
  <2>2. InOrder(row'[i], intent'[i], EventsOf(i)')
    BY <1>1, <2>1
  <2>3. \A s \in Slots : Whole(row[i][s], intent[i], EventsOf(i))
    BY <2>1 DEF Orderly
  <2> QED BY <2>2, <2>3 DEF Whole
<1>4. \A p \in Requests, j \in Intents : About(request'[p], j) =>
        \/ About(request[p], j) /\ request'[p].known = request[p].known
        \/ request'[p].known = row'[j]
  OBVIOUS
<1>5. \A j \in Intents \ {i} :
        row'[j] = row[j] /\ intent'[j] = intent[j] /\ EventsOf(j)' = EventsOf(j)
  BY <1>1
<1>6. strayed \subseteq strayed'
  OBVIOUS
<1> QED BY <1>2, <1>3, <1>4, <1>5, <1>6, OrderStep

(* An intent that is not paid has nothing recorded and nothing refunded.    *)
LEMMA NotYetPaid ==
  ASSUME Inv, OrderInv, NEW i \in Intents, intent[i].state # "paid"
  PROVE  /\ intent[i].refunded = 0
         /\ Orderly(i) => /\ RefundedUpTo(intent[i], EventsOf(i), 0)
                          /\ \A s \in Slots : row[i][s].status # "SUCCEEDED"
<1>1. intent[i].refunded = 0
  BY DEF OrderInv, RefundInv
<1>2. ASSUME Orderly(i)
      PROVE  RefundedUpTo(intent[i], EventsOf(i), 0) /\ Unpaid(row[i], intent[i], EventsOf(i))
  <2>1. PICK u \in 0 .. 0 : /\ RefundedUpTo(intent[i], EventsOf(i), u)
                            /\ \/ u = 0 /\ Unpaid(row[i], intent[i], EventsOf(i))
                               \/ Recorded(row[i], intent[i], EventsOf(i), u)
    BY <1>1, <1>2 DEF Orderly, InOrder
  <2> QED BY <2>1 DEF Recorded
<1> QED BY <1>1, <1>2 DEF Unpaid

LEMMA DeclineInOrder ==
  ASSUME Inv, Inv', OrderInv, NEW i \in Intents, Decline(i)
  PROVE  OrderInv'
<1> DEFINE n == intent[i]
           E == EventsOf(i)
           d == Event("failed", i, 0, FALSE)
<1>1. /\ intent' = [intent EXCEPT ![i].state = "retry"] /\ event' = event \cup {d}
      /\ UNCHANGED <<row, request, strayed>> /\ n.state = "open"
  BY DEF Decline
<1>2. d.intent = i /\ d.kind = "failed" /\ d.refunded = 0
  BY DEF Event
<1> HIDE DEF d
<1>3. /\ \A j \in Intents \ {i} : intent'[j] = intent[j]
      /\ intent'[i].state = "retry" /\ intent'[i].amount = n.amount
      /\ intent'[i].refunded = n.refunded /\ n.refunded \in Nat
  BY <1>1 DEF Inv, TypeOK, IntentType
<1>4. n.refunded = 0 /\ ~Over(n, E)
  BY <1>1, NotYetPaid DEF Over
<1>5. ASSUME Orderly(i) PROVE InOrder(row[i], intent'[i], E \cup {d})
  <2>1. RefundedUpTo(n, E, 0) /\ \A s \in Slots : row[i][s].status # "SUCCEEDED"
    BY <1>1, <1>5, NotYetPaid
  <2>2. RefundedUpTo(intent'[i], E \cup {d}, 0) /\ Unpaid(row[i], intent'[i], E \cup {d})
    BY <1>2, <1>3, <1>4, <2>1 DEF RefundedUpTo, Unpaid
  <2> QED BY <1>3, <1>4, <2>2 DEF InOrder
<1>6. /\ n.state # "none" /\ intent'[i].state # "none"
      /\ intent'[i].refunded >= n.refunded
      /\ intent'[i].state # "paid" => intent'[i].refunded = 0
  BY <1>1, <1>3, <1>4
<1> DEFINE D == {d}
<1>7. /\ event' = event \cup D /\ \A x \in D : x.intent = i
      /\ \A x \in D : x.refunded <= intent'[i].refunded
      /\ \A x \in D, e \in event \cup D :
           x.kind = "refunded" /\ e.kind = "refunded" /\ e.refunded = x.refunded
             => x = e \/ e.intent # i
      /\ Orderly(i) => InOrder(row[i], intent'[i], E \cup D)
  BY <1>1, <1>2, <1>3, <1>4, <1>5
<1> HIDE DEF D
<1> QED BY <1>1, <1>3, <1>4, <1>6, <1>7, StripeStep

LEMMA PayInOrder ==
  ASSUME Inv, Inv', OrderInv, NEW i \in Intents, Pay(i)
  PROVE  OrderInv'
<1> DEFINE n == intent[i]
           E == EventsOf(i)
           D == {Event(k, i, 0, FALSE) : k \in PaidKinds}
<1>1. /\ intent' = [intent EXCEPT ![i].state = "paid"] /\ event' = event \cup D
      /\ UNCHANGED <<row, request, strayed>> /\ n.state \in {"open", "retry"}
  BY DEF Pay, PaidKinds
<1>2. /\ \A d \in D : d.intent = i /\ d.kind \in PaidKinds /\ d.refunded = 0
      /\ \A k \in PaidKinds : \E d \in D : d.kind = k
  <2>1. \A k \in PaidKinds : /\ Event(k, i, 0, FALSE).intent = i
                             /\ Event(k, i, 0, FALSE).kind = k
                             /\ Event(k, i, 0, FALSE).refunded = 0
    BY DEF Event
  <2>2. ASSUME NEW d \in D PROVE d.intent = i /\ d.kind \in PaidKinds /\ d.refunded = 0
    <3>1. PICK k \in PaidKinds : d = Event(k, i, 0, FALSE)
      OBVIOUS
    <3> QED BY <2>1, <3>1
  <2>3. ASSUME NEW k \in PaidKinds PROVE \E d \in D : d.kind = k
    <3>1. Event(k, i, 0, FALSE) \in D
      OBVIOUS
    <3> HIDE DEF D
    <3> QED BY <2>1, <3>1
  <2> QED BY <2>2, <2>3
<1> HIDE DEF D
<1>3. /\ \A j \in Intents \ {i} : intent'[j] = intent[j]
      /\ intent'[i].state = "paid" /\ intent'[i].amount = n.amount
      /\ intent'[i].refunded = n.refunded /\ n.refunded \in Nat
  BY <1>1 DEF Inv, TypeOK, IntentType
<1>4. n.refunded = 0 /\ ~Over(n, E)
  BY <1>1, NotYetPaid DEF Over
<1>5. ASSUME Orderly(i) PROVE InOrder(row[i], intent'[i], E \cup D)
  <2>1. RefundedUpTo(n, E, 0) /\ \A s \in Slots : row[i][s].status # "SUCCEEDED"
    BY <1>1, <1>5, NotYetPaid
  <2>2. RefundedUpTo(intent'[i], E \cup D, 0) /\ Unpaid(row[i], intent'[i], E \cup D)
    BY <1>2, <1>3, <1>4, <2>1 DEF RefundedUpTo, Unpaid, PaidKinds
  <2> QED BY <1>3, <1>4, <2>2 DEF InOrder
<1>6. /\ n.state # "none" /\ intent'[i].state # "none"
      /\ intent'[i].refunded >= n.refunded
      /\ intent'[i].state # "paid" => intent'[i].refunded = 0
  BY <1>1, <1>3, <1>4
<1>7. /\ \A x \in D : x.intent = i
      /\ \A x \in D : x.refunded <= intent'[i].refunded
      /\ \A x \in D, e \in event \cup D :
           x.kind = "refunded" /\ e.kind = "refunded" /\ e.refunded = x.refunded
             => x = e \/ e.intent # i
      /\ Orderly(i) => InOrder(row[i], intent'[i], E \cup D)
  BY <1>1, <1>2, <1>3, <1>4, <1>5 DEF PaidKinds
<1> QED BY <1>1, <1>3, <1>4, <1>6, <1>7, StripeStep

LEMMA RefundInOrder ==
  ASSUME Inv, Inv', OrderInv, NEW i \in Intents, NEW a \in 1 .. Total, NEW named \in ChargeNames,
         Refund(i, a, named)
  PROVE  OrderInv'
<1> DEFINE n == intent[i]
           E == EventsOf(i)
           total == n.refunded + a
           d == Event("refunded", i, total, named)
<1>1. /\ intent' = [intent EXCEPT ![i].refunded = total] /\ event' = event \cup {d}
      /\ UNCHANGED <<row, request, strayed>> /\ n.state = "paid" /\ total <= n.amount
  BY DEF Refund
<1>2. d.intent = i /\ d.kind = "refunded" /\ d.refunded = total
  BY DEF Event
<1> HIDE DEF d
<1>3. n.refunded \in Nat /\ a \in Nat /\ a > 0 /\ total > n.refunded /\ n.amount \in Nat
  BY InvoiceAssumption DEF Inv, TypeOK, IntentType
<1> HIDE DEF total
<1>4. /\ \A j \in Intents \ {i} : intent'[j] = intent[j]
      /\ intent'[i].state = "paid" /\ intent'[i].amount = n.amount
      /\ intent'[i].refunded = total /\ total \in Nat
  BY <1>1, <1>3 DEF Inv, TypeOK, IntentType, total
<1>5. ~Over(n, E)
  BY <1>1, <1>3, <1>4 DEF Over
<1>6. \A e \in event : e.intent = i => e.refunded <= n.refunded /\ e.refunded \in Nat
  BY DEF OrderInv, RefundInv, Inv, TypeOK, EventType
<1>7. \A e \in event \cup {d} : e.refunded = d.refunded => d = e \/ e.intent # i
  BY <1>2, <1>3, <1>4, <1>6
<1>8. ASSUME Orderly(i) PROVE InOrder(row[i], intent'[i], E \cup {d})
  <2>1. PICK u \in 0 .. n.refunded :
        /\ RefundedUpTo(n, E, u)
        /\ (u = 0 /\ Unpaid(row[i], n, E)) \/ Recorded(row[i], n, E, u)
    BY <1>8 DEF Orderly, InOrder
  <2>2. u \in 0 .. total /\ total > u
    BY <1>3, <1>4, <2>1
  <2>3. RefundedUpTo(intent'[i], E \cup {d}, u)
    BY <1>2, <1>4, <2>1, <2>2 DEF RefundedUpTo
  <2>4. Unpaid(row[i], n, E) => Unpaid(row[i], intent'[i], E \cup {d})
    BY <1>1 DEF Unpaid
  <2>5. Recorded(row[i], n, E, u) => Recorded(row[i], intent'[i], E \cup {d}, u)
    BY <1>2, <1>4 DEF Recorded, PaidKinds
  <2> QED BY <1>4, <2>1, <2>2, <2>3, <2>4, <2>5 DEF InOrder
<1>9. /\ n.state # "none" /\ intent'[i].state # "none"
      /\ intent'[i].refunded >= n.refunded
      /\ intent'[i].state # "paid" => intent'[i].refunded = 0
  BY <1>1, <1>3, <1>4
<1> DEFINE D == {d}
<1>10. /\ event' = event \cup D /\ \A x \in D : x.intent = i
       /\ \A x \in D : x.refunded <= intent'[i].refunded
       /\ \A x \in D, e \in event \cup D :
            x.kind = "refunded" /\ e.kind = "refunded" /\ e.refunded = x.refunded
              => x = e \/ e.intent # i
       /\ Orderly(i) => InOrder(row[i], intent'[i], E \cup D)
  BY <1>1, <1>2, <1>4, <1>7, <1>8
<1> HIDE DEF D
<1> QED BY <1>1, <1>4, <1>5, <1>9, <1>10, StripeStep

-----------------------------------------------------------------------------
(* The invariant of the order.                                              *)

LEMMA InitOrder == Init => OrderInv
<1> SUFFICES ASSUME Init PROVE OrderInv
  OBVIOUS
<1>1. \A i \in Intents : /\ intent[i].state = "none" /\ intent[i].refunded = 0
                         /\ EventsOf(i) = {}
                         /\ \A s \in Slots : row[i][s].status = "none"
  BY DEF Init, EventsOf, NoRows, NoRow
<1>2. RefundInv
  BY <1>1 DEF Init, RefundInv
<1>3. ASSUME NEW i \in Intents PROVE Orderly(i)
  <2>1. InOrder(row[i], intent[i], EventsOf(i))
    <3>1. RefundedUpTo(intent[i], EventsOf(i), 0) /\ Unpaid(row[i], intent[i], EventsOf(i))
      BY <1>1 DEF RefundedUpTo, Unpaid
    <3> QED BY <1>1, <3>1 DEF InOrder
  <2>2. \A s \in Slots : Whole(row[i][s], intent[i], EventsOf(i))
    BY <1>1 DEF Whole
  <2>3. \A p \in Requests : ~About(request[p], i)
    BY DEF Init, Idle, About
  <2> QED BY <2>1, <2>2, <2>3 DEF Orderly
<1> QED BY <1>2, <1>3 DEF OrderInv

LEMMA NextOrder == Inv /\ OrderInv /\ [Next]_vars => OrderInv'
<1> SUFFICES ASSUME Inv, OrderInv, [Next]_vars PROVE OrderInv'
  OBVIOUS
<1>0. Inv'
  BY NextInv
<1>1. ASSUME NEW r \in Requests, Unlocked(r) PROVE OrderInv'
  <2>1. ASSUME NEW i \in Intents, BeginCheckout(r, i) PROVE OrderInv'
    BY <1>0, <2>1, BeginCheckoutInOrder
  <2>2. CASE Commit(r)
    BY <1>0, <2>2, CommitInOrder
  <2> QED BY <1>0, <1>1, <2>1, <2>2, RequestsInOrder DEF Unlocked
<1>2. CASE Webhook
  <2>1. ASSUME NEW e \in event, PaymentEvent(e) PROVE OrderInv'
    BY <1>0, <2>1, PaymentEventInOrder
  <2>2. ASSUME NEW e \in event, Refunded(e) PROVE OrderInv'
    BY <1>0, <2>2, RefundedInOrder
  <2>3. ASSUME NEW e \in event, RefundIgnored(e) PROVE OrderInv'
    BY <1>0, <2>3, RefundIgnoredInOrder
  <2> QED BY <1>2, <2>1, <2>2, <2>3 DEF Webhook
<1>3. CASE Finalized \/ Reconcile
  BY <1>0, <1>3, AdminInOrder
<1>4. ASSUME NEW i \in Intents, Stripe(i) PROVE OrderInv'
  <2>1. CASE Decline(i) \/ Pay(i)
    BY <1>0, <2>1, DeclineInOrder, PayInOrder
  <2>2. ASSUME NEW a \in 1 .. Total, NEW named \in ChargeNames, Refund(i, a, named)
        PROVE  OrderInv'
    BY <1>0, <2>2, RefundInOrder
  <2> QED BY <1>4, <2>1, <2>2 DEF Stripe
<1>5. CASE UNCHANGED vars
  <2>1. UNCHANGED <<row, intent, event, request, strayed>>
    BY <1>5 DEF vars
  <2>2. \A p \in Requests, i \in Intents : About(request'[p], i) =>
          \/ About(request[p], i) /\ request'[p].known = request[p].known
          \/ request'[p].known = row'[i]
    BY <2>1
  <2> QED BY <1>0, <2>1, <2>2, OrderQuiet
<1> QED BY <1>1, <1>2, <1>3, <1>4, <1>5 DEF Next

LEMMA OrderAgrees == Inv /\ OrderInv => InOrderAgrees
<1> SUFFICES ASSUME Inv, OrderInv, NEW i \in Intents, i \notin strayed,
                    \A e \in event : e.intent # i
             PROVE  Counted(row[i]) = IF intent[i].state = "paid"
                                      THEN intent[i].amount - intent[i].refunded ELSE 0
  BY DEF InOrderAgrees
<1> DEFINE n == intent[i]
<1>1. EventsOf(i) = {} /\ Orderly(i)
  BY DEF EventsOf, OrderInv
<1>2. PICK u \in 0 .. n.refunded : /\ RefundedUpTo(n, {}, u)
                                   /\ (u = 0 /\ Unpaid(row[i], n, {})) \/ Recorded(row[i], n, {}, u)
  BY <1>1 DEF Orderly, InOrder
<1>3. /\ n.amount \in Nat /\ n.refunded \in Nat /\ n.refunded <= n.amount
      /\ u = n.refunded
  BY <1>2 DEF Inv, TypeOK, IntentType, IntentInv, RefundedUpTo
<1>4. CASE Unpaid(row[i], n, {})
  <2>1. n.state # "paid"
    BY <1>4 DEF Unpaid, PaidKinds
  <2> QED BY <1>4, <2>1, CountedNone DEF Unpaid
<1>5. CASE Recorded(row[i], n, {}, u)
  <2>1. PICK t \in Slots :
          /\ row[i][t].ref
          /\ u < n.amount => row[i][t].status = "SUCCEEDED" /\ row[i][t].amount = n.amount - u
          /\ u = n.amount => row[i][t].status # "SUCCEEDED"
    BY <1>5 DEF Recorded
  <2>2. \A s \in Slots \ {t} : row[i][s].status # "SUCCEEDED"
    BY <2>1 DEF Inv, RowInv, RowOK, RefInv
  <2>3. Counts(row[i][t]) = n.amount - n.refunded
    BY <1>3, <2>1 DEF Counts
  <2>4. Counted(row[i]) = n.amount - n.refunded
    BY <1>3, <2>2, <2>3, CountedOne
  <2> QED BY <1>5, <2>4 DEF Recorded
<1> QED BY <1>2, <1>4, <1>5

(* Once the events about a payment have all been applied, in order and none *)
(* ignored, the invoice counts exactly what was captured and not refunded,  *)
(* however slow checkouts overlap with the webhooks.                        *)
THEOREM AgreesInOrder == Spec => []InOrderAgrees
<1>1. Init => Inv /\ OrderInv
  BY InitInv, InitOrder
<1>2. Inv /\ OrderInv /\ [Next]_vars => (Inv /\ OrderInv)'
  BY NextInv, NextOrder
<1> QED BY <1>1, <1>2, OrderAgrees, PTL DEF Spec

(* What Stripe has captured and not given back.                             *)
NetCaptured ==
  MapThenSumSet(LAMBDA i : IF intent[i].state = "paid"
                           THEN intent[i].amount - intent[i].refunded ELSE 0, Intents)

(* Stripe has nothing more to tell and everything it told was applied in    *)
(* its order.                                                               *)
AllTold == event = {} /\ strayed = {}

LEMMA ToldIsPaid ==
  ASSUME AllTold, InOrderAgrees
  PROVE  Paid = manual + NetCaptured
<1> DEFINE v == [i \in Intents |-> Counted(row[i])]
           w == [i \in Intents |-> IF intent[i].state = "paid"
                                   THEN intent[i].amount - intent[i].refunded ELSE 0]
<1>1. Paid = manual + SumOf(v, Intents)
  BY DEF Paid, PaidBy, SumOf, SumFun, Sums, First, MapThenSumSet, MapThenFoldSet
<1>2. NetCaptured = SumOf(w, Intents)
  BY DEF NetCaptured, SumOf, SumFun, Sums, First, MapThenSumSet, MapThenFoldSet
<1>3. v = w
  BY DEF AllTold, InOrderAgrees
<1> HIDE DEF v, w
<1> QED BY <1>1, <1>2, <1>3

(* The books of the invoice agree with Stripe's once all its events have    *)
(* been applied in order: the sum is what staff recorded and Stripe kept,   *)
(* and the status says so unless a request without the lock wrote it from a *)
(* stale sum.                                                               *)
THEOREM BooksAgree ==
  Spec => [](AllTold => /\ Paid = manual + NetCaptured
                        /\ raced \/ Fits(status, manual + NetCaptured))
<1>1. StatusFollows /\ InOrderAgrees =>
        (AllTold => /\ Paid = manual + NetCaptured
                    /\ raced \/ Fits(status, manual + NetCaptured))
  <2> SUFFICES ASSUME StatusFollows, InOrderAgrees, AllTold
               PROVE  Paid = manual + NetCaptured /\ (raced \/ Fits(status, manual + NetCaptured))
    OBVIOUS
  <2>1. Paid = manual + NetCaptured
    BY ToldIsPaid
  <2> QED BY <2>1, FollowsFits
<1> QED BY <1>1, StatusIsRight, AgreesInOrder, PTL
=============================================================================
