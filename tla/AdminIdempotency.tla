-------------------------- MODULE AdminIdempotency --------------------------
(***************************************************************************)
(* Requests to a dangerous admin endpoint that carry one Idempotency-Key   *)
(* (api/idempotency.py and the endpoints that call require_idempotency).   *)
(* A request claims the key by inserting a PENDING row in its own          *)
(* transaction, does its work, saves its response in the row and commits.  *)
(*                                                                         *)
(* `endpoint' says which kind of endpoint is called.  `commits': the work  *)
(* is committed once, together with the response; or early, with the       *)
(* PENDING row, and the response in a second transaction; or early and     *)
(* after each booking of many, since the e-mail service commits before it  *)
(* sends and again after.  `calls': the work calls out, which happens      *)
(* before the commit, but after it where bookings are committed one by     *)
(* one.  `queried': query parameters, which are not hashed, choose what is *)
(* done.                                                                   *)
(*                 calls out                      does not                 *)
(*   once          resend event, reset-temp-      nps/send (queried)       *)
(*                 password                                                *)
(*   early         resend-last-email, export      record-payment, outbox   *)
(*                 replay, DLQ batch (queried)    replay, bulk             *)
(*   each          bulk with reminders            the same without an      *)
(*                                                e-mail adapter           *)
(***************************************************************************)
EXTENDS Naturals, FiniteSets

CONSTANTS
    Requests, \* the requests with this key: a client's first try, its retries
    Payloads, \* what a request hashes to: method, path and normalised body
    Queries,  \* the query parameters of a request
    Parts,    \* the bookings of one request: its work, counted in parts
    None      \* no request, no payload, no query parameters

ASSUME RequestsAssumption ==
    /\ None \notin Requests
    /\ None \notin Payloads
    /\ Parts \in Nat \ {0}

VARIABLES
    endpoint, \* the kind of endpoint the requests with the key call
    row,      \* the committed row of the key: its state, payload and claimant
    claim,    \* the request whose transaction holds an uncommitted row, or None
    req,      \* each request: where it is, what it asks for and its answer,
              \* the one the handler gives: it may get lost on its way
    parts,    \* how much of each request's work is committed
    called    \* the requests that have called out, once or more often

vars == <<endpoint, row, claim, req, parts, called>>

EndpointType ==
    [calls : BOOLEAN, commits : {"once", "early", "each"}, queried : BOOLEAN]

RowType == [state : {"none", "pending", "saved"},
            payload : Payloads \cup {None}, by : Requests \cup {None}]

RequestType ==
    [pc : {"idle", "claiming", "working", "carried", "called", "committed", "ended"},
     payload : Payloads \cup {None}, query : Queries \cup {None},
     answer : {"none", "done", "replayed", "in progress", "conflict", "error"}]

Init ==
    /\ endpoint \in EndpointType
    /\ row = [state |-> "none", payload |-> None, by |-> None]
    /\ claim = None
    /\ req = [r \in Requests |->
                [pc |-> "idle", payload |-> None, query |-> None, answer |-> "none"]]
    /\ parts = [r \in Requests |-> 0]
    /\ called = {}

(* The requests that have committed something. *)
Effect == {r \in Requests : parts[r] > 0}

Move(r, pc) == req' = [req EXCEPT ![r].pc = pc]

End(r, answer) == req' = [req EXCEPT ![r].pc = "ended", ![r].answer = answer]

Arrive(r, payload, query) ==
    /\ req[r].pc = "idle"
    /\ ~endpoint.queried => query = None
    /\ req' = [req EXCEPT ![r].pc = "claiming", ![r].payload = payload, ![r].query = query]
    /\ UNCHANGED <<endpoint, row, claim, parts, called>>

InsertAtOnce(r) == req[r].pc = "claiming"

(* INSERT ... ON CONFLICT DO NOTHING waits for an uncommitted row of the same  *)
(* key to be committed or rolled back.                                         *)
MayInsert(r) == req[r].pc = "claiming" /\ claim = None

Claim(r) ==
    /\ MayInsert(r)
    /\ row.state = "none"
    /\ claim' = r
    /\ Move(r, "working")
    /\ UNCHANGED <<endpoint, row, parts, called>>

AnswerWithoutHash(r) ==
    /\ MayInsert(r)
    /\ row.state # "none"
    /\ End(r, IF row.state = "pending" THEN "in progress" ELSE "replayed")
    /\ UNCHANGED <<endpoint, row, claim, parts, called>>

(* The row is there: another payload is refused, a pending row is answered     *)
(* with Retry-After, a saved response is sent again.                           *)
AnswerFromRow(r) ==
    /\ MayInsert(r)
    /\ row.state # "none"
    /\ \/ row.payload # req[r].payload /\ End(r, "conflict")
       \/ row.payload = req[r].payload /\ row.state = "pending" /\ End(r, "in progress")
       \/ row.payload = req[r].payload /\ row.state = "saved" /\ End(r, "replayed")
    /\ UNCHANGED <<endpoint, row, claim, parts, called>>

(* Everything this transaction did becomes visible, the claim included. *)
Commit(r, state, done) ==
    /\ row' = [state |-> state, payload |-> req[r].payload, by |-> r]
    /\ claim' = None
    /\ parts' = [parts EXCEPT ![r] = done]
    /\ UNCHANGED <<endpoint, called>>

(* A booking with a reminder to send: the e-mail service commits the reserved  *)
(* event, and with it the changes of this booking and of those before it that  *)
(* had nothing to send.                                                        *)
CommitBooking(r) ==
    /\ endpoint.commits = "each" /\ req[r].pc = "working"
    /\ \E done \in (parts[r] + 1)..Parts : Commit(r, "pending", done)
    /\ Move(r, "carried")

CallOutUnclaimed(r) ==
    /\ req[r].pc = "claiming" /\ endpoint.calls
    /\ Move(r, "called")
    /\ called' = called \cup {r}
    /\ UNCHANGED <<endpoint, row, claim, parts>>

CallOut(r) ==
    /\ endpoint.calls
    /\ req[r].pc = IF endpoint.commits = "each" THEN "carried" ELSE "working"
    /\ Move(r, "called")
    /\ called' = called \cup {r}
    /\ UNCHANGED <<endpoint, row, claim, parts>>

(* The e-mail service commits what came of the call, and the loop goes on to   *)
(* the next booking.                                                           *)
NextBooking(r) ==
    /\ endpoint.commits = "each"
    /\ req[r].pc = IF endpoint.calls THEN "called" ELSE "carried"
    /\ Move(r, "working")
    /\ UNCHANGED <<endpoint, row, claim, parts, called>>

Ready(r) ==
    req[r].pc = IF endpoint.calls /\ endpoint.commits # "each" THEN "called" ELSE "working"

(* The work is done, all that is left of it is committed. *)
CommitEarly(r) ==
    /\ endpoint.commits # "once" /\ Ready(r)
    /\ Commit(r, "pending", Parts)
    /\ Move(r, "committed")

(* save_response and the commit of the endpoint's only transaction. *)
CommitWithResponse(r) ==
    /\ endpoint.commits = "once" /\ Ready(r)
    /\ Commit(r, "saved", Parts)
    /\ End(r, "done")

(* save_response in the last transaction of an endpoint that commits early.    *)
SaveResponse(r) ==
    /\ req[r].pc = "committed"
    /\ row' = [row EXCEPT !.state = "saved"]
    /\ End(r, "done")
    /\ UNCHANGED <<endpoint, claim, parts, called>>

FailMarkingRow(r) ==
    /\ req[r].pc \notin {"idle", "ended"}
    /\ End(r, "error")
    /\ claim' = IF claim = r THEN None ELSE claim
    /\ row' = [row EXCEPT !.state = "failed"]
    /\ UNCHANGED <<endpoint, parts, called>>

FailKeepingClaim(r) ==
    /\ req[r].pc \notin {"idle", "ended"}
    /\ End(r, "error")
    /\ UNCHANGED <<endpoint, row, claim, parts, called>>

(* The handler raises, a statement times out, even the INSERT that waits, or   *)
(* the process dies.  What is not committed is rolled back, the claim with it; *)
(* a row committed early stays pending: mark_failed, which would release it,   *)
(* has no caller.                                                              *)
Fail(r) ==
    /\ req[r].pc \notin {"idle", "ended"}
    /\ End(r, "error")
    /\ claim' = IF claim = r THEN None ELSE claim
    /\ UNCHANGED <<endpoint, row, parts, called>>

Step(r) ==
    \/ Claim(r) \/ AnswerFromRow(r)
    \/ CommitBooking(r) \/ CallOut(r) \/ NextBooking(r)
    \/ CommitEarly(r) \/ CommitWithResponse(r) \/ SaveResponse(r)

Next ==
    \E r \in Requests :
        \/ \E payload \in Payloads, query \in Queries \cup {None} : Arrive(r, payload, query)
        \/ Step(r)
        \/ Fail(r)

Spec == Init /\ [][Next]_vars

(* A request that has arrived keeps running until it ends: a handler goes on,  *)
(* and one that waits for a row is woken when its holder is gone.              *)
FairSpec == Spec /\ \A r \in Requests : WF_vars(Step(r))

-----------------------------------------------------------------------------
TypeOK ==
    /\ endpoint \in EndpointType
    /\ row \in RowType
    /\ claim \in Requests \cup {None}
    /\ req \in [Requests -> RequestType]
    /\ parts \in [Requests -> 0..Parts]
    /\ called \subseteq Requests

(* However many requests with the key arrive, together or one after a crash of *)
(* another, one of them at most has committed anything of its work.            *)
OneEffect == \A r, s \in Effect : r = s

(* What the key can tell apart: the payload, and where query parameters choose *)
(* what is done, not those.                                                    *)
Alike(r, s) ==
    /\ req[s].payload = req[r].payload
    /\ ~endpoint.queried => req[s].query = req[r].query

(* An answer given from the row speaks of another request like this one: one   *)
(* that has committed all of its work, or, while it is in progress and for     *)
(* ever after it failed there, some of it.  A refused payload meets one that   *)
(* has been at work.                                                           *)
ReplaysAreTrue ==
    \A r \in Requests :
        /\ req[r].answer \in {"replayed", "in progress"} =>
             \E s \in Effect : s # r /\ Alike(r, s)
        /\ req[r].answer = "replayed" =>
             \E s \in Effect : s # r /\ Alike(r, s) /\ parts[s] = Parts
        /\ req[r].answer = "conflict" =>
             \E s \in Effect : req[s].payload # req[r].payload

(* Success is told by a request whose work is committed to the last part, and  *)
(* an error of an endpoint with one transaction means that nothing was done:   *)
(* the client may try again.                                                   *)
ResultsAreTrue ==
    /\ \A r \in Requests : req[r].answer = "done" => parts[r] = Parts
    /\ endpoint.commits = "once" => \A r \in Effect : req[r].answer = "done"

(* Whatever a client is told about its action is so: replayed answers and      *)
(* errors alike.                                                               *)
AnswersAreTrue == ReplaysAreTrue /\ ResultsAreTrue

(* A request calls out only when nobody else's call can still count: every     *)
(* other request that called before has failed, and none has committed         *)
(* anything.                                                                   *)
CallsOutAlone ==
    [][\A r \in Requests : req[r].pc # "called" /\ req'[r].pc = "called" =>
          \A s \in Requests \ {r} :
              parts[s] = 0 /\ (s \in called => req[s].answer = "error")]_vars

(* The key keeps the promise of KeyPromise to all who hash alike: no order of  *)
(* requests, failures and retries lets a second one do any of the work, tells  *)
(* of a success that is not committed whole, or takes a response back.         *)
Promise == INSTANCE KeyPromise WITH
    asked <- [r \in Requests |-> req[r].payload],
    doer  <- Effect,
    whole <- \E r \in Requests : parts[r] = Parts,
    saved <- row.state = "saved",
    told  <- [r \in Requests |-> req[r].answer]

PromiseKept == Promise!Spec

(* Waiting for a claim ends: no request hangs on one that failed.              *)
EveryoneIsAnswered ==
    \A r \in Requests : req[r].pc = "claiming" ~> req[r].pc = "ended"
=============================================================================
