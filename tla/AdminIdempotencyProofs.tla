----------------------- MODULE AdminIdempotencyProofs -----------------------
(***************************************************************************)
(* What one Idempotency-Key guarantees, for any number of requests,        *)
(* payloads and parts of work, and for every kind of endpoint.  The        *)
(* inductive invariant says who may be at work: the one with the           *)
(* uncommitted claim while there is no row, and nobody but the row's       *)
(* claimant once there is one.                                             *)
(***************************************************************************)
EXTENDS AdminIdempotency, TLAPS

Busy == {"working", "carried", "called", "committed"}

(* A request at work holds the claim, or the row it has committed is pending. *)
Owns(r) == claim = r \/ (row.state = "pending" /\ row.by = r)

WorkersOwn == \A r \in Requests : req[r].pc \in Busy => Owns(r)

(* A claim is held only while there is no row, by a request at work. *)
ClaimIsFresh ==
    claim # None => row.state = "none" /\ req[claim].pc \in {"working", "called"}

(* What is committed is committed with the row, by its claimant and with its  *)
(* payload, and a response is saved for work that is done.                     *)
RowIsTheEffect ==
    /\ row.state = "none" => \A r \in Requests : parts[r] = 0
    /\ row.state # "none" => /\ row.by \in Requests
                             /\ \A r \in Requests : parts[r] > 0 <=> r = row.by
                             /\ req[row.by].payload = row.payload
                             /\ req[row.by].pc \in Busy \cup {"ended"}
                             /\ req[row.by].answer \in {"none", "done", "error"}
    /\ row.state = "saved" => parts[row.by] = Parts /\ req[row.by].answer = "done"

(* What the place of a request and its answer say of its work. *)
InOrder ==
    \A r \in Requests :
        /\ req[r].pc # "ended" <=> req[r].answer = "none"
        /\ req[r].pc = "carried" => endpoint.commits = "each" /\ parts[r] > 0
        /\ req[r].pc = "called" /\ endpoint.commits = "each" => parts[r] > 0
        /\ req[r].pc = "committed" => endpoint.commits # "once" /\ parts[r] = Parts
        /\ req[r].pc \in {"working", "called"} /\ parts[r] > 0 => endpoint.commits = "each"
        /\ endpoint.commits = "once" /\ parts[r] > 0 => req[r].answer = "done"
        /\ req[r].answer = "done" => parts[r] = Parts

(* Only where query parameters choose what is done is there one to remember.  *)
QueriesMatter == ~endpoint.queried => \A r \in Requests : req[r].query = None

(* A request that has called out is still at it, or has committed something,  *)
(* or has been answered with an error.                                         *)
CallersAreSettled ==
    \A r \in called : req[r].pc = "called" \/ parts[r] > 0 \/ req[r].answer = "error"

IInv == /\ TypeOK
        /\ WorkersOwn
        /\ ClaimIsFresh
        /\ RowIsTheEffect
        /\ InOrder
        /\ QueriesMatter
        /\ CallersAreSettled
        /\ ReplaysAreTrue

LEMMA InitInv == Init => IInv
<1> SUFFICES ASSUME Init
             PROVE  IInv
  OBVIOUS
<1> USE RequestsAssumption
<1>1. TypeOK
  <2>1. row \in RowType /\ req \in [Requests -> RequestType]
    BY DEF Init, RowType, RequestType
  <2>2. parts \in [Requests -> 0..Parts]
    BY DEF Init
  <2> QED
    BY <2>1, <2>2 DEF Init, TypeOK
<1>2. WorkersOwn /\ ClaimIsFresh /\ InOrder
  BY DEF Init, WorkersOwn, ClaimIsFresh, InOrder, Busy
<1>3. RowIsTheEffect /\ QueriesMatter /\ CallersAreSettled
  BY DEF Init, RowIsTheEffect, QueriesMatter, CallersAreSettled
<1>4. ReplaysAreTrue
  BY DEF Init, ReplaysAreTrue
<1> QED
  BY <1>1, <1>2, <1>3, <1>4 DEF IInv

(* Answers stay true when one request alone moves, what the others asked for  *)
(* stays as it is, and no work is undone.                                      *)
LEMMA AnswersKept ==
  ASSUME ReplaysAreTrue, NEW r \in Requests,
         endpoint' = endpoint,
         \A s \in Requests : s # r => req'[s] = req[s],
         \A s \in Effect : /\ s \in Effect'
                           /\ req'[s].payload = req[s].payload
                           /\ req'[s].query = req[s].query
                           /\ parts[s] = Parts => parts'[s] = Parts,
         req'[r].answer \in {"replayed", "in progress"} =>
             \E s \in Effect : /\ s # r /\ req[s].payload = req'[r].payload
                               /\ ~endpoint.queried => req[s].query = req'[r].query
                               /\ req'[r].answer = "replayed" => parts[s] = Parts,
         req'[r].answer = "conflict" => \E s \in Effect : req[s].payload # req'[r].payload
  PROVE  ReplaysAreTrue'
<1> SUFFICES ASSUME NEW q \in Requests
             PROVE  /\ req'[q].answer \in {"replayed", "in progress"} =>
                         \E s \in Effect' : s # q /\ Alike(q, s)'
                    /\ req'[q].answer = "replayed" =>
                         \E s \in Effect' : s # q /\ Alike(q, s)' /\ parts'[s] = Parts
                    /\ req'[q].answer = "conflict" =>
                         \E s \in Effect' : req'[s].payload # req'[q].payload
  BY DEF ReplaysAreTrue
<1>1. CASE q = r
  <2>1. ASSUME req'[r].answer \in {"replayed", "in progress"}
        PROVE  \E s \in Effect' : /\ s # r /\ Alike(r, s)'
                                  /\ req'[r].answer = "replayed" => parts'[s] = Parts
    <3>1. PICK s \in Effect : /\ s # r /\ req[s].payload = req'[r].payload
                              /\ ~endpoint.queried => req[s].query = req'[r].query
                              /\ req'[r].answer = "replayed" => parts[s] = Parts
      BY <2>1
    <3> QED
      BY <3>1 DEF Alike
  <2>2. ASSUME req'[r].answer = "conflict"
        PROVE  \E s \in Effect' : req'[s].payload # req'[r].payload
    BY <2>2
  <2> QED
    BY <1>1, <2>1, <2>2
<1>2. CASE q # r
  <2>0. req'[q] = req[q]
    BY <1>2
  <2>1. ASSUME req[q].answer \in {"replayed", "in progress"}
        PROVE  \E s \in Effect' : s # q /\ Alike(q, s)'
    <3>1. PICK s \in Effect : s # q /\ Alike(q, s)
      BY <2>1 DEF ReplaysAreTrue
    <3> QED
      BY <2>0, <3>1 DEF Alike
  <2>2. ASSUME req[q].answer = "replayed"
        PROVE  \E s \in Effect' : s # q /\ Alike(q, s)' /\ parts'[s] = Parts
    <3>1. PICK s \in Effect : s # q /\ Alike(q, s) /\ parts[s] = Parts
      BY <2>2 DEF ReplaysAreTrue
    <3> QED
      BY <2>0, <3>1 DEF Alike
  <2>3. ASSUME req[q].answer = "conflict"
        PROVE  \E s \in Effect' : req'[s].payload # req[q].payload
    <3>1. PICK s \in Effect : req[s].payload # req[q].payload
      BY <2>3 DEF ReplaysAreTrue
    <3> QED
      BY <3>1
  <2> QED
    BY <2>0, <2>1, <2>2, <2>3
<1> QED
  BY <1>1, <1>2

(* How a step changes one request: the others stay as they are. *)
LEMMA OneRequest ==
  ASSUME TypeOK, NEW r \in Requests, NEW new \in RequestType,
         req' = [req EXCEPT ![r] = new]
  PROVE  /\ req' \in [Requests -> RequestType]
         /\ req'[r] = new
         /\ \A s \in Requests : s # r => req'[s] = req[s]
  BY DEF TypeOK

LEMMA ArriveStep ==
  ASSUME IInv, NEW r \in Requests, NEW payload \in Payloads,
         NEW query \in Queries \cup {None}, Arrive(r, payload, query)
  PROVE  IInv'
<1> USE RequestsAssumption
<1> DEFINE new == [req[r] EXCEPT !.pc = "claiming", !.payload = payload, !.query = query]
<1>0. TypeOK /\ req \in [Requests -> RequestType] /\ req[r].pc = "idle"
  BY DEF IInv, TypeOK, Arrive
<1>1. /\ new \in RequestType /\ new.pc = "claiming" /\ new.answer = req[r].answer
      /\ new.query = query
      /\ req' = [req EXCEPT ![r] = new]
      /\ endpoint' = endpoint /\ row' = row /\ claim' = claim
      /\ parts' = parts /\ called' = called
  BY <1>0 DEF Arrive, RequestType
<1> HIDE DEF new
<1>2. /\ req' \in [Requests -> RequestType] /\ req'[r] = new
      /\ \A s \in Requests : s # r => req'[s] = req[s]
  BY <1>0, <1>1, OneRequest
<1>3. /\ claim # r /\ (row.state # "none" => row.by # r) /\ parts[r] = 0
      /\ req[r].answer = "none"
  <2>1. claim # r /\ (row.state # "none" => row.by # r)
    BY <1>0 DEF IInv, ClaimIsFresh, RowIsTheEffect, Busy
  <2>2. parts[r] = 0
    BY <1>0, <2>1 DEF IInv, RowIsTheEffect, TypeOK
  <2> QED
    BY <1>0, <2>1, <2>2 DEF IInv, InOrder
<1>4. TypeOK'
  BY <1>1, <1>2 DEF IInv, TypeOK
<1>5. WorkersOwn'
  BY <1>1, <1>2 DEF IInv, WorkersOwn, Owns, Busy
<1>6. ClaimIsFresh'
  BY <1>1, <1>2, <1>3 DEF IInv, ClaimIsFresh, TypeOK
<1>7. RowIsTheEffect'
  BY <1>1, <1>2, <1>3 DEF IInv, RowIsTheEffect
<1>8. InOrder'
  BY <1>1, <1>2, <1>3 DEF IInv, InOrder
<1>9. QueriesMatter'
  BY <1>1, <1>2 DEF IInv, QueriesMatter, Arrive
<1>10. CallersAreSettled'
  BY <1>0, <1>1, <1>2, <1>3 DEF IInv, CallersAreSettled, TypeOK
<1>11. ReplaysAreTrue'
  <2>1. Effect' = Effect /\ r \notin Effect /\ Effect \subseteq Requests
    BY <1>1, <1>3 DEF Effect
  <2>2. \A s \in Effect : /\ s \in Effect'
                          /\ req'[s].payload = req[s].payload
                          /\ req'[s].query = req[s].query
                          /\ parts[s] = Parts => parts'[s] = Parts
    BY <1>1, <1>2, <2>1
  <2>3. req'[r].answer = "none"
    BY <1>1, <1>2, <1>3
  <2> QED
    BY <1>1, <1>2, <2>2, <2>3, AnswersKept DEF IInv
<1> QED
  BY <1>4, <1>5, <1>6, <1>7, <1>8, <1>9, <1>10, <1>11 DEF IInv

(* A request moves without committing anything. *)
LEMMA QuietMove ==
  ASSUME IInv, NEW r \in Requests, NEW new \in RequestType,
         req' = [req EXCEPT ![r] = new],
         endpoint' = endpoint, row' = row, parts' = parts,
         claim' \in Requests \cup {None},
         \A s \in Requests : s # r => (claim' = s <=> claim = s),
         claim' = r => row.state = "none" /\ new.pc \in {"working", "called"},
         new.pc \in Busy => claim' = r \/ (row.state = "pending" /\ row.by = r),
         new.payload = req[r].payload, new.query = req[r].query,
         new.pc # "ended" <=> new.answer = "none",
         new.pc \notin {"carried", "committed"},
         row.state # "none" /\ row.by = r =>
             new.pc \in {"working", "called", "ended"} /\ new.answer \in {"none", "error"},
         parts[r] > 0 =>
             endpoint.commits # "once" /\ (new.pc # "ended" => endpoint.commits = "each"),
         new.pc = "called" /\ endpoint.commits = "each" => parts[r] > 0,
         new.answer # "done",
         row.state = "saved" => row.by # r,
         new.answer \in {"replayed", "in progress"} =>
             \E s \in Effect : /\ s # r /\ req[s].payload = new.payload
                               /\ ~endpoint.queried => req[s].query = new.query
                               /\ new.answer = "replayed" => parts[s] = Parts,
         new.answer = "conflict" => \E s \in Effect : req[s].payload # new.payload,
         called' \subseteq Requests,
         \A s \in called' : s # r => s \in called,
         r \in called' => new.pc = "called" \/ parts[r] > 0 \/ new.answer = "error"
  PROVE  IInv'
<1> USE RequestsAssumption
<1>0. TypeOK /\ Effect \subseteq Requests /\ Effect' = Effect
  BY DEF IInv, Effect
<1>2. /\ req' \in [Requests -> RequestType] /\ req'[r] = new
      /\ \A s \in Requests : s # r => req'[s] = req[s]
  BY <1>0, OneRequest
<1>3. \A s \in Requests : req'[s].payload = req[s].payload /\ req'[s].query = req[s].query
  BY <1>2
<1>4. TypeOK'
  BY <1>2 DEF IInv, TypeOK
<1>5. WorkersOwn'
  BY <1>2 DEF IInv, WorkersOwn, Owns
<1>6. ClaimIsFresh'
  BY <1>2 DEF IInv, ClaimIsFresh
<1>7. RowIsTheEffect'
  BY <1>2, <1>3 DEF IInv, RowIsTheEffect, Busy
<1>8. InOrder'
  BY <1>2 DEF IInv, InOrder
<1>9. QueriesMatter'
  BY <1>3 DEF IInv, QueriesMatter
<1>10. CallersAreSettled'
  BY <1>0, <1>2 DEF IInv, CallersAreSettled, TypeOK
<1>11. ReplaysAreTrue'
  <2>1. \A s \in Effect : /\ s \in Effect'
                          /\ req'[s].payload = req[s].payload
                          /\ req'[s].query = req[s].query
                          /\ parts[s] = Parts => parts'[s] = Parts
    BY <1>0, <1>3
  <2>2. /\ req'[r].answer \in {"replayed", "in progress"} =>
             \E s \in Effect : /\ s # r /\ req[s].payload = req'[r].payload
                               /\ ~endpoint.queried => req[s].query = req'[r].query
                               /\ req'[r].answer = "replayed" => parts[s] = Parts
        /\ req'[r].answer = "conflict" => \E s \in Effect : req[s].payload # req'[r].payload
    BY <1>2
  <2>3. ReplaysAreTrue
    BY DEF IInv
  <2> QED
    BY <2>1, <2>2, <2>3, <1>2, AnswersKept
<1> QED
  BY <1>4, <1>5, <1>6, <1>7, <1>8, <1>9, <1>10, <1>11 DEF IInv

(* What a request at work or in the claim knows of the row. *)
LEMMA Facts ==
  ASSUME IInv
  PROVE  /\ TypeOK /\ req \in [Requests -> RequestType] /\ row \in RowType
         /\ claim \in Requests \cup {None} /\ called \subseteq Requests
         /\ parts \in [Requests -> 0..Parts]
         /\ WorkersOwn /\ ClaimIsFresh /\ RowIsTheEffect /\ InOrder
         /\ QueriesMatter /\ CallersAreSettled /\ ReplaysAreTrue
  BY DEF IInv, TypeOK

(* A request that is still waiting has neither claim nor effect, and has not  *)
(* called out.                                                                 *)
LEMMA WaitingIsClean ==
  ASSUME IInv, NEW r \in Requests, req[r].pc = "claiming"
  PROVE  /\ claim # r /\ parts[r] = 0 /\ (row.state # "none" => row.by # r)
         /\ r \notin called /\ req[r].answer = "none"
<1>1. req[r].answer = "none"
  BY Facts DEF InOrder
<1>2. claim # r /\ (row.state # "none" => row.by # r)
  BY Facts, RequestsAssumption DEF ClaimIsFresh, RowIsTheEffect, Busy
<1>3. parts[r] = 0
  BY <1>2, Facts DEF RowIsTheEffect
<1>4. r \notin called
  BY <1>1, <1>3, Facts DEF CallersAreSettled
<1> QED
  BY <1>1, <1>2, <1>3, <1>4

LEMMA ClaimStep ==
  ASSUME IInv, NEW r \in Requests, Claim(r)
  PROVE  IInv'
<1> DEFINE new == [req[r] EXCEPT !.pc = "working"]
<1>1. /\ req[r].pc = "claiming" /\ claim = None /\ claim' = r /\ row.state = "none"
      /\ endpoint' = endpoint /\ row' = row /\ parts' = parts /\ called' = called
  BY DEF Claim, MayInsert
<1>w. /\ claim # r /\ parts[r] = 0 /\ r \notin called /\ req[r].answer = "none"
      /\ req[r] \in RequestType
  BY <1>1, Facts, WaitingIsClean
<1>2. /\ new \in RequestType /\ new.pc = "working" /\ new.payload = req[r].payload
      /\ new.query = req[r].query /\ new.answer = "none" /\ req' = [req EXCEPT ![r] = new]
  BY <1>w DEF Claim, Move, RequestType
<1> HIDE DEF new
<1>3. new.pc \in Busy /\ claim' = r
  BY <1>1, <1>2 DEF Busy
<1>4. /\ \A s \in Requests : s # r => (claim' = s <=> claim = s)
      /\ claim' \in Requests \cup {None} /\ called' \subseteq Requests
      /\ \A s \in called' : s # r => s \in called
  BY <1>1, Facts, RequestsAssumption
<1>5. /\ ~(parts[r] > 0) /\ r \notin called'
      /\ row.state # "saved" /\ new.answer \notin {"replayed", "in progress", "conflict", "done"}
      /\ new.pc \notin {"ended", "carried", "committed", "called"}
  BY <1>w, <1>1, <1>2
<1> QED
  BY <1>w, <1>1, <1>2, <1>3, <1>4, <1>5, QuietMove

LEMMA AnswerStep ==
  ASSUME IInv, NEW r \in Requests, AnswerFromRow(r)
  PROVE  IInv'
<1>1. /\ req[r].pc = "claiming" /\ claim = None /\ row.state # "none"
      /\ endpoint' = endpoint /\ row' = row /\ parts' = parts /\ called' = called
      /\ claim' = claim
  BY DEF AnswerFromRow, MayInsert
<1>w. /\ claim # r /\ parts[r] = 0 /\ r \notin called /\ req[r].answer = "none"
      /\ row.by # r /\ ~(parts[r] > 0)
  BY <1>1, WaitingIsClean
<1>2. PICK answer \in {"conflict", "in progress", "replayed"} :
         /\ answer = "conflict" <=> row.payload # req[r].payload
         /\ answer = "replayed" => row.state = "saved"
         /\ End(r, answer)
  BY DEF AnswerFromRow
<1> DEFINE new == [req[r] EXCEPT !.pc = "ended", !.answer = answer]
<1>3. /\ new \in RequestType /\ new.pc = "ended" /\ new.payload = req[r].payload
      /\ new.query = req[r].query /\ new.answer = answer /\ req' = [req EXCEPT ![r] = new]
  BY <1>2, Facts DEF End, RequestType
<1> HIDE DEF new
<1>4. /\ row.by \in Effect /\ row.by # r /\ req[row.by].payload = row.payload
      /\ row.state = "saved" => parts[row.by] = Parts
      /\ ~endpoint.queried => req[row.by].query = req[r].query
  BY <1>1, <1>w, Facts DEF RowIsTheEffect, Effect, QueriesMatter
<1>5. /\ new.answer \in {"replayed", "in progress"} =>
             \E s \in Effect : /\ s # r /\ req[s].payload = new.payload
                               /\ ~endpoint.queried => req[s].query = new.query
                               /\ new.answer = "replayed" => parts[s] = Parts
      /\ new.answer = "conflict" => \E s \in Effect : req[s].payload # new.payload
  BY <1>2, <1>3, <1>4
<1>6. new.pc \notin Busy
  BY <1>3 DEF Busy
<1>7. /\ \A s \in Requests : s # r => (claim' = s <=> claim = s)
      /\ claim' # r /\ claim' \in Requests \cup {None}
      /\ called' \subseteq Requests /\ r \notin called'
      /\ \A s \in called' : s # r => s \in called
  BY <1>1, <1>w, Facts
<1>8. /\ new.answer # "none" /\ new.answer # "done"
      /\ new.pc \notin {"carried", "committed", "called"}
  BY <1>2, <1>3
<1>9. /\ new.pc # "ended" <=> new.answer = "none"
      /\ ~(row.state # "none" /\ row.by = r)
  BY <1>w, <1>3, <1>8
<1>10. IInv /\ r \in Requests /\ new \in RequestType
  BY <1>3
<1> QED
  BY <1>w, <1>1, <1>3, <1>5, <1>6, <1>7, <1>8, <1>9, <1>10, QuietMove

(* A request at work calls out or goes on to the next booking. *)
LEMMA WorkSteps ==
  ASSUME IInv, NEW r \in Requests, CallOut(r) \/ NextBooking(r)
  PROVE  IInv'
<1>1. PICK pc \in {"working", "called"} :
         /\ Move(r, pc) /\ req[r].pc \in {"working", "carried", "called"}
         /\ req[r].pc = "carried" \/ pc = "working" => endpoint.commits = "each"
         /\ called' = called \/ (pc = "called" /\ called' = called \cup {r})
         /\ endpoint' = endpoint /\ row' = row /\ parts' = parts /\ claim' = claim
         /\ pc = "working" => called' = called /\ req[r].pc \in {"carried", "called"}
         /\ pc = "called" /\ endpoint.commits = "each" => req[r].pc = "carried"
  BY DEF CallOut, NextBooking
<1> DEFINE new == [req[r] EXCEPT !.pc = pc]
<1>2. /\ new \in RequestType /\ new.pc = pc /\ new.payload = req[r].payload
      /\ new.query = req[r].query /\ new.answer = req[r].answer
      /\ req' = [req EXCEPT ![r] = new]
  BY <1>1, Facts DEF Move, RequestType
<1> HIDE DEF new
<1>3. req[r].answer = "none" /\ Owns(r) /\ new.pc \in Busy
  BY <1>1, <1>2, Facts DEF InOrder, WorkersOwn, Busy
<1>4. /\ claim = r => row.state = "none"
      /\ claim' = r \/ (row.state = "pending" /\ row.by = r)
      /\ row.state = "saved" => row.by # r
  BY <1>1, <1>3, Facts, RequestsAssumption DEF Owns, ClaimIsFresh, RowIsTheEffect
<1>5. /\ parts[r] > 0 => endpoint.commits = "each"
      /\ req[r].pc = "carried" => parts[r] > 0
      /\ req[r].pc = "called" /\ endpoint.commits = "each" => parts[r] > 0
  BY <1>1, Facts DEF InOrder
<1>6. /\ r \in called' => new.pc = "called" \/ parts[r] > 0 \/ new.answer = "error"
      /\ new.pc = "called" /\ endpoint.commits = "each" => parts[r] > 0
  BY <1>1, <1>2, <1>5
<1> QED
  BY <1>1, <1>2, <1>3, <1>4, <1>5, <1>6, Facts, QuietMove

LEMMA FailStep ==
  ASSUME IInv, NEW r \in Requests, Fail(r)
  PROVE  IInv'
<1> DEFINE new == [req[r] EXCEPT !.pc = "ended", !.answer = "error"]
<1>1. /\ req[r].pc \notin {"idle", "ended"} /\ End(r, "error")
      /\ claim' = IF claim = r THEN None ELSE claim
      /\ endpoint' = endpoint /\ row' = row /\ parts' = parts /\ called' = called
  BY DEF Fail
<1>2. /\ new \in RequestType /\ new.pc = "ended" /\ new.payload = req[r].payload
      /\ new.query = req[r].query /\ new.answer = "error" /\ req' = [req EXCEPT ![r] = new]
  BY <1>1, Facts DEF End, RequestType
<1> HIDE DEF new
<1>3. req[r].answer = "none" /\ new.pc \notin Busy
  BY <1>1, <1>2, Facts DEF InOrder, Busy
<1>4. row.state = "saved" => row.by # r
  BY <1>3, Facts DEF RowIsTheEffect
<1>5. parts[r] > 0 => endpoint.commits # "once"
  BY <1>3, Facts DEF InOrder
<1>6. claim' # r /\ claim' \in Requests \cup {None}
  BY <1>1, Facts, RequestsAssumption
<1> QED
  BY <1>1, <1>2, <1>3, <1>4, <1>5, <1>6, Facts, QuietMove, RequestsAssumption

(* A commit by the request at work: of some of its work or of all of it, with *)
(* the response or without it.                                                 *)
LEMMA CommitMove ==
  ASSUME IInv, NEW r \in Requests, NEW new \in RequestType,
         req[r].pc \in {"working", "called"}, req' = [req EXCEPT ![r] = new],
         NEW state \in {"pending", "saved"}, NEW done \in 1..Parts, parts[r] <= done,
         Commit(r, state, done),
         new.payload = req[r].payload, new.query = req[r].query,
         new.pc # "called",
         state = "pending" => /\ new.pc \in {"carried", "committed"} /\ new.answer = "none"
                              /\ endpoint.commits # "once"
                              /\ new.pc = "carried" => endpoint.commits = "each"
                              /\ new.pc = "committed" => done = Parts,
         state = "saved" => new.pc = "ended" /\ new.answer = "done" /\ done = Parts
  PROVE  IInv'
<1> USE RequestsAssumption
<1>1. /\ row' = [state |-> state, payload |-> req[r].payload, by |-> r]
      /\ claim' = None /\ parts' = [parts EXCEPT ![r] = done]
      /\ endpoint' = endpoint /\ called' = called
  BY DEF Commit
<1>2. /\ req' \in [Requests -> RequestType] /\ req'[r] = new
      /\ \A s \in Requests : s # r => req'[s] = req[s]
  BY Facts, OneRequest
<1>3. /\ parts' \in [Requests -> 0..Parts] /\ parts'[r] = done /\ done > 0
      /\ \A s \in Requests : s # r => parts'[s] = parts[s]
  BY <1>1, Facts
<1>4. /\ row' \in RowType /\ row'.state = state /\ row'.by = r
      /\ row'.payload = req[r].payload
  <2>1. req[r].payload \in Payloads \cup {None}
    BY Facts DEF RequestType
  <2> QED
    BY <1>1, <2>1 DEF RowType
<1>5. \A s \in Requests : s # r => req[s].pc \notin Busy /\ parts[s] = 0
  <2>1. Owns(r)
    BY Facts DEF WorkersOwn, Busy
  <2>2. \A s \in Requests : s # r => ~Owns(s)
    BY <2>1, Facts DEF Owns, ClaimIsFresh
  <2>3. \A s \in Requests : s # r => parts[s] = 0
    BY <2>1, Facts DEF Owns, ClaimIsFresh, RowIsTheEffect
  <2> QED
    BY <2>2, <2>3, Facts DEF WorkersOwn
<1>6. TypeOK'
  BY <1>1, <1>2, <1>3, <1>4, Facts DEF TypeOK
<1>7. WorkersOwn'
  BY <1>2, <1>4, <1>5 DEF WorkersOwn, Owns, Busy
<1>8. ClaimIsFresh'
  BY <1>1 DEF ClaimIsFresh
<1>9. RowIsTheEffect'
  BY <1>2, <1>3, <1>4, <1>5 DEF RowIsTheEffect, Busy
<1>10. InOrder'
  BY <1>1, <1>2, <1>3, <1>5, Facts DEF InOrder
<1>11. QueriesMatter'
  BY <1>1, <1>2, Facts DEF QueriesMatter
<1>12. CallersAreSettled'
  BY <1>1, <1>2, <1>3, Facts DEF CallersAreSettled
<1>13. ReplaysAreTrue'
  <2>1. \A s \in Effect : s = r /\ s \in Effect' /\ (parts[s] = Parts => parts'[s] = Parts)
    BY <1>3, <1>5, Facts DEF Effect
  <2>2. req'[r].answer \in {"none", "done"}
    BY <1>2
  <2>3. \A s \in Effect : req'[s].payload = req[s].payload /\ req'[s].query = req[s].query
    BY <1>2, <2>1
  <2> QED
    BY <1>1, <1>2, <2>1, <2>2, <2>3, Facts, AnswersKept
<1> QED
  BY <1>6, <1>7, <1>8, <1>9, <1>10, <1>11, <1>12, <1>13 DEF IInv

LEMMA CommitSteps ==
  ASSUME IInv, NEW r \in Requests,
         CommitBooking(r) \/ CommitEarly(r) \/ CommitWithResponse(r)
  PROVE  IInv'
<1>0. /\ req[r].pc \in {"working", "called"}
      /\ req[r].answer = "none" /\ parts[r] \in 0..Parts /\ Parts \in 1..Parts
      /\ req[r] \in RequestType
  BY Facts, RequestsAssumption
     DEF CommitBooking, CommitEarly, CommitWithResponse, Ready, InOrder
<1>1. CASE CommitBooking(r)
  <2> DEFINE new == [req[r] EXCEPT !.pc = "carried"]
  <2>1. /\ new \in RequestType /\ new.pc = "carried" /\ new.payload = req[r].payload
        /\ new.query = req[r].query /\ new.answer = "none" /\ req' = [req EXCEPT ![r] = new]
    BY <1>0, <1>1 DEF CommitBooking, Move, RequestType
  <2>2. PICK done \in (parts[r] + 1)..Parts : Commit(r, "pending", done)
    BY <1>1 DEF CommitBooking
  <2>3. done \in 1..Parts /\ parts[r] <= done /\ endpoint.commits = "each"
    BY <1>0, <1>1, <2>2, RequestsAssumption DEF CommitBooking
  <2> HIDE DEF new
  <2> QED
    BY <1>0, <2>1, <2>2, <2>3, CommitMove
<1>2. CASE CommitEarly(r)
  <2> DEFINE new == [req[r] EXCEPT !.pc = "committed"]
  <2>1. /\ new \in RequestType /\ new.pc = "committed" /\ new.payload = req[r].payload
        /\ new.query = req[r].query /\ new.answer = "none" /\ req' = [req EXCEPT ![r] = new]
    BY <1>0, <1>2 DEF CommitEarly, Move, RequestType
  <2>2. Commit(r, "pending", Parts) /\ endpoint.commits # "once" /\ parts[r] <= Parts
    BY <1>0, <1>2, RequestsAssumption DEF CommitEarly
  <2> HIDE DEF new
  <2> QED
    BY <1>0, <2>1, <2>2, CommitMove
<1>3. CASE CommitWithResponse(r)
  <2> DEFINE new == [req[r] EXCEPT !.pc = "ended", !.answer = "done"]
  <2>1. /\ new \in RequestType /\ new.pc = "ended" /\ new.payload = req[r].payload
        /\ new.query = req[r].query /\ new.answer = "done" /\ req' = [req EXCEPT ![r] = new]
    BY <1>0, <1>3 DEF CommitWithResponse, End, RequestType
  <2>2. Commit(r, "saved", Parts) /\ parts[r] <= Parts
    BY <1>0, <1>3, RequestsAssumption DEF CommitWithResponse
  <2> HIDE DEF new
  <2> QED
    BY <1>0, <2>1, <2>2, CommitMove
<1> QED
  BY <1>1, <1>2, <1>3

LEMMA SaveStep ==
  ASSUME IInv, NEW r \in Requests, SaveResponse(r)
  PROVE  IInv'
<1> USE RequestsAssumption
<1> DEFINE new == [req[r] EXCEPT !.pc = "ended", !.answer = "done"]
<1>1. /\ req[r].pc = "committed" /\ row' = [row EXCEPT !.state = "saved"]
      /\ endpoint' = endpoint /\ claim' = claim /\ parts' = parts /\ called' = called
  BY DEF SaveResponse
<1>2. /\ new \in RequestType /\ new.pc = "ended" /\ new.payload = req[r].payload
      /\ new.query = req[r].query /\ new.answer = "done" /\ req' = [req EXCEPT ![r] = new]
  BY Facts DEF SaveResponse, End, RequestType
<1> HIDE DEF new
<1>3. /\ row.state = "pending" /\ row.by = r /\ parts[r] = Parts /\ claim = None
      /\ endpoint.commits # "once"
  <2>1. claim # r
    BY <1>1, Facts DEF ClaimIsFresh
  <2>2. Owns(r)
    BY <1>1, Facts DEF WorkersOwn, Busy
  <2> QED
    BY <1>1, <2>1, <2>2, Facts DEF Owns, ClaimIsFresh, InOrder
<1>4. /\ row' \in RowType /\ row'.state = "saved" /\ row'.by = r /\ row'.payload = row.payload
  BY <1>1, <1>3, Facts DEF RowType
<1>5. /\ req' \in [Requests -> RequestType] /\ req'[r] = new
      /\ \A s \in Requests : s # r => req'[s] = req[s]
  BY <1>2, Facts, OneRequest
<1>6. TypeOK'
  BY <1>1, <1>4, <1>5, Facts DEF TypeOK
<1>7. WorkersOwn'
  <2>1. \A s \in Requests : s # r => req[s].pc \notin Busy
    BY <1>3, Facts DEF WorkersOwn, Owns
  <2>2. new.pc \notin Busy
    BY <1>2 DEF Busy
  <2> QED
    BY <1>5, <2>1, <2>2 DEF WorkersOwn
<1>8. ClaimIsFresh'
  BY <1>1, <1>3 DEF ClaimIsFresh
<1>9. RowIsTheEffect'
  BY <1>1, <1>2, <1>3, <1>4, <1>5, Facts DEF RowIsTheEffect, Busy
<1>10. InOrder'
  BY <1>1, <1>2, <1>3, <1>5, Facts DEF InOrder
<1>11. QueriesMatter'
  BY <1>1, <1>2, <1>5, Facts DEF QueriesMatter
<1>12. CallersAreSettled'
  BY <1>1, <1>2, <1>3, <1>5, Facts DEF CallersAreSettled
<1>13. ReplaysAreTrue'
  <2>1. \A s \in Effect : /\ s \in Effect'
                          /\ req'[s].payload = req[s].payload
                          /\ req'[s].query = req[s].query
                          /\ parts[s] = Parts => parts'[s] = Parts
    BY <1>1, <1>2, <1>5 DEF Effect
  <2>2. req'[r].answer = "done"
    BY <1>2, <1>5
  <2> QED
    BY <1>1, <1>5, <2>1, <2>2, Facts, AnswersKept
<1> QED
  BY <1>6, <1>7, <1>8, <1>9, <1>10, <1>11, <1>12, <1>13 DEF IInv

LEMMA NextInv == IInv /\ [Next]_vars => IInv'
<1> SUFFICES ASSUME IInv, [Next]_vars
             PROVE  IInv'
  OBVIOUS
<1>1. ASSUME NEW r \in Requests, NEW payload \in Payloads, NEW query \in Queries \cup {None},
             Arrive(r, payload, query)
      PROVE  IInv'
  BY <1>1, ArriveStep
<1>2. ASSUME NEW r \in Requests, Step(r) \/ Fail(r)
      PROVE  IInv'
  BY <1>2, ClaimStep, AnswerStep, WorkSteps, CommitSteps, SaveStep, FailStep DEF Step
<1>3. CASE UNCHANGED vars
  <2>0. /\ endpoint' = endpoint /\ row' = row /\ claim' = claim /\ req' = req
        /\ parts' = parts /\ called' = called
    BY <1>3 DEF vars
  <2>1. TypeOK' /\ WorkersOwn' /\ ClaimIsFresh' /\ RowIsTheEffect'
    BY <2>0, Facts DEF TypeOK, WorkersOwn, Owns, ClaimIsFresh, RowIsTheEffect
  <2>2. InOrder' /\ QueriesMatter' /\ CallersAreSettled'
    BY <2>0, Facts DEF InOrder, QueriesMatter, CallersAreSettled
  <2>3. ReplaysAreTrue'
    <3>1. Effect' = Effect /\ \A r, s \in Requests : Alike(r, s)' <=> Alike(r, s)
      BY <2>0 DEF Effect, Alike
    <3>2. Effect \subseteq Requests
      BY DEF Effect
    <3> QED
      BY <2>0, <3>1, <3>2, Facts DEF ReplaysAreTrue
  <2> QED
    BY <2>1, <2>2, <2>3 DEF IInv
<1> QED
  BY <1>1, <1>2, <1>3 DEF Next

LEMMA AlwaysInv == Spec => []IInv
  BY InitInv, NextInv, PTL DEF Spec

-----------------------------------------------------------------------------
(* The key's row, claim and requests keep their types. *)
THEOREM TypeCorrect == Spec => []TypeOK
<1>1. IInv => TypeOK
  BY DEF IInv
<1> QED
  BY <1>1, AlwaysInv, PTL

(* However many requests carry the key, one at most has committed anything of *)
(* its work.                                                                   *)
THEOREM AtMostOneEffect == Spec => []OneEffect
<1>1. IInv => OneEffect
  BY DEF IInv, OneEffect, RowIsTheEffect, Effect
<1> QED
  BY <1>1, AlwaysInv, PTL

(* A replayed answer speaks of work that is committed whole and was asked for *)
(* alike, success of work of one's own; an endpoint that commits once answers *)
(* an error only when it did nothing.                                          *)
THEOREM AnswersTrue == Spec => []AnswersAreTrue
<1>1. IInv => ReplaysAreTrue
  BY DEF IInv
<1>2. IInv => ResultsAreTrue
  BY Facts DEF ResultsAreTrue, InOrder, Effect
<1>3. ReplaysAreTrue /\ ResultsAreTrue => AnswersAreTrue
  BY DEF AnswersAreTrue
<1> QED
  BY <1>1, <1>2, <1>3, AlwaysInv, PTL

(* No step but CallOut brings a request to where it has called. *)
LEMMA OnlyCallOutCalls ==
  ASSUME IInv, Next, NEW r \in Requests, req[r].pc # "called", req'[r].pc = "called"
  PROVE  CallOut(r)
<1>0. req \in [Requests -> RequestType]
  BY Facts
<1>1. ASSUME NEW q \in Requests, NEW payload \in Payloads, NEW query \in Queries \cup {None},
             Arrive(q, payload, query)
      PROVE  FALSE
  BY <1>0, <1>1 DEF Arrive, RequestType
<1>2. ASSUME NEW q \in Requests, CallOut(q)
      PROVE  CallOut(r)
  BY <1>0, <1>2 DEF CallOut, Move
<1>3. ASSUME NEW q \in Requests, NEW pc \in {"working", "carried", "committed"}, Move(q, pc)
      PROVE  FALSE
  BY <1>0, <1>3 DEF Move, RequestType
<1>4. ASSUME NEW q \in Requests, NEW answer, End(q, answer)
      PROVE  FALSE
  BY <1>0, <1>4 DEF End, RequestType
<1>5. ASSUME NEW q \in Requests, Step(q) \/ Fail(q)
      PROVE  CallOut(r)
  <2>1. CASE Claim(q) \/ CommitBooking(q) \/ NextBooking(q) \/ CommitEarly(q)
    BY <2>1, <1>3 DEF Claim, CommitBooking, NextBooking, CommitEarly
  <2>2. CASE AnswerFromRow(q) \/ CommitWithResponse(q) \/ SaveResponse(q) \/ Fail(q)
    BY <2>2, <1>4 DEF AnswerFromRow, CommitWithResponse, SaveResponse, Fail
  <2> QED
    BY <1>2, <1>5, <2>1, <2>2 DEF Step
<1> QED
  BY <1>1, <1>5 DEF Next

(* No two calls to the outside can both count: when a request calls out, the   *)
(* others have committed nothing, and those that called before have failed.    *)
THEOREM NobodyElseCalls == Spec => CallsOutAlone
<1>1. IInv /\ [Next]_vars =>
        [\A r \in Requests : req[r].pc # "called" /\ req'[r].pc = "called" =>
            \A s \in Requests \ {r} :
                parts[s] = 0 /\ (s \in called => req[s].answer = "error")]_vars
  <2> SUFFICES ASSUME IInv, Next, NEW r \in Requests, NEW s \in Requests \ {r},
                      req[r].pc # "called", req'[r].pc = "called"
               PROVE  parts[s] = 0 /\ (s \in called => req[s].answer = "error")
    BY DEF vars
  <2>1. req[r].pc \in Busy
    BY OnlyCallOutCalls DEF CallOut, Busy
  <2>2. Owns(r)
    BY <2>1, Facts DEF WorkersOwn
  <2>3. parts[s] = 0 /\ ~Owns(s)
    BY <2>2, Facts, RequestsAssumption DEF Owns, ClaimIsFresh, RowIsTheEffect
  <2>4. req[s].pc # "called"
    BY <2>3, Facts DEF WorkersOwn, Busy
  <2> QED
    BY <2>3, <2>4, Facts DEF CallersAreSettled
<1> QED
  BY <1>1, AlwaysInv, PTL DEF Spec, CallsOutAlone

-----------------------------------------------------------------------------
(* The early commit.  A saved response is never lost again, and a row that is *)
(* still pending when its claimant has failed is never saved.                 *)

(* Success is told only from a saved response. *)
SuccessIsSaved ==
    \A r \in Requests : req[r].answer \in {"done", "replayed"} => row.state = "saved"

(* A request at work owns the row, so a saved one has no more of them. *)
LEMMA NobodyElseWorks ==
  ASSUME IInv, NEW r \in Requests, req[r].pc \in Busy
  PROVE  /\ row.state # "saved" /\ (row.state # "none" => row.by = r)
         /\ \A s \in Requests : s # r => parts[s] = 0
<1>1. Owns(r)
  BY Facts DEF WorkersOwn
<1> QED
  BY <1>1, Facts, RequestsAssumption DEF Owns, ClaimIsFresh, RowIsTheEffect

(* How one step changes the row. *)
LEMMA RowSteps ==
  ASSUME IInv, NEW r \in Requests, Step(r) \/ Fail(r)
  PROVE  /\ \A s \in Requests : s # r => req'[s] = req[s]
         /\ row.state = "saved" => row' = row
         /\ req'[r].answer \in {"done", "replayed"} /\ req[r].answer # req'[r].answer =>
              row'.state = "saved"
         /\ row.state # "none" /\ (row' # row \/ parts' # parts) => row.by = r /\ req[r].pc \in Busy
<1>0. req \in [Requests -> RequestType] /\ req[r] \in RequestType /\ row \in RowType
  BY Facts
<1>1. CASE Claim(r) \/ CallOut(r) \/ NextBooking(r)
  <2>1. PICK pc : Move(r, pc) /\ row' = row /\ parts' = parts
    BY <1>1 DEF Claim, CallOut, NextBooking
  <2> QED
    BY <1>0, <2>1 DEF Move, RequestType
<1>2. CASE AnswerFromRow(r)
  <2>1. PICK answer \in {"conflict", "in progress", "replayed"} :
           /\ End(r, answer) /\ row' = row /\ parts' = parts
           /\ answer = "replayed" => row.state = "saved"
    BY <1>2 DEF AnswerFromRow
  <2> QED
    BY <1>0, <2>1 DEF End, RequestType
<1>3. CASE CommitBooking(r) \/ CommitEarly(r)
  <2>1. req[r].pc \in Busy
    BY <1>3 DEF CommitBooking, CommitEarly, Ready, Busy
  <2>2. PICK pc \in {"carried", "committed"} : Move(r, pc)
    BY <1>3 DEF CommitBooking, CommitEarly
  <2>3. req'[r].answer = req[r].answer /\ \A s \in Requests : s # r => req'[s] = req[s]
    BY <1>0, <2>2 DEF Move, RequestType
  <2> QED
    BY <2>1, <2>3, NobodyElseWorks
<1>4. CASE CommitWithResponse(r)
  <2>1. req[r].pc \in Busy
    BY <1>4 DEF CommitWithResponse, Ready, Busy
  <2>2. row' = [state |-> "saved", payload |-> req[r].payload, by |-> r] /\ End(r, "done")
    BY <1>4 DEF CommitWithResponse, Commit
  <2>3. \A s \in Requests : s # r => req'[s] = req[s]
    BY <1>0, <2>2 DEF End
  <2> QED
    BY <2>1, <2>2, <2>3, NobodyElseWorks
<1>5. CASE SaveResponse(r)
  <2>1. req[r].pc \in Busy /\ row' = [row EXCEPT !.state = "saved"] /\ End(r, "done")
    BY <1>5 DEF SaveResponse, Busy
  <2>2. \A s \in Requests : s # r => req'[s] = req[s]
    BY <1>0, <2>1 DEF End
  <2>3. row'.state = "saved"
    BY <1>0, <2>1 DEF RowType
  <2> QED
    BY <2>1, <2>2, <2>3, NobodyElseWorks
<1>6. CASE Fail(r)
  BY <1>0, <1>6 DEF Fail, End, RequestType
<1> QED
  BY <1>1, <1>2, <1>3, <1>4, <1>5, <1>6 DEF Step

LEMMA ArriveQuietly ==
  ASSUME IInv, NEW r \in Requests, NEW payload \in Payloads,
         NEW query \in Queries \cup {None}, Arrive(r, payload, query)
  PROVE  row' = row /\ parts' = parts /\ \A s \in Requests : req'[s].answer = req[s].answer
  BY Facts DEF Arrive, RequestType

(* Once a client was told of success the response is there for good: every  *)
(* retry gets it.                                                            *)
THEOREM SuccessIsKept == Spec => []SuccessIsSaved /\ [][row.state = "saved" => row' = row]_vars
<1>1. Init => SuccessIsSaved
  BY DEF Init, SuccessIsSaved
<1>2. IInv /\ [Next]_vars => [row.state = "saved" => row' = row]_vars
  <2> SUFFICES ASSUME IInv, Next, row.state = "saved"
               PROVE  row' = row
    OBVIOUS
  <2> QED
    BY RowSteps, ArriveQuietly DEF Next
<1>3. IInv /\ SuccessIsSaved /\ [Next]_vars => SuccessIsSaved'
  <2> SUFFICES ASSUME IInv, SuccessIsSaved, [Next]_vars, NEW q \in Requests,
                      req'[q].answer \in {"done", "replayed"}
               PROVE  row'.state = "saved"
    BY DEF SuccessIsSaved
  <2>1. req[q].answer = req'[q].answer => row'.state = "saved"
    BY <1>2 DEF SuccessIsSaved, vars
  <2>2. CASE UNCHANGED vars
    BY <2>1, <2>2 DEF vars
  <2>3. ASSUME NEW r \in Requests, NEW payload \in Payloads, NEW query \in Queries \cup {None},
               Arrive(r, payload, query)
        PROVE  row'.state = "saved"
    BY <2>1, <2>3, ArriveQuietly
  <2>4. ASSUME NEW r \in Requests, Step(r) \/ Fail(r)
        PROVE  row'.state = "saved"
    BY <2>1, <2>4, RowSteps
  <2> QED
    BY <2>2, <2>3, <2>4 DEF Next
<1> QED
  BY <1>1, <1>2, <1>3, AlwaysInv, PTL DEF Spec

(* The claimant committed some or all of its work and failed before it saved *)
(* a response.                                                                *)
GivenUp == row.state = "pending" /\ req[row.by].answer = "error"

(* mark_failed has no caller: once the claimant failed between two commits    *)
(* the row stays pending for ever, the work stays as far done as it was,      *)
(* whole or in part, and nobody is told of success.                           *)
THEOREM PendingForGood ==
  Spec => /\ [][GivenUp => GivenUp' /\ UNCHANGED parts]_vars
          /\ [](GivenUp => \A r \in Requests : req[r].answer \notin {"done", "replayed"})
<1>1. IInv /\ [Next]_vars => [GivenUp => GivenUp' /\ UNCHANGED parts]_vars
  <2> SUFFICES ASSUME IInv, Next, GivenUp
               PROVE  row' = row /\ req'[row.by].answer = "error" /\ parts' = parts
    BY DEF GivenUp
  <2>1. row.by \in Requests /\ req[row.by].pc = "ended" /\ row.state # "none"
    BY Facts DEF GivenUp, RowIsTheEffect, InOrder
  <2>2. ASSUME NEW r \in Requests, NEW payload \in Payloads, NEW query \in Queries \cup {None},
               Arrive(r, payload, query)
        PROVE  row' = row /\ req'[row.by].answer = "error" /\ parts' = parts
    BY <2>1, <2>2, ArriveQuietly DEF GivenUp
  <2>3. ASSUME NEW r \in Requests, Step(r) \/ Fail(r)
        PROVE  row' = row /\ req'[row.by].answer = "error" /\ parts' = parts
    <3>1. r # row.by
      BY <2>1, <2>3 DEF Step, Claim, AnswerFromRow, MayInsert, CommitBooking, CallOut,
                        NextBooking, CommitEarly, CommitWithResponse, Ready, SaveResponse, Fail
    <3>2. row' = row /\ parts' = parts /\ req'[row.by] = req[row.by]
      BY <2>1, <2>3, <3>1, RowSteps
    <3> QED
      BY <3>2 DEF GivenUp
  <2> QED
    BY <2>2, <2>3 DEF Next
<1>2. SuccessIsSaved =>
        (GivenUp => \A r \in Requests : req[r].answer \notin {"done", "replayed"})
  BY DEF SuccessIsSaved, GivenUp
<1> QED
  BY <1>1, <1>2, SuccessIsKept, AlwaysInv, PTL DEF Spec

-----------------------------------------------------------------------------
(* The refinement: every step of a request is a step of the promise or none. *)

Asked == [r \in Requests |-> req[r].payload]
Told == [r \in Requests |-> req[r].answer]
Whole == \E r \in Requests : parts[r] = Parts

(* A request has a payload from its arrival on. *)
ArrivedAsk == \A r \in Requests : req[r].pc = "idle" <=> req[r].payload = None

(* Where a request goes, its payload stays, and its answer unless it ends. *)
LEMMA MoveMaps ==
  ASSUME IInv, NEW r \in Requests, NEW pc, Move(r, pc)
  PROVE  /\ Asked' = Asked /\ Told' = Told
         /\ req'[r].pc = pc /\ \A s \in Requests : s # r => req'[s] = req[s]
<1>1. req \in [Requests -> RequestType]
  BY Facts
<1> QED
  BY <1>1 DEF Move, RequestType, Asked, Told

LEMMA EndMaps ==
  ASSUME IInv, NEW r \in Requests, NEW answer, End(r, answer)
  PROVE  /\ Asked' = Asked /\ Told' = [Told EXCEPT ![r] = answer]
         /\ req'[r].pc = "ended" /\ \A s \in Requests : s # r => req'[s] = req[s]
<1>1. req \in [Requests -> RequestType]
  BY Facts
<1> QED
  BY <1>1 DEF End, RequestType, Asked, Told

(* A step is taken by a request that has arrived and has not been answered,  *)
(* and moves it on or ends it.                                                *)
LEMMA StepMoves ==
  ASSUME IInv, NEW r \in Requests, Step(r) \/ Fail(r)
  PROVE  /\ req[r].pc \notin {"idle", "ended"} /\ req[r].answer = "none"
         /\ (\E pc \in Busy : Move(r, pc)) \/ \E answer : End(r, answer)
<1>1. req[r].pc \notin {"idle", "ended"}
  BY DEF Step, Claim, AnswerFromRow, MayInsert, CommitBooking, CallOut, NextBooking,
         CommitEarly, CommitWithResponse, Ready, SaveResponse, Fail
<1>2. req[r].answer = "none"
  BY <1>1, Facts DEF InOrder
<1>3. (\E pc \in Busy : Move(r, pc)) \/ \E answer : End(r, answer)
  BY DEF Step, Claim, AnswerFromRow, CommitBooking, CallOut, NextBooking,
         CommitEarly, CommitWithResponse, SaveResponse, Fail, Busy
<1> QED
  BY <1>1, <1>2, <1>3

LEMMA ArrivedStep == IInv /\ ArrivedAsk /\ [Next]_vars => ArrivedAsk'
<1> SUFFICES ASSUME IInv, ArrivedAsk, [Next]_vars
             PROVE  ArrivedAsk'
  OBVIOUS
<1>0. req \in [Requests -> RequestType]
  BY Facts
<1>1. ASSUME NEW r \in Requests, NEW payload \in Payloads, NEW query \in Queries \cup {None},
             Arrive(r, payload, query)
      PROVE  ArrivedAsk'
  BY <1>0, <1>1, RequestsAssumption DEF Arrive, ArrivedAsk, RequestType
<1>2. ASSUME NEW r \in Requests, Step(r) \/ Fail(r)
      PROVE  ArrivedAsk'
  <2>1. Asked' = Asked /\ req'[r].pc # "idle" /\ \A s \in Requests : s # r => req'[s] = req[s]
    BY <1>2, StepMoves, MoveMaps, EndMaps DEF Busy
  <2>2. req'[r].payload = req[r].payload /\ req[r].payload # None
    <3>1. Asked'[r] = Asked[r]
      BY <2>1
    <3> QED
      BY <1>2, <3>1, StepMoves DEF Asked, ArrivedAsk
  <2> QED
    BY <2>1, <2>2 DEF ArrivedAsk
<1> QED
  BY <1>1, <1>2 DEF Next, vars, ArrivedAsk

LEMMA ArrivePromise ==
  ASSUME IInv, ArrivedAsk, NEW r \in Requests, NEW payload \in Payloads,
         NEW query \in Queries \cup {None}, Arrive(r, payload, query)
  PROVE  Promise!Ask(r, payload)
<1>1. req \in [Requests -> RequestType]
  BY Facts
<1>2. /\ Asked' = [Asked EXCEPT ![r] = payload] /\ Told' = Told /\ Asked[r] = None
      /\ row' = row /\ parts' = parts
  BY <1>1 DEF Arrive, ArrivedAsk, RequestType, Asked, Told
<1> QED
  BY <1>2 DEF Promise!Ask, Asked, Told, Effect

(* The answers from the row are the promise's. *)
LEMMA AnswerPromise ==
  ASSUME IInv, NEW r \in Requests, AnswerFromRow(r),
         Asked[r] # None, Told[r] = "none"
  PROVE  Promise!Next
<1> DEFINE saved == row.state = "saved"
<1>1. req[r].pc = "claiming" /\ row.state # "none" /\ row' = row /\ parts' = parts
  BY DEF AnswerFromRow, MayInsert
<1>2. row.by \in Requests /\ row.by \in Effect /\ row.by # r /\ Asked[row.by] = row.payload
  BY <1>1, WaitingIsClean, Facts DEF RowIsTheEffect, Asked, Effect
<1>3. CASE row.payload # req[r].payload
  <2>1. Asked' = Asked /\ Told' = [Told EXCEPT ![r] = "conflict"]
    BY <1>3, EndMaps DEF AnswerFromRow
  <2>2. Asked[row.by] # Asked[r]
    BY <1>2, <1>3 DEF Asked
  <2>3. Promise!Refuse(r)
    BY <1>1, <1>2, <2>1, <2>2
       DEF Promise!Refuse, Promise!Tell, Promise!Waiting, Asked, Told, Effect
  <2> QED
    BY <2>3 DEF Promise!Next
<1>4. CASE row.payload = req[r].payload
  <2>1. Asked' = Asked /\ Told' = [Told EXCEPT ![r] = IF saved THEN "replayed" ELSE "in progress"]
    BY <1>4, EndMaps DEF AnswerFromRow
  <2>2. Asked[row.by] = Asked[r]
    BY <1>2, <1>4 DEF Asked
  <2>3. Promise!Repeat(r)
    BY <1>1, <1>2, <2>1, <2>2
       DEF Promise!Repeat, Promise!Tell, Promise!Waiting, Asked, Told, Effect
  <2> QED
    BY <2>3 DEF Promise!Next
<1> QED
  BY <1>3, <1>4

(* A commit of some or all of the work is the promise's. *)
LEMMA CommitPromise ==
  ASSUME IInv, NEW r \in Requests, CommitBooking(r) \/ CommitEarly(r) \/ CommitWithResponse(r),
         Asked[r] # None, Told[r] = "none"
  PROVE  Promise!Next
<1>1. PICK state \in {"pending", "saved"}, done \in 1..Parts :
         /\ Commit(r, state, done) /\ (parts[r] = Parts => done = Parts)
         /\ state = "pending" => \E pc : Move(r, pc)
         /\ state = "saved" => endpoint.commits = "once" /\ done = Parts /\ End(r, "done")
  <2>1. parts[r] \in 0..Parts /\ Parts \in 1..Parts
    BY Facts, RequestsAssumption
  <2>2. CASE CommitBooking(r)
    <3>1. PICK done \in (parts[r] + 1)..Parts : Commit(r, "pending", done)
      BY <2>2 DEF CommitBooking
    <3>2. done \in 1..Parts /\ parts[r] # Parts
      BY <2>1, RequestsAssumption
    <3> QED
      BY <2>2, <3>1, <3>2 DEF CommitBooking
  <2> QED
    BY <2>1, <2>2 DEF CommitEarly, CommitWithResponse
<1>2. req[r].pc \in Busy /\ req[r].answer = "none"
  BY Facts DEF CommitBooking, CommitEarly, CommitWithResponse, Ready, Busy, InOrder
<1>3. row.state # "saved" /\ Effect \subseteq {r}
  BY <1>2, NobodyElseWorks, Facts DEF Effect
<1>4. parts'[r] = done /\ \A s \in Requests : s # r => parts'[s] = parts[s]
  BY <1>1, Facts DEF Commit
<1>5. Effect' = {r}
  BY <1>3, <1>4 DEF Effect
<1>6. (Whole => Whole') /\ (done = Parts => Whole')
  <2>1. Whole => parts[r] = Parts
    BY <1>2, NobodyElseWorks, RequestsAssumption DEF Whole
  <2> QED
    BY <1>1, <1>4, <2>1 DEF Whole
<1>7. row'.state = state
  BY <1>1 DEF Commit
<1>8. CASE state = "pending"
  <2>1. Asked' = Asked /\ Told' = Told
    BY <1>1, <1>8, MoveMaps
  <2>2. Whole' \in {Whole, TRUE}
    BY <1>6 DEF Whole
  <2>3. Promise!Work(r)
    BY <1>3, <1>5, <1>7, <1>8, <2>1, <2>2
       DEF Promise!Work, Promise!Waiting, Asked, Told, Effect, Whole
  <2> QED
    BY <2>3 DEF Promise!Next
<1>9. CASE state = "saved"
  <2>1. Asked' = Asked /\ Told' = [Told EXCEPT ![r] = "done"]
    BY <1>1, <1>9, EndMaps
  <2>2. Effect = {}
    <3>1. r \notin Effect
      BY <1>1, <1>2, <1>9, Facts DEF InOrder, Effect
    <3> QED
      BY <1>3, <3>1
  <2>3. Promise!WorkAndRespond(r)
    BY <1>1, <1>5, <1>6, <1>7, <1>9, <2>1, <2>2
       DEF Promise!WorkAndRespond, Promise!Tell, Promise!Waiting, Asked, Told, Effect, Whole
  <2> QED
    BY <2>3 DEF Promise!Next
<1> QED
  BY <1>8, <1>9

LEMMA StepPromise ==
  ASSUME IInv, ArrivedAsk, NEW r \in Requests, Step(r) \/ Fail(r)
  PROVE  [Promise!Next]_(Promise!promiseVars)
<1>w. Asked[r] # None /\ Told[r] = "none" /\ req[r].answer = "none" /\ req[r].pc # "ended"
  BY StepMoves DEF ArrivedAsk, Asked, Told
<1>1. CASE Claim(r) \/ CallOut(r) \/ NextBooking(r)
  <2>1. Asked' = Asked /\ Told' = Told /\ row' = row /\ parts' = parts
    BY <1>1, MoveMaps DEF Claim, CallOut, NextBooking
  <2> QED
    BY <2>1 DEF Promise!promiseVars, Asked, Told, Effect
<1>2. CASE AnswerFromRow(r)
  BY <1>2, <1>w, AnswerPromise
<1>3. CASE CommitBooking(r) \/ CommitEarly(r) \/ CommitWithResponse(r)
  BY <1>3, <1>w, CommitPromise
<1>4. CASE SaveResponse(r)
  <2>1. Asked' = Asked /\ Told' = [Told EXCEPT ![r] = "done"] /\ parts' = parts
    BY <1>4, EndMaps DEF SaveResponse
  <2>2. row'.state = "saved" /\ req[r].pc = "committed"
    BY <1>4, Facts DEF SaveResponse, RowType
  <2>3. parts[r] = Parts /\ \A s \in Requests : s # r => parts[s] = 0
    BY <2>2, NobodyElseWorks, Facts DEF InOrder, Busy
  <2>4. Effect = {r} /\ Whole
    BY <2>3, RequestsAssumption DEF Effect, Whole
  <2>5. Promise!Respond(r)
    BY <1>w, <2>1, <2>2, <2>4
       DEF Promise!Respond, Promise!Tell, Promise!Waiting, Asked, Told, Effect, Whole
  <2> QED
    BY <2>5 DEF Promise!Next
<1>5. CASE Fail(r)
  <2>1. Asked' = Asked /\ Told' = [Told EXCEPT ![r] = "error"] /\ row' = row /\ parts' = parts
    BY <1>5, EndMaps DEF Fail
  <2>2. Promise!GiveUp(r)
    BY <1>w, <2>1 DEF Promise!GiveUp, Promise!Tell, Promise!Waiting, Asked, Told, Effect
  <2> QED
    BY <2>2 DEF Promise!Next
<1> QED
  BY <1>1, <1>2, <1>3, <1>4, <1>5 DEF Step

(* The key keeps KeyPromise: one request alone does the work, whole or in      *)
(* part, its response comes after all of it and stays, and every answer to     *)
(* those who hash alike is true, whatever arrives, fails and is retried.       *)
THEOREM ImplementsPromise == Spec => PromiseKept
<1>1. Init => Promise!Init /\ ArrivedAsk
  <2> SUFFICES ASSUME Init
               PROVE  Promise!Init /\ ArrivedAsk
    OBVIOUS
  <2>1. Effect = {} /\ ~Whole
    BY RequestsAssumption DEF Init, Effect, Whole
  <2> QED
    BY <2>1 DEF Init, Promise!Init, ArrivedAsk, Effect, Whole
<1>2. IInv /\ ArrivedAsk /\ [Next]_vars => [Promise!Next]_(Promise!promiseVars)
  <2> SUFFICES ASSUME IInv, ArrivedAsk, [Next]_vars
               PROVE  [Promise!Next]_(Promise!promiseVars)
    OBVIOUS
  <2>1. ASSUME NEW r \in Requests, NEW payload \in Payloads, NEW query \in Queries \cup {None},
               Arrive(r, payload, query)
        PROVE  Promise!Next
    BY <2>1, ArrivePromise DEF Promise!Next
  <2>2. CASE UNCHANGED vars
    BY <2>2 DEF vars, Promise!promiseVars, Effect
  <2> QED
    BY <2>1, <2>2, StepPromise DEF Next
<1> QED
  BY <1>1, <1>2, ArrivedStep, AlwaysInv, PTL DEF Spec, PromiseKept, Promise!Spec
=============================================================================
