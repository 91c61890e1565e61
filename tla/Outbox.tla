------------------------------- MODULE Outbox -------------------------------
(***************************************************************************)
(* outbox_events and email_failures: enqueueing, the request that sends its *)
(* own email, the outbox-delivery, email-dlq and auto-replay jobs, and the  *)
(* admin's replay.  The jobs read a batch, deliver it and write it back     *)
(* through the ORM, which updates only the columns that differ from what    *)
(* the job read; rows are locked from the write to the commit of the batch. *)
(***************************************************************************)
EXTENDS Naturals, FiniteSets

CONSTANTS Messages,      \* numbered by created_at
          Direct,        \* messages whose request sends them itself
          Jobs,          \* job runs that may overlap
          KindOf,        \* which job a run is of
          Admins,        \* concurrent replay requests
          MaxAttempts,   \* outbox_max_attempts
          Ceiling,       \* dlq_auto_replay_outbox_attempt_ceiling
          StreakLimit,   \* dlq_auto_replay_failure_streak_limit
          MaxRetries,    \* email_max_retries
          BatchSize,     \* job_outbox_batch_size, dlq_auto_replay_max_per_org
          MaxReplays,    \* bound: replay requests
          MaxFaults,     \* bound: jobs and requests that die
          NoMessage

Kinds == {"delivery", "replay", "failures"}

ASSUME OutboxAssumption ==
  /\ Messages \subseteq Nat /\ Direct \subseteq Messages
  /\ KindOf \in [Jobs -> Kinds]
  /\ {MaxAttempts, Ceiling, StreakLimit, MaxRetries, BatchSize} \subseteq Nat \ {0}
  /\ {MaxReplays, MaxFaults} \subseteq Nat
  /\ NoMessage \notin Messages

VARIABLES
  row,       \* outbox_events
  failure,   \* email_failures
  sender,    \* the request that sends its own message
  job,       \* what each job run has read and delivered
  admin,     \* what each replay request has read
  accepted,  \* how often the provider took the message
  tried,     \* deliveries of its outbox row by jobs, counted up to MaxAttempts
  replays, faults

vars == <<row, failure, sender, job, admin, accepted, tried, replays, faults>>

OnlyPending == {"pending"}

PendingStatuses == {"pending", "retry"}

NoRow == [status |-> "absent", attempts |-> 0, next |-> "none"]
NoJob == [todo |-> {}, seen |-> [m \in Messages |-> NoRow],
          outcome |-> [m \in Messages |-> "none"], streak |-> 0]
NoAdmin == [msg |-> NoMessage, seen |-> NoRow]

Init ==
  /\ row = [m \in Messages |-> NoRow]
  /\ failure = [m \in Messages |-> NoRow]
  /\ sender = [m \in Messages |-> "idle"]
  /\ job = [j \in Jobs |-> NoJob]
  /\ admin = [a \in Admins |-> NoAdmin]
  /\ accepted = [m \in Messages |-> 0] /\ tried = [m \in Messages |-> 0]
  /\ replays = 0 /\ faults = 0

-----------------------------------------------------------------------------
(* The rows a job has written and not committed.                            *)

Oldest(S) == CHOOSE m \in S : \A n \in S : m <= n

Flushed(j) == {m \in Messages : job[j].outcome[m] # "none"} \ job[j].todo

OnFailures(j) == KindOf[j] = "failures"

\* No job but j holds the outbox row of m.
RowFree(j, m) == \A k \in Jobs \ {j} : OnFailures(k) \/ m \notin Flushed(k)

FailureFree(j, m) == \A k \in Jobs \ {j} : ~OnFailures(k) \/ m \notin Flushed(k)

UnlockedRow(m) == \A k \in Jobs : OnFailures(k) \/ m \notin Flushed(k)

-----------------------------------------------------------------------------
(* Enqueueing, and the request that sends its own email.                    *)

\* One row per dedupe key; a second call finds the key and does nothing.
Enqueue(m) ==
  /\ row[m].status = "absent"
  /\ \A n \in Messages : n < m => row[n].status # "absent"
  /\ row' = [row EXCEPT ![m] = [status |-> "pending", attempts |-> 0, next |-> "now"]]
  /\ sender' = [sender EXCEPT ![m] = IF m \in Direct THEN "sending" ELSE "idle"]
  /\ UNCHANGED <<failure, job, admin, accepted, tried, replays, faults>>

SenderDelivers(m) ==
  /\ sender[m] = "sending"
  /\ \/ /\ sender' = [sender EXCEPT ![m] = "accepted"]
        /\ accepted' = [accepted EXCEPT ![m] = @ + 1]
     \/ /\ sender' = [sender EXCEPT ![m] = "refused"]
        /\ UNCHANGED accepted
  /\ UNCHANGED <<row, failure, job, admin, tried, replays, faults>>

MarksSentWhateverCame(m) ==
  /\ sender[m] \in {"accepted", "refused"} /\ UnlockedRow(m)
  /\ row' = [row EXCEPT ![m].status = "sent", ![m].next = "none"]
  /\ sender' = [sender EXCEPT ![m] = "idle"]
  /\ UNCHANGED <<failure, job, admin, accepted, tried, replays, faults>>

\* The request read the row as pending, so both columns are written.
SenderMarksSent(m) ==
  /\ sender[m] = "accepted" /\ UnlockedRow(m)
  /\ row' = [row EXCEPT ![m].status = "sent", ![m].next = "none"]
  /\ sender' = [sender EXCEPT ![m] = "idle"]
  /\ UNCHANGED <<failure, job, admin, accepted, tried, replays, faults>>

\* A refused email gets an email_failures row; its outbox row stays due.
SenderRecordsFailure(m) ==
  /\ sender[m] = "refused" /\ UnlockedRow(m)
  /\ failure' = [failure EXCEPT ![m] =
       IF MaxRetries = 1 THEN [status |-> "dead", attempts |-> 1, next |-> "none"]
                         ELSE [status |-> "pending", attempts |-> 1, next |-> "later"]]
  /\ sender' = [sender EXCEPT ![m] = "idle"]
  /\ UNCHANGED <<row, job, admin, accepted, tried, replays, faults>>

SenderDies(m) ==
  /\ sender[m] # "idle" /\ faults < MaxFaults
  /\ sender' = [sender EXCEPT ![m] = "idle"]
  /\ faults' = faults + 1
  /\ UNCHANGED <<row, failure, job, admin, accepted, tried, replays>>

-----------------------------------------------------------------------------
(* The jobs.                                                                *)

Due(kind) ==
  CASE kind = "delivery" ->
         {m \in Messages : row[m].status \in PendingStatuses /\ row[m].next = "now"}
    [] kind = "replay" ->
         {m \in Messages : row[m].status = "dead" /\ row[m].attempts < Ceiling}
    [] kind = "failures" ->
         {m \in Messages : failure[m].status = "pending" /\ failure[m].next = "now"}

\* The oldest rows, up to the batch size; the email-dlq job's hundred holds them all.
Batch(kind) ==
  {m \in Due(kind) :
     kind = "failures" \/ Cardinality({n \in Due(kind) : n < m}) < BatchSize}

\* SELECT of the due rows: what the job knows of them until it commits.
Begin(j) ==
  LET kind == KindOf[j]
      seen == IF kind = "failures" THEN failure ELSE row IN
  /\ job[j] = NoJob /\ Batch(kind) # {}
  /\ job' = [job EXCEPT ![j].todo = Batch(kind),
                        ![j].seen = [m \in Messages |->
                                      IF m \in Batch(kind) THEN seen[m] ELSE NoRow]]
  /\ UNCHANGED <<row, failure, sender, admin, accepted, tried, replays, faults>>

Stopped(j) ==
  \/ job[j].todo = {}
  \/ KindOf[j] = "replay" /\ job[j].streak >= StreakLimit

\* The provider takes or refuses the message; nothing is written yet.
Deliver(j) ==
  LET m == Oldest(job[j].todo) IN
  /\ ~Stopped(j) /\ job[j].outcome[m] = "none"
  /\ \/ /\ job' = [job EXCEPT ![j].outcome[m] = "sent"]
        /\ accepted' = [accepted EXCEPT ![m] = @ + 1]
     \/ /\ job' = [job EXCEPT ![j].outcome[m] = "failed"]
        /\ UNCHANGED accepted
  /\ tried' = [tried EXCEPT ![m] = IF OnFailures(j) \/ @ = MaxAttempts THEN @ ELSE @ + 1]
  /\ UNCHANGED <<row, failure, sender, admin, replays, faults>>

\* The UPDATE of the row waits for a job that has written it and not committed.
Flush(j) ==
  LET m == Oldest(job[j].todo) IN
  /\ job[j].todo # {} /\ job[j].outcome[m] # "none"
  /\ IF OnFailures(j) THEN FailureFree(j, m) ELSE RowFree(j, m)
  /\ job' = [job EXCEPT ![j].todo = @ \ {m},
       ![j].streak = IF KindOf[j] # "replay" \/ job[j].outcome[m] = "sent" THEN 0 ELSE @ + 1]
  /\ UNCHANGED <<row, failure, sender, admin, accepted, tried, replays, faults>>

GivesUpEarly(attempts, outcome) ==
  IF outcome = "sent" THEN [status |-> "sent", attempts |-> attempts, next |-> "none"]
  ELSE IF attempts + 1 >= MaxAttempts THEN [status |-> "dead", attempts |-> attempts, next |-> "none"]
  ELSE [status |-> "retry", attempts |-> attempts, next |-> "later"]

\* What deliver_outbox_event assigns to a row with this many attempts.
Delivered(attempts, outcome) ==
  IF outcome = "sent" THEN [status |-> "sent", attempts |-> attempts, next |-> "none"]
  ELSE IF attempts >= MaxAttempts THEN [status |-> "dead", attempts |-> attempts, next |-> "none"]
  ELSE [status |-> "retry", attempts |-> attempts, next |-> "later"]

\* The row old after an UPDATE of the columns in which new differs from what the
\* writer has seen; two times are never the same.
WrittenOver(old, seen, new) ==
  [status |-> IF new.status = seen.status THEN old.status ELSE new.status,
   attempts |-> IF new.attempts = seen.attempts THEN old.attempts ELSE new.attempts,
   next |-> IF new.next = "none" /\ seen.next = "none" THEN old.next ELSE new.next]

RetriedAsOutbox(attempts, outcome) ==
  IF outcome = "sent" THEN [status |-> "sent", attempts |-> attempts, next |-> "none"]
  ELSE IF attempts >= MaxRetries THEN [status |-> "dead", attempts |-> attempts, next |-> "none"]
  ELSE [status |-> "retry", attempts |-> attempts, next |-> "later"]

\* The email-dlq job's UPDATE names every column.
Retried(attempts, outcome) ==
  IF outcome = "sent" THEN [status |-> "sent", attempts |-> attempts, next |-> "none"]
  ELSE IF attempts >= MaxRetries THEN [status |-> "dead", attempts |-> attempts, next |-> "none"]
  ELSE [status |-> "pending", attempts |-> attempts, next |-> "later"]

\* One commit for the batch.
Commit(j) ==
  LET seen == job[j].seen
      outcome == job[j].outcome IN
  /\ job[j] # NoJob /\ Stopped(j)
  /\ row' = [m \in Messages |->
       IF ~OnFailures(j) /\ m \in Flushed(j)
       THEN WrittenOver(row[m], seen[m], Delivered(seen[m].attempts + 1, outcome[m]))
       ELSE row[m]]
  /\ failure' = [m \in Messages |->
       IF OnFailures(j) /\ m \in Flushed(j)
       THEN Retried(seen[m].attempts + 1, outcome[m])
       ELSE failure[m]]
  /\ job' = [job EXCEPT ![j] = NoJob]
  /\ UNCHANGED <<sender, admin, accepted, tried, replays, faults>>

\* The process dies or the commit fails: nothing of the batch is written.
JobDies(j) ==
  /\ job[j] # NoJob /\ faults < MaxFaults
  /\ job' = [job EXCEPT ![j] = NoJob]
  /\ faults' = faults + 1
  /\ UNCHANGED <<row, failure, sender, admin, accepted, tried, replays>>

-----------------------------------------------------------------------------
(* The admin's replay of one row, in whatever status it is.                 *)

ReplayRead(a, m) ==
  /\ admin[a] = NoAdmin /\ row[m].status # "absent" /\ replays < MaxReplays
  /\ admin' = [admin EXCEPT ![a] = [msg |-> m, seen |-> row[m]]]
  /\ replays' = replays + 1
  /\ UNCHANGED <<row, failure, sender, job, accepted, tried, faults>>

ResetWithoutTime == [status |-> "pending", attempts |-> 0, next |-> "none"]

Reset == [status |-> "pending", attempts |-> 0, next |-> "now"]

ReplayWrite(a) ==
  LET m == admin[a].msg IN
  /\ admin[a] # NoAdmin /\ UnlockedRow(m)
  /\ row' = [row EXCEPT ![m] = WrittenOver(@, admin[a].seen, Reset)]
  /\ admin' = [admin EXCEPT ![a] = NoAdmin]
  /\ UNCHANGED <<failure, sender, job, accepted, tried, replays, faults>>

\* A backoff of thirty seconds or more passes; a replay request is over sooner.
RowComesDue(m) ==
  /\ row[m].next = "later" /\ \A a \in Admins : admin[a].msg # m
  /\ row' = [row EXCEPT ![m].next = "now"]
  /\ UNCHANGED <<failure, sender, job, admin, accepted, tried, replays, faults>>

FailureComesDue(m) ==
  /\ failure[m].next = "later"
  /\ failure' = [failure EXCEPT ![m].next = "now"]
  /\ UNCHANGED <<row, sender, job, admin, accepted, tried, replays, faults>>

Next ==
  \/ \E m \in Messages :
       Enqueue(m) \/ SenderDelivers(m) \/ SenderMarksSent(m) \/ SenderRecordsFailure(m)
         \/ SenderDies(m) \/ RowComesDue(m) \/ FailureComesDue(m)
  \/ \E j \in Jobs : Begin(j) \/ Deliver(j) \/ Flush(j) \/ Commit(j) \/ JobDies(j)
  \/ \E a \in Admins : ReplayWrite(a) \/ \E m \in Messages : ReplayRead(a, m)

Spec == Init /\ [][Next]_vars

\* The runner starts the delivery and email-dlq jobs in every round and they come
\* to an end, and so does a replay request; a lock that comes free again and again is granted.
Fairness ==
  /\ \A m \in Messages : WF_vars(RowComesDue(m)) /\ WF_vars(FailureComesDue(m))
  /\ \A j \in Jobs :
       /\ KindOf[j] # "replay" => WF_vars(Begin(j))
       /\ WF_vars(Deliver(j)) /\ SF_vars(Flush(j)) /\ WF_vars(Commit(j))
  /\ \A a \in Admins : SF_vars(ReplayWrite(a))

FairSpec == Spec /\ Fairness

-----------------------------------------------------------------------------
(* Properties.                                                              *)

OutboxRow == [status : {"absent", "pending", "retry", "sent", "dead"},
              attempts : Nat, next : {"none", "now", "later"}]
FailureRow == [status : {"absent", "pending", "sent", "dead"},
               attempts : Nat, next : {"none", "now", "later"}]
JobRecord == [todo : SUBSET Messages, seen : [Messages -> OutboxRow],
              outcome : [Messages -> {"none", "sent", "failed"}], streak : Nat]
AdminRecord == [msg : Messages \cup {NoMessage}, seen : OutboxRow]

\* Every variable has its type.
TypeOK ==
  /\ row \in [Messages -> OutboxRow]
  /\ failure \in [Messages -> FailureRow]
  /\ sender \in [Messages -> {"idle", "sending", "accepted", "refused"}]
  /\ job \in [Jobs -> JobRecord]
  /\ admin \in [Admins -> AdminRecord]
  /\ accepted \in [Messages -> Nat]
  /\ tried \in [Messages -> 0..MaxAttempts]
  /\ replays \in 0..MaxReplays /\ faults \in 0..MaxFaults

\* No message is marked sent that the provider never took, whoever wrote the mark
\* over whose.
SentWasAccepted ==
  \A m \in Messages :
    row[m].status = "sent" \/ failure[m].status = "sent" => accepted[m] > 0

\* A message that waits for delivery has a time at which the delivery job will find
\* it: overlapping partial updates never leave one that no job selects, as long as
\* the automatic replay stays off (dlq_auto_replay_enabled is False by default).
NothingStranded ==
  (\A j \in Jobs : KindOf[j] # "replay") =>
    \A m \in Messages :
      /\ row[m].status \in {"pending", "retry"} => row[m].next # "none"
      /\ failure[m].status = "pending" => failure[m].next # "none"

\* A row is dead only after outbox_max_attempts deliveries, whatever
\* overlapping jobs, lost batches and replays do to its counter.
DeadWasTried ==
  \A m \in Messages : row[m].status = "dead" => tried[m] = MaxAttempts

\* Every enqueued message is eventually sent or given up for good, however long the
\* queue before it and however often it is replayed automatically, and so is every
\* failed email.
EverySettled ==
  \A m \in Messages :
    /\ row[m].status # "absent" ~> [](row[m].status \in {"sent", "dead"})
    /\ failure[m].status = "pending" ~> [](failure[m].status \in {"sent", "dead"})

\* A replayed message waits for the delivery job, which "pops due rows"
\* (backend/OPERATIONS.md:182): whatever is pending or to be retried comes due.
ReplayedComesDue ==
  \A m \in Messages : row[m].status \in {"pending", "retry"} => row[m].next # "none"

-----------------------------------------------------------------------------
(* The inductive invariant the proofs rest on.                              *)

\* Whoever is about to write "sent" has had the provider take the message.
OutcomeInv ==
  \A m \in Messages :
    /\ sender[m] = "accepted" => accepted[m] > 0
    /\ \A j \in Jobs : job[j].outcome[m] = "sent" => accepted[m] > 0

\* No counter, in the table or in what a job has read, runs ahead of the
\* deliveries that were made.
AttemptsInv ==
  \A m \in Messages : tried[m] = MaxAttempts \/
    /\ row[m].attempts <= tried[m]
    /\ \A j \in Jobs : ~OnFailures(j) =>
         /\ job[j].seen[m].attempts <= tried[m]
         /\ job[j].outcome[m] # "none" => job[j].seen[m].attempts + 1 <= tried[m]

Inv == TypeOK /\ OutcomeInv /\ AttemptsInv /\ SentWasAccepted /\ DeadWasTried
=============================================================================
