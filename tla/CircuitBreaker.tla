--------------------------- MODULE CircuitBreaker ---------------------------
(* The circuit breaker that every call to Stripe, to the e-mail provider and  *)
(* to S3 goes through (backend/app/shared/circuit_breaker.py), one breaker    *)
(* and its concurrent callers.                                                *)
(*                                                                            *)
(* The breaker's lock is held only over steps that do not await, so           *)
(* _ensure_available, _record_failure and _record_success are one step each;  *)
(* what interleaves is the time a call takes: any number of calls may have    *)
(* been let in before the breaker opens and end after it, in any order.       *)
(* Time is kept as ages (time since), each stopped at the first value that    *)
(* no longer makes a difference, so that time itself is unbounded.            *)
EXTENDS Integers, Sequences, FiniteSets

CONSTANTS
    Callers,        \* concurrent calls through one breaker
    Threshold,      \* failure_threshold
    Recovery,       \* recovery_time
    Window,         \* window_seconds
    HalfOpenMax     \* half_open_max_calls

ASSUME CallersFinite == IsFiniteSet(Callers)
ASSUME LimitsPositive ==
    /\ Threshold \in Nat \ {0}      \* max(1, failure_threshold)
    /\ HalfOpenMax \in Nat \ {0}    \* max(1, half_open_max_calls)
    /\ Recovery \in Nat \ {0}       \* max(0.01, recovery_time)
    /\ Window \in Nat \ {0}         \* max(0.01, window_seconds)

VARIABLES
    state,          \* _state
    openedFor,      \* time since _opened_at, at most Recovery
    failures,       \* _failures: the age of each failure, oldest first
    halfOpenCalls,  \* _half_open_calls
    call,           \* history of each caller: idle, let in by the closed
                    \* breaker, a probe of this half-open phase, or of a past one
    rest            \* history: what is left of Recovery since the breaker last
                    \* opened, 0 once a success was recorded

vars == <<state, openedFor, failures, halfOpenCalls, call, rest>>

States == {"closed", "open", "half_open"}
Calls == {"idle", "normal", "probe", "past"}

(* The failures older than window_seconds, the first ones of the deque.       *)
Old(fs) == {i \in DOMAIN fs : fs[i] > Window}

(* What _record_failure leaves after popping those from the left.             *)
Recent(fs) == SubSeq(fs, Cardinality(Old(fs)) + 1, Len(fs))

Probes == {c \in Callers : call[c] = "probe"}

(* A probe of a half-open phase that is over.                                 *)
Past(calls) == [c \in Callers |-> IF calls[c] = "probe" THEN "past" ELSE calls[c]]

TypeOK ==
    /\ state \in States
    /\ openedFor \in 0 .. Recovery
    /\ failures \in Seq(0 .. Window + 1)
    /\ halfOpenCalls \in 0 .. HalfOpenMax
    /\ call \in [Callers -> Calls]
    /\ rest \in 0 .. Recovery

Init ==
    /\ state = "closed"
    /\ openedFor = Recovery          \* _opened_at = 0.0
    /\ failures = <<>>
    /\ halfOpenCalls = 0
    /\ call = [c \in Callers |-> "idle"]
    /\ rest = 0

(****************************************************************************)
(* _ensure_available                                                        *)
(****************************************************************************)

(* Closed: the call goes through, uncounted.                                *)
AdmitClosed(c) ==
    /\ call[c] = "idle"
    /\ state = "closed"
    /\ call' = [call EXCEPT ![c] = "normal"]
    /\ UNCHANGED <<state, openedFor, failures, halfOpenCalls, rest>>

(* Open for recovery_time: half-open, and this call is the first probe.     *)
AdmitFirstProbe(c) ==
    /\ call[c] = "idle"
    /\ state = "open"
    /\ openedFor >= Recovery
    /\ state' = "half_open"
    /\ halfOpenCalls' = 1
    /\ call' = [Past(call) EXCEPT ![c] = "probe"]
    /\ UNCHANGED <<openedFor, failures, rest>>

(* Mutant: one probe too many.                                              *)
AdmitProbeAtLimit(c) ==
    /\ call[c] = "idle"
    /\ state = "half_open"
    /\ halfOpenCalls <= HalfOpenMax
    /\ halfOpenCalls' = halfOpenCalls + 1
    /\ call' = [call EXCEPT ![c] = "probe"]
    /\ UNCHANGED <<state, openedFor, failures, rest>>

(* Half-open: a probe as long as fewer than half_open_max_calls were let    *)
(* in. Every other call is refused, which changes nothing.                  *)
AdmitProbe(c) ==
    /\ call[c] = "idle"
    /\ state = "half_open"
    /\ halfOpenCalls < HalfOpenMax
    /\ halfOpenCalls' = halfOpenCalls + 1
    /\ call' = [call EXCEPT ![c] = "probe"]
    /\ UNCHANGED <<state, openedFor, failures, rest>>

Admit(c) == AdmitClosed(c) \/ AdmitFirstProbe(c) \/ AdmitProbe(c)

(****************************************************************************)
(* How a call ends                                                          *)
(****************************************************************************)

(* Mutant: the breaker opens one failure after the threshold.                *)
FailOneLate(c) ==
    LET kept == Recent(Append(failures, 0))
    IN  /\ call[c] # "idle"
        /\ failures' = kept
        /\ \/ /\ Len(kept) > Threshold
              /\ state' = "open"
              /\ openedFor' = 0
              /\ halfOpenCalls' = 0
              /\ call' = [Past(call) EXCEPT ![c] = "idle"]
              /\ rest' = Recovery
           \/ /\ ~(Len(kept) > Threshold)
              /\ call' = [call EXCEPT ![c] = "idle"]
              /\ UNCHANGED <<state, openedFor, halfOpenCalls, rest>>

(* Mutant: a failure while open does not move _opened_at.                    *)
FailKeepingOpenedAt(c) ==
    LET kept == Recent(Append(failures, 0))
    IN  /\ call[c] # "idle"
        /\ failures' = kept
        /\ \/ /\ Len(kept) >= Threshold
              /\ state' = "open"
              /\ openedFor' = IF state = "open" THEN openedFor ELSE 0
              /\ halfOpenCalls' = 0
              /\ call' = [Past(call) EXCEPT ![c] = "idle"]
              /\ rest' = Recovery
           \/ /\ ~(Len(kept) >= Threshold)
              /\ call' = [call EXCEPT ![c] = "idle"]
              /\ UNCHANGED <<state, openedFor, halfOpenCalls, rest>>

(* Mutant: a failure below the threshold gives its place to another probe.   *)
FailFreeingProbe(c) ==
    LET kept == Recent(Append(failures, 0))
    IN  /\ call[c] # "idle"
        /\ failures' = kept
        /\ \/ /\ Len(kept) >= Threshold
              /\ state' = "open"
              /\ openedFor' = 0
              /\ halfOpenCalls' = 0
              /\ call' = [Past(call) EXCEPT ![c] = "idle"]
              /\ rest' = Recovery
           \/ /\ ~(Len(kept) >= Threshold)
              /\ call' = [call EXCEPT ![c] = "idle"]
              /\ halfOpenCalls' = 0
              /\ UNCHANGED <<state, openedFor, rest>>

(* _record_failure: an exception or a timeout, whenever the call was let    *)
(* in. The breaker opens, or is held open for another recovery_time.        *)
Fail(c) ==
    LET kept == Recent(Append(failures, 0))
    IN  /\ call[c] # "idle"
        /\ failures' = kept
        /\ \/ /\ Len(kept) >= Threshold
              /\ state' = "open"
              /\ openedFor' = 0
              /\ halfOpenCalls' = 0
              /\ call' = [Past(call) EXCEPT ![c] = "idle"]
              /\ rest' = Recovery
           \/ /\ Len(kept) < Threshold
              /\ call' = [call EXCEPT ![c] = "idle"]
              /\ UNCHANGED <<state, openedFor, halfOpenCalls, rest>>

(* _record_success: whatever the state is and whenever the call was let in. *)
Succeed(c) ==
    /\ call[c] # "idle"
    /\ failures' = <<>>
    /\ state' = "closed"
    /\ halfOpenCalls' = 0
    /\ call' = [Past(call) EXCEPT ![c] = "idle"]
    /\ rest' = 0
    /\ UNCHANGED openedFor

(* The caller's task is cancelled: CancelledError is no Exception, so call  *)
(* records neither a failure nor a success.                                 *)
Cancel(c) ==
    /\ call[c] # "idle"
    /\ call' = [call EXCEPT ![c] = "idle"]
    /\ UNCHANGED <<state, openedFor, failures, halfOpenCalls, rest>>

(* time.monotonic() moves on.                                               *)
Tick ==
    /\ openedFor' = IF openedFor < Recovery THEN openedFor + 1 ELSE openedFor
    /\ failures' = [i \in DOMAIN failures |->
                        IF failures[i] <= Window THEN failures[i] + 1 ELSE failures[i]]
    /\ rest' = IF rest > 0 THEN rest - 1 ELSE 0
    /\ UNCHANGED <<state, halfOpenCalls, call>>

Next ==
    \/ Tick
    \/ \E c \in Callers : Admit(c) \/ Fail(c) \/ Succeed(c) \/ Cancel(c)

Spec == Init /\ [][Next]_vars

(* Time passes; a call ends (every breaker in use bounds the time of its    *)
(* calls by a timeout of its own or of the client library); and there is    *)
(* always somebody who calls again.                                         *)
Fairness ==
    /\ WF_vars(Tick)
    /\ \A c \in Callers :
        /\ WF_vars(Admit(c))
        /\ WF_vars(Fail(c) \/ Succeed(c) \/ Cancel(c))

FairSpec == Spec /\ Fairness

(****************************************************************************)
(* Properties                                                               *)
(****************************************************************************)

(* A breaker that lets everybody through has seen fewer than the threshold  *)
(* of failures in its window, whatever calls ended late and however many    *)
(* probes failed before one succeeded.                                      *)
ClosedIsHealthy == state = "closed" => Cardinality(DOMAIN failures \ Old(failures)) < Threshold

(* A dependency under test is never hit by more than half_open_max_calls    *)
(* probes of the same half-open phase, although calls of earlier phases end *)
(* and reset the count while these probes run.                              *)
ProbesBounded ==
    /\ Cardinality(Probes) <= HalfOpenMax
    /\ Probes # {} => state = "half_open"

(* Once the breaker has opened the dependency gets recovery_time without a  *)
(* new call, counted from the last failure that (re)opened it, unless a     *)
(* call that was still running then succeeds.                               *)
RestIsKept ==
    [][\A c \in Callers : call[c] = "idle" /\ call'[c] # "idle" => rest = 0]_vars

(* No call is running and none can ever be let in again.                    *)
Stuck ==
    /\ state = "half_open"
    /\ halfOpenCalls = HalfOpenMax
    /\ \A c \in Callers : call[c] = "idle"

(* The probes decide: a half-open breaker opens again or closes, as         *)
(* backend/tests/test_circuit_breaker.py expects of a failed probe (line    *)
(* 26) and of a successful one (line 40).                                   *)
HalfOpenIsDecided == (state = "half_open") ~> (state # "half_open")
=============================================================================
