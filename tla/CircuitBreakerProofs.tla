------------------------ MODULE CircuitBreakerProofs ------------------------
(* Proofs about CircuitBreaker, for any number of callers and any limits. The *)
(* inductive invariant is the conjunction of TypeOK, of how the rest of the   *)
(* recovery time follows from the time since the breaker opened (Resting), of *)
(* the count of probes (Counted) and of ClosedIsHealthy.                      *)
EXTENDS CircuitBreaker, FiniteSetTheorems, SequenceTheorems, TLAPS

Resting ==
    /\ state = "open" => rest + openedFor = Recovery
    /\ state # "open" => rest = 0

Counted ==
    /\ Cardinality(Probes) <= halfOpenCalls
    /\ Probes # {} => state = "half_open"

IInv == TypeOK /\ Resting /\ Counted /\ ClosedIsHealthy

(****************************************************************************)
(* Lemmas about the deque and about the probes                              *)
(****************************************************************************)

(* Popping the old failures leaves a deque of failures.                     *)
LEMMA RecentType ==
    ASSUME NEW fs \in Seq(0 .. Window + 1)
    PROVE  Recent(fs) \in Seq(0 .. Window + 1)
<1>1. Len(fs) \in Nat /\ DOMAIN fs = 1 .. Len(fs)
  BY LenProperties
<1>2. IsFiniteSet(Old(fs)) /\ Cardinality(Old(fs)) \in Nat
  <2>1. IsFiniteSet(1 .. Len(fs))
    BY <1>1, FS_Interval
  <2>2. Old(fs) \subseteq 1 .. Len(fs)
    BY <1>1 DEF Old
  <2> QED
    BY <2>1, <2>2, FS_Subset, FS_CardinalityType
<1> DEFINE n == Cardinality(Old(fs)) + 1
           top == Len(fs)
<1>3. n \in Int /\ n >= 1 /\ top \in Int
  BY <1>1, <1>2
<1>4. \A i \in n .. top : i \in 1 .. top
  <2> HIDE DEF n, top
  <2> QED
    BY <1>3
<1>5. \A i \in n .. top : fs[i] \in 0 .. Window + 1
  <2> SUFFICES ASSUME NEW i \in n .. top PROVE fs[i] \in 0 .. Window + 1
    OBVIOUS
  <2>1. i \in 1 .. Len(fs)
    BY <1>4
  <2> HIDE DEF n, top
  <2> QED
    BY <2>1, ElementOfSeq
<1>6. SubSeq(fs, n, top) \in Seq(0 .. Window + 1)
  <2> HIDE DEF n, top
  <2> QED
    BY <1>3, <1>5, SubSeqProperties
<1> QED
  BY <1>6 DEF Recent

(* The failures of the window are among the positions of the deque.         *)
LEMMA FreshBound ==
    ASSUME NEW fs \in Seq(0 .. Window + 1)
    PROVE  /\ IsFiniteSet(DOMAIN fs \ Old(fs))
           /\ Cardinality(DOMAIN fs \ Old(fs)) \in Nat
           /\ Cardinality(DOMAIN fs \ Old(fs)) <= Len(fs)
<1>1. Len(fs) \in Nat /\ DOMAIN fs = 1 .. Len(fs)
  BY LenProperties
<1>2. IsFiniteSet(1 .. Len(fs)) /\ Cardinality(1 .. Len(fs)) = Len(fs)
  <2> DEFINE top == Len(fs)
  <2>1. top \in Nat
    BY <1>1
  <2> HIDE DEF top
  <2>2. IsFiniteSet(1 .. top) /\ Cardinality(1 .. top) = IF 1 > top THEN 0 ELSE top - 1 + 1
    BY <2>1, FS_Interval
  <2>3. Cardinality(1 .. top) = top
    BY <2>1, <2>2
  <2> QED
    BY <2>2, <2>3 DEF top
<1>3. DOMAIN fs \ Old(fs) \subseteq 1 .. Len(fs)
  BY <1>1
<1>4. /\ IsFiniteSet(DOMAIN fs \ Old(fs))
      /\ Cardinality(DOMAIN fs \ Old(fs)) <= Cardinality(1 .. Len(fs))
  BY <1>2, <1>3, FS_Subset
<1> QED
  BY <1>2, <1>4, FS_CardinalityType

(* The probes are finitely many.                                            *)
LEMMA ProbesFinite ==
    /\ IsFiniteSet(Probes)
    /\ Cardinality(Probes) \in Nat
<1>1. Probes \subseteq Callers
  BY DEF Probes
<1> QED
  BY <1>1, CallersFinite, FS_Subset, FS_CardinalityType

(* When a half-open phase is over, its probes are no probes any more.       *)
LEMMA NoProbesAfter ==
    ASSUME TypeOK, NEW c \in Callers,
           call' = [Past(call) EXCEPT ![c] = "idle"]
    PROVE  Probes' = {} /\ call' \in [Callers -> Calls]
BY DEF TypeOK, Past, Probes, Calls

(* Fewer probes than a set that was counted.                                *)
LEMMA FewerProbes ==
    ASSUME Counted, Probes' \subseteq Probes, state' = state,
           halfOpenCalls \in Nat, halfOpenCalls' = halfOpenCalls
    PROVE  Counted'
<1>1. IsFiniteSet(Probes) /\ Cardinality(Probes) \in Nat
  BY ProbesFinite
<1>2. Cardinality(Probes') <= Cardinality(Probes) /\ Cardinality(Probes') \in Nat
  BY <1>1, FS_Subset, FS_CardinalityType
<1> QED
  BY <1>1, <1>2 DEF Counted

(* No probe: the count is right whatever it is.                             *)
LEMMA NothingCounted ==
    ASSUME Probes' = {}, halfOpenCalls' \in Nat
    PROVE  Counted'
<1>1. Cardinality({}) = 0
  BY FS_EmptySet
<1> QED
  BY <1>1 DEF Counted

(****************************************************************************)
(* The invariant                                                            *)
(****************************************************************************)

LEMMA InitInv == Init => IInv
<1> SUFFICES ASSUME Init PROVE IInv
  OBVIOUS
<1> USE LimitsPositive
<1>1. TypeOK
  BY EmptySeq DEF Init, TypeOK, States, Calls
<1>2. Resting
  BY DEF Init, Resting
<1>3. Counted
  <2>1. Probes = {}
    BY DEF Init, Probes
  <2> QED
    BY <2>1, FS_EmptySet DEF Counted, Init
<1>4. ClosedIsHealthy
  <2>1. DOMAIN failures \ Old(failures) = {}
    BY DEF Init
  <2> QED
    BY <2>1, FS_EmptySet DEF ClosedIsHealthy
<1> QED
  BY <1>1, <1>2, <1>3, <1>4 DEF IInv

LEMMA StutterInv == IInv /\ UNCHANGED vars => IInv'
<1> SUFFICES ASSUME IInv, UNCHANGED vars PROVE IInv'
  OBVIOUS
<1> QED
  BY DEF IInv, vars, TypeOK, Resting, Counted, ClosedIsHealthy, Probes

LEMMA TickInv == IInv /\ Tick => IInv'
<1> SUFFICES ASSUME IInv, Tick PROVE IInv'
  OBVIOUS
<1> USE LimitsPositive
<1>1. Len(failures) \in Nat /\ DOMAIN failures = 1 .. Len(failures)
  BY LenProperties DEF IInv, TypeOK
<1>2. \A i \in DOMAIN failures : failures[i] \in 0 .. Window + 1
  BY <1>1, ElementOfSeq DEF IInv, TypeOK
<1>3. /\ DOMAIN failures' = DOMAIN failures
      /\ \A i \in DOMAIN failures :
            failures'[i] = IF failures[i] <= Window THEN failures[i] + 1 ELSE failures[i]
  BY DEF Tick
<1>4. failures' \in Seq(0 .. Window + 1)
  <2>1. \A i \in 1 .. Len(failures) :
            (IF failures[i] <= Window THEN failures[i] + 1 ELSE failures[i]) \in 0 .. Window + 1
    BY <1>1, <1>2
  <2>2. failures' = [i \in 1 .. Len(failures) |->
            IF failures[i] <= Window THEN failures[i] + 1 ELSE failures[i]]
    BY <1>1 DEF Tick
  <2> QED
    BY <1>1, <2>1, <2>2, IsASeq
<1>5. TypeOK'
  BY <1>4 DEF IInv, TypeOK, Tick
<1>6. Resting'
  BY DEF IInv, TypeOK, Resting, Tick
<1>7. Counted'
  BY DEF IInv, Counted, Probes, Tick
<1>8. ClosedIsHealthy'
  <2>1. (DOMAIN failures \ Old(failures))' \subseteq DOMAIN failures \ Old(failures)
    BY <1>2, <1>3 DEF Old
  <2>2. /\ IsFiniteSet(DOMAIN failures \ Old(failures))
        /\ Cardinality(DOMAIN failures \ Old(failures)) \in Nat
    BY FreshBound DEF IInv, TypeOK
  <2>3. /\ Cardinality((DOMAIN failures \ Old(failures))') <= Cardinality(DOMAIN failures \ Old(failures))
        /\ Cardinality((DOMAIN failures \ Old(failures))') \in Nat
    BY <2>1, <2>2, FS_Subset, FS_CardinalityType
  <2> QED
    BY <2>2, <2>3 DEF IInv, ClosedIsHealthy, Tick
<1> QED
  BY <1>5, <1>6, <1>7, <1>8 DEF IInv

LEMMA AdmitClosedInv == ASSUME NEW c \in Callers PROVE IInv /\ AdmitClosed(c) => IInv'
<1> SUFFICES ASSUME IInv, AdmitClosed(c) PROVE IInv'
  OBVIOUS
<1>1. TypeOK'
  BY DEF IInv, TypeOK, AdmitClosed, Calls
<1>2. Resting'
  BY DEF IInv, Resting, AdmitClosed
<1>3. Counted'
  <2>1. Probes' \subseteq Probes
    BY DEF IInv, TypeOK, AdmitClosed, Probes
  <2> QED
    BY <2>1, FewerProbes DEF IInv, TypeOK, AdmitClosed
<1>4. ClosedIsHealthy'
  BY DEF IInv, ClosedIsHealthy, AdmitClosed
<1> QED
  BY <1>1, <1>2, <1>3, <1>4 DEF IInv

LEMMA AdmitFirstProbeInv ==
    ASSUME NEW c \in Callers PROVE IInv /\ AdmitFirstProbe(c) => IInv'
<1> SUFFICES ASSUME IInv, AdmitFirstProbe(c) PROVE IInv'
  OBVIOUS
<1> USE LimitsPositive
<1>1. call' \in [Callers -> Calls] /\ Probes' = {c}
  BY DEF IInv, TypeOK, AdmitFirstProbe, Past, Probes, Calls
<1>2. TypeOK'
  BY <1>1 DEF IInv, TypeOK, AdmitFirstProbe, States
<1>3. Resting'
  BY DEF IInv, TypeOK, Resting, AdmitFirstProbe
<1>4. Counted'
  BY <1>1, FS_Singleton DEF Counted, AdmitFirstProbe
<1>5. ClosedIsHealthy'
  BY DEF ClosedIsHealthy, AdmitFirstProbe
<1> QED
  BY <1>2, <1>3, <1>4, <1>5 DEF IInv

LEMMA AdmitProbeInv == ASSUME NEW c \in Callers PROVE IInv /\ AdmitProbe(c) => IInv'
<1> SUFFICES ASSUME IInv, AdmitProbe(c) PROVE IInv'
  OBVIOUS
<1> USE LimitsPositive
<1>1. TypeOK'
  BY DEF IInv, TypeOK, AdmitProbe, Calls
<1>2. Resting'
  BY DEF IInv, Resting, AdmitProbe
<1>3. Counted'
  <2>1. Probes' = Probes \cup {c} /\ c \notin Probes
    BY DEF IInv, TypeOK, AdmitProbe, Probes
  <2>2. Cardinality(Probes') = Cardinality(Probes) + 1
    BY <2>1, ProbesFinite, FS_AddElement
  <2> QED
    BY <2>2, ProbesFinite DEF IInv, TypeOK, Counted, AdmitProbe
<1>4. ClosedIsHealthy'
  BY DEF ClosedIsHealthy, AdmitProbe
<1> QED
  BY <1>1, <1>2, <1>3, <1>4 DEF IInv

LEMMA FailInv == ASSUME NEW c \in Callers PROVE IInv /\ Fail(c) => IInv'
<1> SUFFICES ASSUME IInv, Fail(c) PROVE IInv'
  OBVIOUS
<1> USE LimitsPositive
<1> DEFINE kept == Recent(Append(failures, 0))
<1>1. kept \in Seq(0 .. Window + 1) /\ Len(kept) \in Nat
  <2>1. Append(failures, 0) \in Seq(0 .. Window + 1)
    BY AppendProperties DEF IInv, TypeOK
  <2> QED
    BY <2>1, RecentType, LenProperties
<1>2. failures' = kept
  BY DEF Fail
<1>3. CASE Len(kept) >= Threshold
  <2>1. /\ state' = "open"
        /\ openedFor' = 0
        /\ halfOpenCalls' = 0
        /\ call' = [Past(call) EXCEPT ![c] = "idle"]
        /\ rest' = Recovery
    BY <1>1, <1>3 DEF Fail
  <2>2. Probes' = {} /\ call' \in [Callers -> Calls]
    BY <2>1, NoProbesAfter DEF IInv
  <2>3. TypeOK'
    BY <1>1, <1>2, <2>1, <2>2 DEF TypeOK, States
  <2>4. Resting'
    BY <2>1 DEF Resting
  <2>5. Counted'
    BY <2>1, <2>2, NothingCounted
  <2>6. ClosedIsHealthy'
    BY <2>1 DEF ClosedIsHealthy
  <2> QED
    BY <2>3, <2>4, <2>5, <2>6 DEF IInv
<1>4. CASE Len(kept) < Threshold
  <2>1. /\ call' = [call EXCEPT ![c] = "idle"]
        /\ UNCHANGED <<state, openedFor, halfOpenCalls, rest>>
    BY <1>1, <1>4 DEF Fail
  <2>2. TypeOK'
    BY <1>1, <1>2, <2>1 DEF IInv, TypeOK, Calls
  <2>3. Resting'
    BY <2>1 DEF IInv, Resting
  <2>4. Counted'
    <3>1. Probes' \subseteq Probes
      BY <2>1 DEF IInv, TypeOK, Probes
    <3> QED
      BY <2>1, <3>1, FewerProbes DEF IInv, TypeOK
  <2>5. ClosedIsHealthy'
    <3>1. /\ Cardinality(DOMAIN kept \ Old(kept)) \in Nat
          /\ Cardinality(DOMAIN kept \ Old(kept)) <= Len(kept)
      BY <1>1, FreshBound
    <3>2. Cardinality((DOMAIN failures \ Old(failures))') = Cardinality(DOMAIN kept \ Old(kept))
      BY <1>2 DEF Old
    <3> HIDE DEF kept
    <3> QED
      BY <1>1, <1>4, <3>1, <3>2 DEF ClosedIsHealthy
  <2> QED
    BY <2>2, <2>3, <2>4, <2>5 DEF IInv
<1> QED
  BY <1>1, <1>3, <1>4

LEMMA SucceedInv == ASSUME NEW c \in Callers PROVE IInv /\ Succeed(c) => IInv'
<1> SUFFICES ASSUME IInv, Succeed(c) PROVE IInv'
  OBVIOUS
<1> USE LimitsPositive
<1>1. Probes' = {} /\ call' \in [Callers -> Calls]
  BY NoProbesAfter DEF IInv, Succeed
<1>2. TypeOK'
  BY <1>1, EmptySeq DEF IInv, TypeOK, Succeed, States
<1>3. Resting'
  BY DEF Resting, Succeed
<1>4. Counted'
  BY <1>1, NothingCounted DEF Succeed
<1>5. ClosedIsHealthy'
  <2>1. (DOMAIN failures \ Old(failures))' = {}
    BY DEF Succeed
  <2> QED
    BY <2>1, FS_EmptySet DEF ClosedIsHealthy
<1> QED
  BY <1>2, <1>3, <1>4, <1>5 DEF IInv

LEMMA CancelInv == ASSUME NEW c \in Callers PROVE IInv /\ Cancel(c) => IInv'
<1> SUFFICES ASSUME IInv, Cancel(c) PROVE IInv'
  OBVIOUS
<1>1. TypeOK'
  BY DEF IInv, TypeOK, Cancel, Calls
<1>2. Resting'
  BY DEF IInv, Resting, Cancel
<1>3. Counted'
  <2>1. Probes' \subseteq Probes
    BY DEF IInv, TypeOK, Cancel, Probes
  <2> QED
    BY <2>1, FewerProbes DEF IInv, TypeOK, Cancel
<1>4. ClosedIsHealthy'
  BY DEF IInv, ClosedIsHealthy, Cancel
<1> QED
  BY <1>1, <1>2, <1>3, <1>4 DEF IInv

LEMMA NextInv == IInv /\ [Next]_vars => IInv'
<1> SUFFICES ASSUME IInv, [Next]_vars PROVE IInv'
  OBVIOUS
<1>1. CASE UNCHANGED vars
  BY <1>1, StutterInv
<1>2. CASE Tick
  BY <1>2, TickInv
<1>3. ASSUME NEW c \in Callers, Admit(c) \/ Fail(c) \/ Succeed(c) \/ Cancel(c)
      PROVE  IInv'
  BY <1>3, AdmitClosedInv, AdmitFirstProbeInv, AdmitProbeInv, FailInv, SucceedInv, CancelInv
  DEF Admit
<1> QED
  BY <1>1, <1>2, <1>3 DEF Next

LEMMA AlwaysInv == Spec => []IInv
<1>1. Init => IInv
  BY InitInv
<1>2. IInv /\ [Next]_vars => IInv'
  BY NextInv
<1> QED
  BY <1>1, <1>2, PTL DEF Spec

(****************************************************************************)
(* Theorems                                                                 *)
(****************************************************************************)

(* The breaker's fields keep their types.                                   *)
THEOREM TypeCorrect == Spec => []TypeOK
<1>1. IInv => TypeOK
  BY DEF IInv
<1> QED
  BY <1>1, AlwaysInv, PTL

(* A closed breaker has fewer failures in its window than the threshold.    *)
THEOREM ClosedMeansHealthy == Spec => []ClosedIsHealthy
<1>1. IInv => ClosedIsHealthy
  BY DEF IInv
<1> QED
  BY <1>1, AlwaysInv, PTL

(* A half-open phase has at most half_open_max_calls probes at a time, and  *)
(* there are probes only in a half-open phase.                              *)
THEOREM ProbesAreBounded == Spec => []ProbesBounded
<1>1. IInv => ProbesBounded
  <2> SUFFICES ASSUME IInv PROVE ProbesBounded
    OBVIOUS
  <2> QED
    BY ProbesFinite, LimitsPositive DEF IInv, TypeOK, Counted, ProbesBounded
<1> QED
  BY <1>1, AlwaysInv, PTL

(* No call is let in during the recovery time.                              *)
THEOREM DependencyRests == Spec => RestIsKept
<1> DEFINE Kept == \A c \in Callers : call[c] = "idle" /\ call'[c] # "idle" => rest = 0
<1>1. IInv /\ [Next]_vars => [Kept]_vars
  <2> SUFFICES ASSUME IInv, Next, NEW c \in Callers, call[c] = "idle", call'[c] # "idle"
               PROVE  rest = 0
    OBVIOUS
  <2>1. ASSUME NEW d \in Callers, Fail(d) \/ Succeed(d) \/ Cancel(d) PROVE FALSE
    <3>1. \/ call' = [call EXCEPT ![d] = "idle"]
          \/ call' = [Past(call) EXCEPT ![d] = "idle"]
      BY <2>1 DEF Fail, Succeed, Cancel
    <3> QED
      BY <3>1 DEF IInv, TypeOK, Past
  <2>2. ~Tick
    BY DEF Tick
  <2>3. PICK d \in Callers : Admit(d)
    BY <2>1, <2>2 DEF Next
  <2>4. CASE AdmitClosed(d) \/ AdmitProbe(d)
    BY <2>4 DEF IInv, Resting, AdmitClosed, AdmitProbe
  <2>5. CASE AdmitFirstProbe(d)
    BY <2>5, LimitsPositive DEF IInv, TypeOK, Resting, AdmitFirstProbe
  <2> QED
    BY <2>3, <2>4, <2>5 DEF Admit
<1> QED
  BY <1>1, AlwaysInv, PTL DEF Spec, RestIsKept

(* The other side of an in-window threshold: a half-open breaker without    *)
(* probes left and without a running call stays so, whatever happens.       *)
THEOREM StuckForGood == Spec => [][Stuck => Stuck']_vars
<1>1. [Next]_vars => [Stuck => Stuck']_vars
  <2> SUFFICES ASSUME Next, Stuck PROVE Stuck'
    OBVIOUS
  <2>1. ASSUME NEW c \in Callers, Admit(c) \/ Fail(c) \/ Succeed(c) \/ Cancel(c) PROVE FALSE
    BY <2>1, LimitsPositive
    DEF Stuck, Admit, AdmitClosed, AdmitFirstProbe, AdmitProbe, Fail, Succeed, Cancel
  <2>2. Tick
    BY <2>1 DEF Next
  <2> QED
    BY <2>2 DEF Tick, Stuck
<1> QED
  BY <1>1, PTL DEF Spec
=============================================================================
