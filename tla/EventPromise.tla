---------------------------- MODULE EventPromise ----------------------------
(***************************************************************************)
(* What the webhook promises Stripe: the effects of an event happen at most *)
(* once, an event is otherwise dropped on purpose, and only an event that   *)
(* was applied or dropped is answered with success.                         *)
(***************************************************************************)
EXTENDS Naturals

CONSTANT Events

VARIABLES applied,   \* how often the effects of the event were committed
          dropped,   \* events settled without effects
          answered   \* events answered with success

promiseVars == <<applied, dropped, answered>>

Init ==
  /\ applied \in [Events -> {0, 1}]
  /\ dropped = {} /\ answered = {}

Settled(e) == applied[e] > 0 \/ e \in dropped

Apply(e) ==
  /\ ~Settled(e)
  /\ applied' = [applied EXCEPT ![e] = 1]
  /\ UNCHANGED <<dropped, answered>>

Drop(e) ==
  /\ ~Settled(e)
  /\ dropped' = dropped \cup {e}
  /\ UNCHANGED <<applied, answered>>

Answer(e) ==
  /\ Settled(e)
  /\ answered' = answered \cup {e}
  /\ UNCHANGED <<applied, dropped>>

Next == \E e \in Events : Apply(e) \/ Drop(e) \/ Answer(e)

Spec == Init /\ [][Next]_promiseVars
=============================================================================
