----------------------------- MODULE KeyPromise -----------------------------
(***************************************************************************)
(* What an Idempotency-Key promises the clients that use it.  The work is  *)
(* done for one of them only, and for that one perhaps in parts; its       *)
(* response is there only when all of it is done, then stays, and is what  *)
(* everyone gets who asks for what counts as the same; whoever asks for    *)
(* something else is refused.  It does not promise that work once begun is *)
(* finished: a client that is told of an error knows nothing, and while    *)
(* there is no response the others are told to wait.                       *)
(***************************************************************************)
EXTENDS Naturals

CONSTANTS Requests, Payloads, None

VARIABLES asked,  \* what each request asks for, as far as the key tells it apart
          doer,   \* the request whose work has been begun, if any
          whole,  \* whether that work is done to the last part
          saved,  \* whether the response is there
          told    \* what each request was told

promiseVars == <<asked, doer, whole, saved, told>>

Init ==
  /\ asked = [r \in Requests |-> None]
  /\ doer = {} /\ whole = FALSE /\ saved = FALSE
  /\ told = [r \in Requests |-> "none"]

Waiting(r) == asked[r] # None /\ told[r] = "none"

Ask(r, payload) ==
  /\ asked[r] = None
  /\ asked' = [asked EXCEPT ![r] = payload]
  /\ UNCHANGED <<doer, whole, saved, told>>

Tell(r, answer) == Waiting(r) /\ told' = [told EXCEPT ![r] = answer] /\ UNCHANGED asked

(* The work, or a part of it. *)
Work(r) ==
  /\ Waiting(r) /\ doer \subseteq {r}
  /\ doer' = {r} /\ whole' \in {whole, TRUE}
  /\ UNCHANGED <<asked, saved, told>>

(* The response, after the work or with it. *)
Respond(r) ==
  /\ doer = {r} /\ whole
  /\ Tell(r, "done")
  /\ saved' = TRUE
  /\ UNCHANGED <<doer, whole>>

WorkAndRespond(r) ==
  /\ doer = {} /\ Tell(r, "done")
  /\ doer' = {r} /\ whole' = TRUE /\ saved' = TRUE

(* What the others are told of it. *)
Repeat(r) ==
  /\ \E s \in doer : s # r /\ asked[s] = asked[r]
  /\ Tell(r, IF saved THEN "replayed" ELSE "in progress")
  /\ UNCHANGED <<doer, whole, saved>>

Refuse(r) ==
  /\ \E s \in doer : asked[s] # asked[r]
  /\ Tell(r, "conflict")
  /\ UNCHANGED <<doer, whole, saved>>

GiveUp(r) == Tell(r, "error") /\ UNCHANGED <<doer, whole, saved>>

Next ==
  \E r \in Requests :
    \/ \E payload \in Payloads : Ask(r, payload)
    \/ Work(r) \/ Respond(r) \/ WorkAndRespond(r)
    \/ Repeat(r) \/ Refuse(r) \/ GiveUp(r)

Spec == Init /\ [][Next]_promiseVars
=============================================================================
