------------------------- MODULE MCAdminIdempotency -------------------------
(* Instances of AdminIdempotency for TLC. *)
EXTENDS AdminIdempotency
=============================================================================
