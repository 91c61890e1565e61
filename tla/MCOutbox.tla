------------------------------ MODULE MCOutbox ------------------------------
EXTENDS Outbox

CONSTANTS w1, w2, r1, f1
MCKindOf ==
  [j \in Jobs |-> IF j = r1 THEN "replay" ELSE IF j = f1 THEN "failures" ELSE "delivery"]
=============================================================================
