-------------------------- MODULE MCStripeWebhook --------------------------
EXTENDS StripeWebhook

CONSTANT o1
\* All events are about one booking, so that their handlers compete for its row.
MCObjectOf == [e \in Events |-> o1]
=============================================================================
