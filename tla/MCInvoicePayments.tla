------------------------- MODULE MCInvoicePayments --------------------------
EXTENDS InvoicePayments, TLC

Symmetry == Permutations(Requests)
=============================================================================
