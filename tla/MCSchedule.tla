----------------------------- MODULE MCSchedule -----------------------------
EXTENDS Schedule, TLC

MCWindows == {[from |-> 2, to |-> 3]}
MCDayWindows == {[from |-> 0, to |-> 6]}
Symmetry == Permutations(Bookings) \cup Permutations(Requests)
=============================================================================
