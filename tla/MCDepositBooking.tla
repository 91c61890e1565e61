-------------------------- MODULE MCDepositBooking --------------------------
EXTENDS DepositBooking, TLC

CONSTANTS b1, b2
MCSameSlot == [b \in Bookings |-> "slot"]
Perms == Permutations(Sessions)
=============================================================================
