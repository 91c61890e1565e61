--------------------------- MODULE MCStorageQuota ---------------------------
(* Instances of StorageQuota for TLC. *)
EXTENDS StorageQuota, TLC

Symmetry ==
    Permutations(Streams) \cup Permutations(Deletes) \cup Permutations(Bookings)
=============================================================================
