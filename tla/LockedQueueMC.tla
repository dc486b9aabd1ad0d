--------------------------- MODULE LockedQueueMC ---------------------------
(* Instances of LockedQueue for TLC. *)
EXTENDS LockedQueue

CONSTANTS p1, p2, k1, k2, x1
=============================================================================
