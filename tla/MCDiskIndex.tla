---------------------------- MODULE MCDiskIndex ----------------------------
(* Instances of DiskIndex for TLC. *)
EXTENDS DiskIndex
=============================================================================
