-------------------------- MODULE MCCloudDiskPages --------------------------
(***************************************************************************)
(* CloudDiskPages for TLC.                                                 *)
(***************************************************************************)
EXTENDS CloudDiskPages, TLC

ContentSymmetry == Permutations(Users) \cup Permutations(Md5s)
=============================================================================
