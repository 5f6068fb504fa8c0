---------------------------- MODULE MCCloudDisk ----------------------------
(***************************************************************************)
(* CloudDisk for TLC: the symmetry sets of the safety runs.  Users, md5s   *)
(* and names are model values that no action tells apart.                  *)
(***************************************************************************)
EXTENDS CloudDisk, TLC

UserSymmetry    == Permutations(Users)
ContentSymmetry == Permutations(Users) \cup Permutations(Md5s)
=============================================================================
