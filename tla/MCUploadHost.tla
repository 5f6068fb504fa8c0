---------------------------- MODULE MCUploadHost ----------------------------
(***************************************************************************)
(* UploadHost for TLC.  The contents are one, two or three of the byte     *)
(* that a boundary begins with, so that two uploads of one name lengthen,  *)
(* shorten or keep the file, and a write that fails leaves zeros or old    *)
(* bytes in it.  A liveness property is checked: there is no symmetry.     *)
(***************************************************************************)
EXTENDS UploadHost
=============================================================================
