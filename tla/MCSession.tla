----------------------------- MODULE MCSession -----------------------------
(***************************************************************************)
(* Session for TLC: users, nick names and the passwords that are not empty *)
(* are model values that no action tells apart.                            *)
(***************************************************************************)
EXTENDS Session, TLC

AccountSymmetry == Permutations(Users) \cup Permutations(Nicks)
                     \cup Permutations(Pwds \ {Empty})
=============================================================================
