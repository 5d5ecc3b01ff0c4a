------------------------------- MODULE MCManager -------------------------------
(* Instances of Manager for TLC. *)
EXTENDS ManagerProps, TLC

\* Users differ in nothing.
UserSymmetry == Permutations(Users)
================================================================================
