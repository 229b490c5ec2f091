-------------------------- MODULE MCEnrollmentAdmin --------------------------
(***************************************************************************)
(* Small instances of EnrollmentAdmin.                                     *)
(***************************************************************************)
EXTENDS EnrollmentAdmin, TLC

\* Everything that is only compared for equality.
Symmetry == Permutations(Enrollments) \cup Permutations(Players)
            \cup Permutations(PlayerIds) \cup Permutations(Keys)
            \cup Permutations(Admins)
=============================================================================
