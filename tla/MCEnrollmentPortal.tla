-------------------------- MODULE MCEnrollmentPortal --------------------------
(***************************************************************************)
(* Small instances of EnrollmentPortal.                                    *)
(***************************************************************************)
EXTENDS EnrollmentPortal, TLC

\* Enrolments, runs and versions are only compared for equality.
Symmetry == Permutations(Enrollments) \cup Permutations(Keys)
            \cup Permutations(Versions)
=============================================================================
