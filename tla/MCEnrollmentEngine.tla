------------------------- MODULE MCEnrollmentEngine -------------------------
(***************************************************************************)
(* Small instances of EnrollmentEngine.                                    *)
(***************************************************************************)
EXTENDS EnrollmentEngine, TLC

\* Players, player ids and keys are interchangeable; so are enrolments.
Symmetry == Permutations(Enrollments) \cup Permutations(PlayerIds)
            \cup Permutations(Players) \cup Permutations(Keys)
=============================================================================
