---------------------------- MODULE MCEnrollment ----------------------------
(* Instances of Enrollment for TLC.  Requests, runs and students (exempt   *)
(* or not) are interchangeable.                                            *)
EXTENDS Enrollment, TLC
Symmetry == Permutations(Slots) \cup Permutations(Runs)
              \cup Permutations(Exempt) \cup Permutations(Students \ Exempt)
=============================================================================
