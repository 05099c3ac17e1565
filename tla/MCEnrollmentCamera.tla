--------------------------- MODULE MCEnrollmentCamera ---------------------------
(* Constants of the EnrollmentCamera runs. *)
EXTENDS EnrollmentCamera, TLC

Symmetry == Permutations(Sessions)

===============================================================================
