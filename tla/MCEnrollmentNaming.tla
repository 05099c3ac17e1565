--------------------------- MODULE MCEnrollmentNaming ---------------------------
(* Constants of the EnrollmentNaming runs.  Two captures tell apart faces  *)
(* that resemble each other (the same value) and faces that do not.        *)
EXTENDS EnrollmentNaming

CONSTANTS a, b

MCFaces == {a, b}

MCSimilar == {<<a, a>>, <<b, b>>}

===============================================================================
