--------------------------- MODULE MCReleaseUpgrade ---------------------------
(* A release upgrade and its nested solution upgrade, for model checking. *)
EXTENDS ReleaseUpgrade

===============================================================================
