--------------------------- MODULE MCFlagConditions ---------------------------
(* FlagConditions with two flags, two application threads and up to three   *)
(* configurations: a list, the one that replaces it, and the one that frees *)
(* it.                                                                      *)
EXTENDS FlagConditions

CONSTANTS a1, a2, f1, f2
=============================================================================
