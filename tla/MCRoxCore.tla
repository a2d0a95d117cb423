----------------------------- MODULE MCRoxCore ------------------------------
(* RoxCore on a small instance.  The configurations are on and off (valid, *)
(* push updates enabled and disabled) and bad, which does not verify.      *)
EXTENDS RoxCore

CONSTANTS a1, a2, r1, r2, on, off, bad
=============================================================================
