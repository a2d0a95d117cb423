------------------------------ MODULE MCStorage -------------------------------
(* Storage with its two entries, two maps that fit and one that does not.     *)
EXTENDS Storage

CONSTANTS a, b, big
=============================================================================
