---------------------------- MODULE MCImpressions -----------------------------
(* Impressions with two subjects, told apart by their e-mail address or by    *)
(* the distinct id.                                                           *)
EXTENDS Impressions

CONSTANTS t1, ann, bob

MCContexts ==
  {[n \in Names |-> IF n = DistinctId THEN Null ELSE ann],
   [n \in Names |-> IF n = DistinctId THEN ann ELSE bob]}

MCConfigs ==
  {[analytics |-> TRUE, splitsBy |-> "email"], [analytics |-> TRUE, splitsBy |-> DistinctId],
   [analytics |-> FALSE, splitsBy |-> "email"], [analytics |-> TRUE, splitsBy |-> Null]}
=============================================================================
