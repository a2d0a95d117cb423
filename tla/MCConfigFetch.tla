---------------------------- MODULE MCConfigFetch -----------------------------
(* ConfigFetch on a small instance: two good documents, one too large to be   *)
(* stored, one per flaw, one with two flaws, and the "result": 404 one.       *)
EXTENDS ConfigFetch

CONSTANTS good, newer, large, unsigned, short, forged, foreign, anonymous,
          wrongKey, noInner, noLists, miss

MCFlaws ==
  [p \in Payloads |->
     CASE p \in {good, newer, large} -> {}
       [] p = unsigned  -> {"unsigned"}
       [] p = short     -> {"length"}
       [] p = forged    -> {"signature"}
       [] p = foreign   -> {"signature", "key"}
       [] p = anonymous -> {"anonymous"}
       [] p = wrongKey  -> {"key"}
       [] p = noInner   -> {"inner"}
       [] p = noLists   -> {"lists"}
       [] p = miss      -> {"incomplete"}]
=============================================================================
