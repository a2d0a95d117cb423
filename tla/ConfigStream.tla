---------------------------- MODULE ConfigStream ----------------------------
(***************************************************************************)
(* What the core promises about configurations, whatever the threads do:   *)
(* there is one most recently received configuration, and the              *)
(* configuration the flags are evaluated with is only ever replaced by     *)
(* that one, and only when it passed verification.  RoxCore implements     *)
(* this specification.                                                     *)
(***************************************************************************)
CONSTANTS Configs,   \* configurations a server may send
          Valid,     \* those whose signature and API key verify
          NoConfig   \* before the first one

VARIABLES last,      \* the configuration received most recently
          applied    \* the configuration the flags carry

Init ==
  /\ last = NoConfig
  /\ applied = NoConfig

Receive(c) ==
  /\ last' = c
  /\ UNCHANGED applied

Apply ==
  /\ last \in Valid
  /\ applied' = last
  /\ UNCHANGED last

Next ==
  \/ \E c \in Configs : Receive(c)
  \/ Apply

Spec == Init /\ [][Next]_<<last, applied>>
=============================================================================
