------------------------------ MODULE DurableMap ------------------------------
(***************************************************************************)
(* What the local storage promises for each of its entries: a map is put   *)
(* as a whole or lost as a whole, whoever else writes and whenever the     *)
(* process dies; what is got is the map put last, or nothing.  Storage     *)
(* implements this specification.                                          *)
(***************************************************************************)
CONSTANTS Names, Maps, Nothing

VARIABLES
  stored,    \* the map kept under each name
  putting,   \* the map being put there, if any
  got        \* what was got last

vars == <<stored, putting, got>>

Init ==
  /\ stored \in [Names -> Maps \cup {Nothing}]
  /\ putting = [n \in Names |-> Nothing]
  /\ got = [n \in Names |-> Nothing]

\* From its beginning to its end a put leaves nothing to be got.
BeginPut(n, m) ==
  /\ putting[n] = Nothing
  /\ putting' = [putting EXCEPT ![n] = m]
  /\ stored' = [stored EXCEPT ![n] = Nothing]
  /\ UNCHANGED got

EndPut(n) ==
  /\ putting[n] # Nothing
  /\ stored' = [stored EXCEPT ![n] = putting[n]]
  /\ putting' = [putting EXCEPT ![n] = Nothing]
  /\ UNCHANGED got

FailPut(n) ==
  /\ putting' = [putting EXCEPT ![n] = Nothing]
  /\ UNCHANGED <<stored, got>>

Get(n) ==
  /\ putting[n] = Nothing
  /\ got' = [got EXCEPT ![n] = stored[n]]
  /\ UNCHANGED <<stored, putting>>

\* The place of the map is out of reach.
GetNothing(n) ==
  /\ got' = [got EXCEPT ![n] = Nothing]
  /\ UNCHANGED <<stored, putting>>

\* The process ends, and the puts in progress with it.
Stop ==
  /\ putting' = [n \in Names |-> Nothing]
  /\ UNCHANGED <<stored, got>>

Next ==
  \/ Stop
  \/ \E n \in Names :
       \/ \E m \in Maps : BeginPut(n, m)
       \/ EndPut(n) \/ FailPut(n) \/ Get(n) \/ GetNothing(n)

Spec == Init /\ [][Next]_vars
=============================================================================
