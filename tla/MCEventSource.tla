---------------------------- MODULE MCEventSource -----------------------------
(* EventSource with one message of every shape: a keep-alive, an event with  *)
(* data behind it, one with data before and behind it, one behind its id,    *)
(* a new reconnect timeout, no line at all, and values that look like the    *)
(* beginnings of names.                                                      *)
EXTENDS EventSource

F(fieldName, fieldValue) == [name |-> fieldName, value |-> fieldValue]

MCMessages ==
  { <<F("comment", "ok")>>,
    <<F("event", "changed"), F("data", "x")>>,
    <<F("data", "y"), F("event", "changed"), F("data", "z")>>,
    <<F("id", "7"), F("event", "other")>>,
    <<F("retry", "5")>>,
    <<>>,
    <<F("data", "e"), F("id", "7"), F("event", "d"), F("data", "i")>> }

MCNumerals == {"5", "7"}
=============================================================================
