---------------------------- MODULE MCStateSender -----------------------------
(* StateSender with one application thread and two debouncer threads: the   *)
(* one that sends and the one before it, which may still have to detach.    *)
(* The texts of the flags f1 and of both properties fit the buffer, also    *)
(* together in one body; the flags b1 and b2 do not, and begin alike.       *)
EXTENDS StateSender

CONSTANTS a1, w1, w2, f1, b1, b2, p1, p2, start

MCContents == [k \in Kinds |-> IF k = "flag" THEN {f1, b1, b2} ELSE {p1, p2}]
MCSize == [c \in AnyContents |-> IF c \in {b1, b2} THEN 6 ELSE 2]
MCStart == [c \in AnyContents |-> start]
=============================================================================
