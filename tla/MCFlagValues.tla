----------------------------- MODULE MCFlagValues -----------------------------
(* FlagValues with two flags: size, a double with the default freeze level,  *)
(* and colour, a string whose condition asks for size and which was added    *)
(* with a freeze level of its own.  The dynamic API reads size as an integer *)
(* and colour as a boolean.                                                  *)
EXTENDS FlagValues

CONSTANTS t1, size, colour

MCType      == [f \in Flags |-> IF f = size THEN "double" ELSE "string"]
MCAdded     == [f \in Flags |-> IF f = size THEN [double |-> 15]
                                             ELSE [string |-> Word("red")]]
MCTen       == [MCAdded EXCEPT ![size] = [double |-> 100]]
MCReads     == {[flag |-> size, as |-> "int", default |-> [int |-> 7]],
                [flag |-> colour, as |-> "bool", default |-> [bool |-> TRUE]]}
MCDependsOn == [f \in Flags |-> IF f = colour THEN size ELSE NoFlag]
\* "12px" is a number to a flag's condition and none to an override.
MCResults   == {[double |-> 100], [string |-> WithTail(Number(12, FALSE))],
                [string |-> Word("blue")]}
MCTexts     == {Word("blue")}
MCExplicit  == [f \in {colour} |-> UntilLaunch]
=============================================================================
