---------------------------- MODULE FlagConversions ----------------------------
(***************************************************************************)
(* How a flag's value travels between its types: the four converters of    *)
(* entities.c and the number formatting of util.c.  A flag keeps its       *)
(* default, its frozen value and its override as texts; an impression      *)
(* reports a text; a condition yields a result of any kind.                *)
(*                                                                         *)
(* A text is a word or a number in decimal notation: its digits, whether   *)
(* the last one follows a point, and whether anything follows the number   *)
(* ("12px").  One decimal is enough to tell "10" from "1.5"; hexadecimal,  *)
(* octal and exponents are left out.  Doubles count tenths.                *)
(***************************************************************************)
EXTENDS Integers

CONSTANT NoValue   \* NULL

Types == {"string", "int", "double", "bool"}

Word(w) == [word |-> w]
Number(digits, point) == [digits |-> digits, point |-> point, tail |-> FALSE]
WithTail(number) == [number EXCEPT !.tail = TRUE]

IsNumber(text) == "digits" \in DOMAIN text

\* Does a value or a result carry one of this kind?
Is(kind, value) == value # NoValue /\ kind \in DOMAIN value

\* ... and a text, if the value is a string: what a flag of this type can hold.
IsValue(type, value) ==
  /\ Is(type, value)
  /\ type = "string" => value.string # NoValue

\* mem_int_to_str's buffer leaves room for so many characters.
IntRoom == 9

\* mem_str_to_int: no point; what follows the digits is ignored.
StrToInt(text) ==
  IF IsNumber(text) /\ ~text.point THEN [int |-> text.digits] ELSE NoValue

\* mem_str_to_double: nothing may follow.
StrToDouble(text) ==
  IF IsNumber(text) /\ ~text.tail
  THEN [double |-> IF text.point THEN text.digits ELSE 10 * text.digits]
  ELSE NoValue

\* n without the last digits that find no room.
Fitting(n, room) ==
  LET drop == CHOOSE k \in 0..10 : /\ n \div 10^k < 10^room
                                   /\ k > 0 => n \div 10^(k - 1) >= 10^room
  IN  n \div 10^drop

\* mem_int_to_str: a sign takes up room too.
IntToStr(n) ==
  Number(IF n >= 0 THEN Fitting(n, IntRoom) ELSE -Fitting(-n, IntRoom - 1), FALSE)

\* n without trailing zeroes.
Trimmed(n) ==
  IF n = 0 THEN 0
  ELSE LET zeroes == CHOOSE k \in 0..9 : n % 10^k = 0 /\ n % 10^(k + 1) # 0
       IN  n \div 10^zeroes

\* mem_double_to_str trims trailing zeroes, the point if it comes to it, and
\* then goes on with the zeroes before the point.
DoubleToStr(tenths) ==
  IF tenths % 10 # 0 THEN Number(tenths, TRUE)
  ELSE Number(Trimmed(tenths \div 10), FALSE)

\* The converters' from_string.
FromString(type, text) ==
  CASE type = "string" -> [string |-> text]
    [] type = "int"    -> StrToInt(text)
    [] type = "double" -> StrToDouble(text)
    [] type = "bool"   -> [bool |-> text = Word("true")]

\* A string result has its int and double values parsed as well: "12px" is 12
\* to every number, although no double can be read from it.
ResultInt(result) ==
  IF Is("string", result) THEN StrToInt(result.string)
  ELSE IF Is("int", result) THEN result ELSE NoValue

ResultDouble(result) ==
  IF Is("string", result) THEN StrToDouble(result.string)
  ELSE IF Is("double", result) THEN result ELSE NoValue

\* A boolean result is a string too.
ResultString(result) ==
  IF Is("string", result) THEN result
  ELSE IF Is("bool", result) THEN [string |-> Word(IF result.bool THEN "true" ELSE "false")]
  ELSE NoValue

\* A null is false, an undefined result and a number are no boolean.
ResultBool(result) ==
  IF Is("null", result) THEN [bool |-> FALSE]
  ELSE IF ResultString(result) # NoValue
       THEN [bool |-> ResultString(result).string = Word("true")]
       ELSE NoValue

\* The converters' from_eval_result.
FromResult(type, result) ==
  CASE type = "string" -> ResultString(result)
    [] type = "int"    -> ResultInt(result)
    [] type = "double" -> IF ResultDouble(result) # NoValue THEN ResultDouble(result)
                          ELSE IF ResultInt(result) # NoValue
                               THEN [double |-> 10 * ResultInt(result).int]
                               ELSE NoValue
    [] type = "bool"   -> ResultBool(result)

\* The converters' to_string, of a value of the converter's type.
ToString(type, value) ==
  CASE type = "string" -> value.string
    [] type = "int"    -> IntToStr(value.int)
    [] type = "double" -> DoubleToStr(value.double)
    [] type = "bool"   -> Word(IF value.bool THEN "true" ELSE "false")

\* What variant_get_int and variant_get_double answer without a value.
Zero(type) == IF type = "int" THEN [int |-> 0] ELSE [double |-> 0]
=============================================================================
