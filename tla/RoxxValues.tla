------------------------------ MODULE RoxxValues ------------------------------
(***************************************************************************)
(* The values of the expression language and what its operators make of    *)
(* them.  A text is a sequence of words and signs.  A finite number is a   *)
(* multiple of an unspecified unit: what the operators tell apart is how   *)
(* the difference of two numbers compares with the two epsilons they use.  *)
(* The other doubles are NaN and the two infinities.                       *)
(***************************************************************************)
EXTENDS Integers, FiniteSets, SequencesExt

CONSTANTS
  Null,                      \* no value
  DblEpsilon, FltEpsilon,    \* DBL_EPSILON and FLT_EPSILON
  NaN, Infinity, NegInfinity,
  Numerals,                  \* the words that are numbers, with their value
  NumberLike,                \* those that are not and match the tokenizer's pattern
                             \* of a number: it takes any word that ends in a digit
  TextNumbers,               \* the doubles that texts stand for: what strtod takes
                             \* as a whole, "nan" and "inf" among it
  Version(_),                \* the rank of a text that is a version, or Null
  Matches,                   \* which <<text, pattern, flags>> match
  Bucket(_),                 \* experiment_extensions_get_bucket of a text
  Now                        \* the clock

ASSUME RoxxValuesAssumption ==
  /\ DblEpsilon \in Nat \ {0} /\ FltEpsilon \in Nat /\ DblEpsilon < FltEpsilon
  /\ Now \in Int
  /\ NumberLike \cap DOMAIN Numerals = {}
  /\ NaN \notin Int /\ Infinity \notin Int /\ NegInfinity \notin Int
  /\ NaN # Infinity /\ NaN # NegInfinity /\ Infinity # NegInfinity
  /\ \A text \in DOMAIN TextNumbers :
       TextNumbers[text] \in Int \cup {NaN, Infinity, NegInfinity}

Doubles == Int \cup {NaN, Infinity, NegInfinity}

Value(type, num, text, items) ==
  [type |-> type, num |-> num, text |-> text, items |-> items]

NullValue   == Value("null", 0, <<>>, <<>>)
Undefined   == Value("undefined", 0, <<>>, <<>>)
Bool(b)     == Value("bool", IF b THEN 1 ELSE 0, <<>>, <<>>)
IntOf(n)    == Value("int", n, <<>>, <<>>)
Double(n)   == Value("double", n, <<>>, <<>>)
DateTime(n) == Value("datetime", n, <<>>, <<>>)
Text(t)     == Value("string", 0, t, <<>>)
List(items) == Value("list", 0, <<>>, items)
Map(items)  == Value("map", 0, <<>>, items)

\* A value none of whose fields is set: it is of no type at all.
Blank == Value("none", 0, <<>>, <<>>)

\* No value: an assertion failed and the process ended.
Abort == Value("abort", 0, <<>>, <<>>)

\* What its type says of a value: there is one null, and one undefined.
IsValue(v) ==
  /\ v.type = "null" => v = NullValue
  /\ v.type = "undefined" => v = Undefined
  /\ v.type = "bool" => v \in {Bool(TRUE), Bool(FALSE)}
  /\ v.type = "string" => v = Text(v.text)
  /\ v.type \in {"int", "datetime"} => v.num \in Int
  /\ v.type = "double" => v.num \in Doubles

HasType(v, type) == v.type = type
IsText(v) == HasType(v, "string")
IsNumeric(v) == HasType(v, "int") \/ HasType(v, "double")

\* rox_dynamic_value_create_copy has no line for dates: a copy of one is blank.
Copy(v) == IF HasType(v, "datetime") THEN Blank ELSE v

\* rox_stack_pop_boolean: what is no boolean is false.
IsTrue(v) == v = Bool(TRUE)

\* is_number_operand: a number, or a text that is one as a whole.
NumberOf(v) ==
  IF IsNumeric(v) THEN v.num
  ELSE IF IsText(v) /\ Len(v.text) = 1 /\ v.text[1] \in DOMAIN TextNumbers
  THEN TextNumbers[v.text[1]]
  ELSE Null

-----------------------------------------------------------------------------
(***************************************************************************)
(* Doubles: what compares with NaN is false, and so is what compares with  *)
(* the difference of an infinity and itself, which is NaN.                 *)
(***************************************************************************)
Finite(x, y) == x \in Int /\ y \in Int
Distance(x, y) == IF x < y THEN y - x ELSE x - y

\* x < y, one of the two not being finite.
Unlike(x, y) == NaN \notin {x, y} /\ x # y
FarBelow(x, y) == Unlike(x, y) /\ (x = NegInfinity \/ y = Infinity)

Less(x, y) == IF Finite(x, y) THEN x < y ELSE FarBelow(x, y)
AtMost(x, y) == Less(x, y) \/ (x = y /\ x # NaN)

\* fabs(x - y) < epsilon.
Within(x, y, epsilon) == Finite(x, y) /\ Distance(x, y) < epsilon

-----------------------------------------------------------------------------
(***************************************************************************)
(* Equality.                                                               *)
(***************************************************************************)

\* parser_compare_stack_items gives 0.
Equal(v, w) ==
  IF IsNumeric(v) THEN IsNumeric(w) /\ Within(v.num, w.num, FltEpsilon)
  ELSE v.type \in {"null", "undefined", "bool", "string"} /\ v = w

\* rox_dynamic_value_equals, which compares on its own.
SameValue(v, w) ==
  \/ v.type \in {"null", "undefined"} /\ HasType(w, v.type)
  \/ IsNumeric(v) /\ IsNumeric(w) /\ Within(v.num, w.num, FltEpsilon)
  \/ HasType(v, "bool") /\ v = w
  \/ IsText(v) /\ IsText(w) /\ v.text = w.text

\* The operator that looks for a value in a list.
InArray(v, list) ==
  Bool(HasType(list, "list") /\ \E i \in DOMAIN list.items : SameValue(v, list.items[i]))

-----------------------------------------------------------------------------
(***************************************************************************)
(* Comparisons of numbers.                                                 *)
(***************************************************************************)
Comparisons == {"numeq", "numne", "lt", "lte", "gt", "gte"}

\* y - x > DBL_EPSILON, and the same of the absolute value.
LessBy(x, y) == IF Finite(x, y) THEN y - x > DblEpsilon ELSE FarBelow(x, y)
Apart(x, y) == IF Finite(x, y) THEN Distance(x, y) > DblEpsilon ELSE Unlike(x, y)
Close(x, y) == Within(x, y, DblEpsilon)

\* At a distance of exactly DBL_EPSILON two numbers are taken for different.
HoldsStrictly(op, x, y) ==
  CASE op = "numeq" -> Close(x, y)
    [] op = "numne" -> Apart(x, y)
    [] op = "lt"    -> LessBy(x, y)
    [] op = "lte"   -> LessBy(x, y) \/ Close(x, y)
    [] op = "gt"    -> LessBy(y, x)
    [] op = "gte"   -> LessBy(y, x) \/ Close(x, y)

Holds(op, x, y) ==
  CASE op = "numeq" -> Finite(x, y) /\ Distance(x, y) <= DblEpsilon
    [] op = "numne" -> Apart(x, y)
    [] op = "lt"    -> LessBy(x, y)
    [] op = "lte"   -> LessBy(x, y) \/ Close(x, y)
    [] op = "gt"    -> LessBy(y, x)
    [] op = "gte"   -> LessBy(y, x) \/ Close(x, y)

Comparison(op, v, w) ==
  Bool(/\ NumberOf(v) # Null /\ NumberOf(w) # Null
       /\ Holds(op, NumberOf(v), NumberOf(w)))

-----------------------------------------------------------------------------
(***************************************************************************)
(* Versions.                                                               *)
(***************************************************************************)
VersionComparisons == {"semverEq", "semverNe", "semverLt", "semverLte", "semverGt", "semverGte"}

VersionsHold(op, x, y) ==
  CASE op = "semverEq"  -> x = y
    [] op = "semverNe"  -> x # y
    [] op = "semverLt"  -> x < y
    [] op = "semverLte" -> x <= y
    [] op = "semverGt"  -> x > y
    [] op = "semverGte" -> x >= y

VersionComparison(op, v, w) ==
  Bool(/\ IsText(v) /\ IsText(w)
       /\ Version(v.text) # Null /\ Version(w.text) # Null
       /\ VersionsHold(op, Version(v.text), Version(w.text)))

-----------------------------------------------------------------------------
(***************************************************************************)
(* Texts.                                                                  *)
(***************************************************************************)
Md5(v) == IF IsText(v) THEN Text(<<"md5 of">> \o v.text) ELSE Undefined
Base64Decoded(v) == IF IsText(v) THEN Text(<<"b64d of">> \o v.text) ELSE Undefined
Concat(v, w) == IF IsText(v) /\ IsText(w) THEN Text(v.text \o w.text) ELSE Undefined
Match(v, pattern, flags) ==
  Bool(/\ IsText(v) /\ IsText(pattern) /\ IsText(flags)
       /\ <<v.text, pattern.text, flags.text>> \in Matches)

\* The only operators that require the types of their operands: rox_stack_get_
\* string and rox_stack_get_number assert them.
MergeSeed(v, w) ==
  IF IsText(v) /\ IsText(w) THEN Text(v.text \o <<".">> \o w.text) ELSE Abort
IsInPercentage(percentage, seed) ==
  IF IsNumeric(percentage) /\ IsText(seed)
  THEN Bool(AtMost(Bucket(seed.text), percentage.num)) ELSE Abort
IsInPercentageRange(low, high, seed) ==
  IF IsNumeric(low) /\ IsNumeric(high) /\ IsText(seed)
  THEN Bool(AtMost(low.num, Bucket(seed.text)) /\ Less(Bucket(seed.text), high.num)) ELSE Abort

-----------------------------------------------------------------------------
(***************************************************************************)
(* All operators that depend on their operands only.                       *)
(***************************************************************************)
PureOperators ==
  {"isUndefined", "now", "and", "or", "ne", "eq", "not", "ifThen", "inArray", "md5",
   "concat", "b64d", "tsToNum", "match", "mergeSeed", "isInPercentage",
   "isInPercentageRange"} \cup Comparisons \cup VersionComparisons

Arity(op) ==
  CASE op = "now" -> 0
    [] op \in {"isUndefined", "not", "md5", "b64d", "tsToNum", "property", "flagValue",
               "isInTargetGroup"} -> 1
    [] op \in {"ifThen", "match", "isInPercentageRange"} -> 3
    [] OTHER -> 2

Apply(op, a) ==
  CASE op = "now"         -> Double(Now)
    [] op = "isUndefined" -> Bool(a[1] = Undefined)
    [] op = "not"         -> Bool(~IsTrue(a[1]))
    [] op = "and"         -> Bool(IsTrue(a[1]) /\ IsTrue(a[2]))
    [] op = "or"          -> Bool(IsTrue(a[1]) \/ IsTrue(a[2]))
    [] op = "ifThen"      -> Copy(IF IsTrue(a[1]) THEN a[2] ELSE a[3])
    [] op = "eq"          -> Bool(Equal(a[1], a[2]))
    [] op = "ne"          -> Bool(~Equal(a[1], a[2]))
    [] op = "inArray"     -> InArray(a[1], a[2])
    [] op = "md5"         -> Md5(a[1])
    [] op = "b64d"        -> Base64Decoded(a[1])
    [] op = "concat"      -> Concat(a[1], a[2])
    [] op = "match"       -> Match(a[1], a[2], a[3])
    [] op = "tsToNum"     -> IF HasType(a[1], "datetime") THEN IntOf(a[1].num) ELSE Undefined
    [] op = "mergeSeed"   -> MergeSeed(a[1], a[2])
    [] op = "isInPercentage"      -> IsInPercentage(a[1], a[2])
    [] op = "isInPercentageRange" -> IsInPercentageRange(a[1], a[2], a[3])
    [] op \in Comparisons         -> Comparison(op, a[1], a[2])
    [] op \in VersionComparisons  -> VersionComparison(op, a[1], a[2])

\* Which operands an operator looks at: it asserts that these are there.
Examined(op, a) ==
  LET NumberFirst == IF NumberOf(a[1]) # Null THEN {1, 2} ELSE {1}
      TextFirst   == IF IsText(a[1]) THEN {1, 2} ELSE {1}
  IN
  IF a = <<>> THEN IF op \in {"now", "isUndefined"} THEN {} ELSE {1}
  ELSE CASE op = "isUndefined"  -> {}
         [] op = "ifThen"       -> {1, IF IsTrue(a[1]) THEN 2 ELSE 3}
         [] op \in Comparisons  -> NumberFirst
         [] op \in VersionComparisons \cup {"concat"} -> TextFirst
         [] op = "match" -> IF Len(a) > 1 /\ IsText(a[1]) /\ IsText(a[2]) THEN 1 .. 3
                            ELSE TextFirst
         [] OTHER -> 1 .. Arity(op)
=============================================================================
