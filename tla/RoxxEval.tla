------------------------------- MODULE RoxxEval -------------------------------
(***************************************************************************)
(* What the stack machine is compared with: how an expression is written   *)
(* and what it means.                                                      *)
(***************************************************************************)
EXTENDS RoxxMachine

(***************************************************************************)
(* How an expression is written.                                           *)
(***************************************************************************)
Comma(s) == IF s THEN <<",", " ">> ELSE <<",">>

\* What stands between two arguments: in a dictionary commas and colons alternate.
Between(op, i, s) == IF op = "a dictionary" /\ i % 2 = 0 THEN <<":">> ELSE Comma(s)

RECURSIVE Spelled(_, _)
Spelled(t, s) ==
  LET args == FlattenSeq([i \in DOMAIN t.args |->
                IF i = 1 THEN Spelled(t.args[i], s)
                ELSE Between(t.op, i, s) \o Spelled(t.args[i], s)])
  IN CASE t.op = "a word"       -> t.text
       [] t.op = "a string"     -> <<"quote">> \o t.text \o <<"quote">>
       [] t.op = "an array"     -> <<"[">> \o args \o <<"]">>
       [] t.op = "a dictionary" -> <<"{">> \o args \o <<"}">>
       [] OTHER                 -> <<t.op, "(">> \o args \o <<")">>

\* The machine of RoxxMachine is given expressions that are written like this.
Expressions == Trees \cup Range(TargetGroup) \cup Range(FlagCondition)

ASSUME RoxxEvalAssumption ==
  \A t \in Expressions, s \in BOOLEAN : Written(t, s) = Spelled(t, s)

-----------------------------------------------------------------------------
(***************************************************************************)
(* What an expression means.                                               *)
(***************************************************************************)

\* The string "" is the text of two quotes.
LiteralText(t) == IF t = <<>> THEN EmptyLiteral ELSE Text(t)

Meaning(w) ==
  CASE w = "true" -> Bool(TRUE) [] w = "false" -> Bool(FALSE) [] w = "undefined" -> Undefined
    [] w \in DOMAIN Numerals -> Numerals[w]
    [] w \in NumberLike -> Blank

RECURSIVE Denotation(_)

\* What an element of a list leaves in it.  No operator is applied there: its name
\* and its operands become elements.
RECURSIVE Elements(_)
Elements(t) ==
  IF t.op \in Operators
  THEN <<Text(<<t.op>>)>> \o FlattenSeq([i \in DOMAIN t.args |-> Elements(t.args[i])])
  ELSE <<Denotation(t)>>

\* All arguments are evaluated, those of ifThen too: one that fails makes the
\* whole expression fail.
Denotation(t) ==
  LET a == [i \in DOMAIN t.args |-> Denotation(t.args[i])]
      name == a[1].text
      Inner(condition, use) == Answer(use, Result(Denotation(condition)))
  IN CASE t.op = "an array" -> List(FlattenSeq([i \in DOMAIN t.args |-> Elements(t.args[i])]))
       [] t.op # "an array" /\ Abort \in ToSet(a) -> Abort
       [] t.op = "a word"   -> Meaning(t.text[1])
       [] t.op = "a string" -> LiteralText(t.text)
       [] t.op = "a dictionary" ->
            Map([i \in 1 .. Len(a) \div 2 |-> [key |-> a[2 * i - 1], value |-> a[2 * i]]])
       [] t.op \in PureOperators -> Apply(t.op, a)
       [] t.op \in Operators \ PureOperators /\ ~IsText(a[1]) -> Abort
       [] t.op = "property" /\ IsText(a[1]) -> PropertyValue(name)
       [] t.op = "isInTargetGroup" /\ IsText(a[1]) ->
            IF name \in DOMAIN TargetGroup THEN Inner(TargetGroup[name], "group") ELSE Bool(FALSE)
       [] t.op = "flagValue" /\ IsText(a[1]) ->
            IF name \in DOMAIN RegisteredFlag THEN Text(RegisteredFlag[name])
            ELSE IF name \in DOMAIN FlagCondition THEN Inner(FlagCondition[name], "flag")
            ELSE Text(<<"false">>)

\* The parts of an expression, itself included, what they are, and the words it
\* applies and those that stand for values.
RECURSIVE Parts(_)
Parts(t) == {t} \cup UNION {Parts(t.args[i]) : i \in DOMAIN t.args}

Ops(t) == {p.op : p \in Parts(t)}
Applied(t) == Ops(t) \ {"a word", "a string", "an array", "a dictionary"}
Plain(t) == {p.text[1] : p \in {q \in Parts(t) : q.op = "a word"}}

PlainWords == DOMAIN Numerals \cup NumberLike \cup {"true", "false", "undefined"}

\* No list within a list, which ends the outer one, and no dictionary of anything but
\* words and strings under different keys that are strings.
Supported(t) ==
  \A p \in Parts(t) :
    /\ p.op = "an array" => \A i \in DOMAIN p.args : "an array" \notin Ops(p.args[i])
    /\ p.op = "a dictionary" =>
         /\ \A i \in DOMAIN p.args :
              p.args[i].op \in IF i % 2 = 1 THEN {"a string"} ELSE {"a word", "a string"}
         /\ \A i, j \in DOMAIN p.args :
              i % 2 = 1 /\ j % 2 = 1 /\ p.args[i] = p.args[j] => i = j

\* Are all of its words words of the language, and its lists and dictionaries
\* supported?
Known(t) == Applied(t) \subseteq Operators /\ Plain(t) \subseteq PlainWords /\ Supported(t)

\* Is one of them a word that the tokenizer cannot place?
Strange(t) == ~(Applied(t) \cup Plain(t) \subseteq Operators \cup PlainWords)

-----------------------------------------------------------------------------
(***************************************************************************)
(* Property.                                                               *)
(***************************************************************************)
\* Cutting an expression into tokens, reversing them and running them gives
\* what the expression means, however its operators are nested and it is spaced,
\* whatever signs its strings hold, and whichever evaluations begin inside of it; no
\* operator took too few or too many operands on the way.  This is not so of what
\* the parser does not support: an operator within a list means its name and its
\* operands there, not its result, and a list within a list or a dictionary within a
\* dictionary means nothing.  An expression that holds a word that is neither an
\* operator nor a value has no other result than null (an operator this SDK does not
\* know is such a word, unless its name ends in a digit and is taken for a number:
\* nothing is promised then).
ResultIsDenotation ==
  /\ Finished /\ Known(tree) => Len(Top.stack) = 1
  /\ outcome # Null =>
       /\ Known(tree)   => outcome = Result(Denotation(tree))
       /\ Strange(tree) => outcome \in {NullValue, Abort}
=============================================================================
