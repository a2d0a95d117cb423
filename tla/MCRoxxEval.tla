----------------------------- MODULE MCRoxxEval -------------------------------
(* RoxxEval with every operator over values of every kind, and some nested    *)
(* expressions.  DBL_EPSILON is 1 unit, FLT_EPSILON is 3: there are numbers   *)
(* at each distance that matters, and texts that are none, or infinite.       *)
EXTENDS RoxxEval

MCNumerals ==
  [n \in {"10", "20"} |-> IF n = "10" THEN IntOf(10) ELSE IntOf(20)] @@
  [n \in {"10.1", "10.2", "10.3"} |-> Double(IF n = "10.1" THEN 11 ELSE IF n = "10.2" THEN 12 ELSE 13)]

MCTextNumbers ==
  [n \in DOMAIN MCNumerals |-> MCNumerals[n].num] @@
  [n \in {"nan", "inf", "-inf"} |->
     IF n = "nan" THEN NaN ELSE IF n = "inf" THEN Infinity ELSE NegInfinity]

MCVersion(t) == IF t = <<"1.1">> THEN 1 ELSE IF t = <<"1.1.0">> THEN 2 ELSE Null
MCMatches == { <<<<"a">>, <<"a">>, <<"quote", "quote">>>> }
MCBucket(t) == IF "." \in ToSet(t) THEN 11 ELSE 12

Named1(name, value) == [n \in {<<name>>} |-> value]

MCProperty ==
  Named1("a", Text(<<"10">>)) @@ Named1("date", DateTime(7)) @@ Named1("nothing", NullValue)
  @@ Named1("empty", Text(<<>>)) @@ Named1("nan", Double(NaN)) @@ Named1("clock", DateTime(7))

MCComputed == {<<"clock">>}

MCTargetGroup ==
  Named1("a", Tree("eq", <<>>, <<Tree("property", <<>>, <<Literal(<<"a">>)>>), Literal(<<"10">>)>>))
  @@ Named1("inner", Tree("not", <<>>, <<Tree("isInTargetGroup", <<>>, <<Literal(<<"a">>)>>)>>))
  @@ Named1("list", Array(<<Word("true")>>))
  @@ Named1("word", Word("true"))

MCRegisteredFlag == Named1("on", <<"true">>)
MCFlagCondition ==
  Named1("a", Tree("isInTargetGroup", <<>>, <<Literal(<<"inner">>)>>))
  @@ Named1("number", Word("10"))
  @@ Named1("date", Tree("concat", <<>>, <<Literal(<<"a">>), Literal(<<"b">>)>>))

Values == {Word(w) : w \in {"true", "false", "undefined", "10", "10.1", "10.2", "10.3", "version2"}}
Texts == {<<>>, <<"a">>, <<"10">>, <<"nan">>, <<"inf">>, <<"eq">>, <<"a", ",", " ", "(">>,
          <<"escaped quote", "a", "escaped quote">>}
Names == {<<n>> : n \in {"a", "nan", "date", "clock", "nothing", "empty", "inner", "list", "word", "on", "number", "x"}}
Lists == { Array(<<>>), Array(<<Word("10.2"), Literal(<<"a">>), Word("undefined")>>),
           Dictionary(<<Literal(<<"a">>), Word("10"), Literal(<<"b">>), Literal(<<"a">>)>>) }
Leaves == Values \cup {Literal(t) : t \in Texts} \cup Lists
Few == {Word("true"), Word("10"), Literal(<<"a">>), Literal(<<>>), Word("undefined")}
NotFinite == {Literal(<<"nan">>), Literal(<<"inf">>), Literal(<<"-inf">>)}
Some == Few \cup NotFinite \cup {Word("10.1"), Literal(<<"1.1">>), Literal(<<"1.1.0">>)}

Of(op, leaves) == {Tree(op, <<>>, a) : a \in [1 .. Arity(op) -> leaves]}

\* One operator.
Simple ==
  Leaves \cup Of("now", {})
  \cup UNION {Of(op, Leaves) : op \in {o \in Operators : Arity(o) = 1} \cup {"eq", "lt", "inArray"}}
  \cup UNION {Of(op, Some) : op \in {o \in PureOperators : Arity(o) = 2}}
  \cup UNION {Of(op, Few) : op \in {o \in PureOperators : Arity(o) = 3}}
  \cup {Tree(op, <<>>, <<Literal(n)>>) : op \in Operators \ PureOperators, n \in Names}

Lookup(op, name) == Tree(op, <<>>, <<Literal(<<name>>)>>)

\* Operators within operators, and words that are none.
Inner ==
  {Word("true"), Word("10.3"), Literal(<<"a">>),
   Tree("and", <<>>, <<Word("true"), Word("false")>>),
   Tree("mergeSeed", <<>>, <<Literal(<<"a">>), Literal(<<"b">>)>>),
   Lookup("property", "empty"), Lookup("property", "date"), Lookup("property", "clock"),
   Lookup("property", "nan"),
   Tree("version2", <<>>, <<Word("true")>>),
   Lookup("isInTargetGroup", "inner"), Lookup("flagValue", "a"),
   Word("word"), Tree("unheardOf", <<>>, <<Word("true"), Word("10")>>)}

\* Operators, lists and dictionaries within lists and dictionaries.
Seed == Tree("mergeSeed", <<>>, <<Literal(<<"a">>), Literal(<<"b">>)>>)
Pair(v) == Dictionary(<<Literal(<<"a">>), v>>)
Nested ==
  { Array(<<Seed, Literal(<<"b">>)>>), Array(<<Word("10"), Pair(Word("20"))>>),
    Array(<<Literal(<<"a">>), Tree("isInPercentage", <<>>, <<Literal(<<"a">>), Seed>>), Word("10")>>),
    Array(<<Literal(<<"a">>), Array(<<Word("10")>>), Word("20")>>),
    Pair(Seed), Pair(Array(<<Word("10")>>)), Pair(Pair(Word("10"))) }

MCTrees ==
  Simple
  \cup Nested
  \cup {Tree("inArray", <<>>, <<v, l>>) : v \in {Seed, Literal(<<"b">>), Word("10")}, l \in Nested}
  \cup UNION {Of(op, Inner) : op \in {"not", "tsToNum", "flagValue", "and", "concat", "isInPercentage"}}
  \cup Of("ifThen", Inner \ {Word("10.3"), Literal(<<"a">>), Lookup("property", "empty"),
                             Lookup("property", "date")})
=============================================================================
