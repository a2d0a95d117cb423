----------------------------- MODULE RoxxMachine ------------------------------
(***************************************************************************)
(* parser_evaluate_expression: an expression is cut into tokens, the nodes *)
(* made of them are reversed, and a stack machine runs over them, operands *)
(* first.  A condition may ask for a target group or for a flag that was   *)
(* not added, whose condition is then evaluated by a machine of its own in *)
(* the middle of the operator: a frame.                                    *)
(***************************************************************************)
EXTENDS RoxxValues

CONSTANTS
  Trees,             \* the expressions asked for
  Property,          \* what the custom properties say, by name
  Computed,          \* the properties whose value is computed, not stored
  TargetGroup,       \* the conditions of the target groups, by name
  RegisteredFlag,    \* the values of the flags that were added, by name
  FlagCondition,     \* the conditions of flags that were not, by name
  Written(_, _)      \* an expression as it is written, with a space behind each
                     \* comma or without

\* A word that is a number stands for one, and a property has a value.
ASSUME RoxxMachineAssumption ==
  /\ \A word \in DOMAIN Numerals : IsNumeric(Numerals[word]) /\ IsValue(Numerals[word])
  /\ \A name \in DOMAIN Property : IsValue(Property[name])

(***************************************************************************)
(* An expression as its author sees it.                                    *)
(***************************************************************************)
Tree(op, text, args) == [op |-> op, text |-> text, args |-> args]
Word(w)     == Tree("a word", <<w>>, <<>>)
Literal(t)  == Tree("a string", t, <<>>)
Array(args) == Tree("an array", <<>>, args)
Dictionary(args) == Tree("a dictionary", <<>>, args)   \* key, value, key, value

Operators == PureOperators \cup {"property", "flagValue", "isInTargetGroup"}

VARIABLES
  tree,      \* the expression asked for
  spaced,    \* is it written with a space behind each comma?
  frames,    \* the evaluations in progress, the innermost last
  outcome    \* its EvaluationResult, or Null

evalVars == <<tree, spaced, frames, outcome>>

-----------------------------------------------------------------------------
(***************************************************************************)
(* The tokenizer: one turn of the loop of tokenized_expression_get_tokens. *)
(***************************************************************************)
Node(kind, value) == [kind |-> kind, value |-> value]

\* str_replace of the escaped quotes by a placeholder, before and after.
Replaced(text, sign, by) == [i \in DOMAIN text |-> IF text[i] = sign THEN by ELSE text[i]]
Normalized(text) == Replaced(text, "escaped quote", "placeholder")
Restored(token)  == Replaced(token, "placeholder", "escaped quote")

\* The tokenizer, the literals of TokenizedExpression that are being read, and
\* the machine.
Frame(text, use) ==
  [text |-> Normalized(text), at |-> 1, token |-> <<>>, inString |-> FALSE,
   array |-> Null, dict |-> Null, key |-> Null,
   nodes |-> <<>>, pc |-> 0, stack |-> <<>>, null |-> FALSE, failed |-> FALSE, use |-> use]

Signs == {"{", "}", "[", "]", "(", ")", ":", ",", " ", "quote"}
Delimiters(f) == IF f.inString THEN {"quote"} ELSE Signs

\* tokenizer_scan_token: one delimiter, or everything up to the next one.
TokenEnd(f) ==
  LET later == {i \in f.at .. Len(f.text) : f.text[i] \in Delimiters(f)}
  IN IF f.at \in later THEN f.at
     ELSE IF later = {} THEN Len(f.text)
     ELSE CHOOSE i \in f.at .. Len(f.text) : i + 1 \in later /\ \A j \in later : i < j

\* tokenized_expression_push_node.
Push(f, node) ==
  IF f.dict # Null /\ f.key = Null
  THEN IF IsText(node.value) THEN [f EXCEPT !.key = node.value] ELSE [f EXCEPT !.failed = TRUE]
  ELSE IF f.dict # Null
  THEN [f EXCEPT !.dict = IF \E i \in DOMAIN @ : @[i].key = f.key THEN @
                          ELSE Append(@, [key |-> f.key, value |-> node.value]),
                 !.key = Null]
  ELSE IF f.array # Null THEN [f EXCEPT !.array = Append(@, node.value)]
  ELSE [f EXCEPT !.nodes = Append(@, node)]

LooksNumeric(token) == Len(token) = 1 /\ token[1] \in DOMAIN Numerals \cup NumberLike

\* mem_str_to_int or mem_str_to_double, which may have no number to give.
NumberNode(word) ==
  Node("rand", IF word \in DOMAIN Numerals THEN Numerals[word] ELSE Blank)

\* tokenized_expression_node_from_token.
WordNode(token) ==
  IF Len(token) = 1 /\ token[1] \in Operators THEN Node("rator", Text(token))
  ELSE IF token = <<"true">>  THEN Node("rand", Bool(TRUE))
  ELSE IF token = <<"false">> THEN Node("rand", Bool(FALSE))
  ELSE IF token = <<"undefined">> THEN Node("rand", Undefined)
  ELSE IF LooksNumeric(token) THEN NumberNode(token[1])
  ELSE Node("unknown", NullValue)

EmptyLiteral == Text(<<"quote", "quote">>)

\* A quote ends a string only: what is quoted is read like the rest.
QuoteSeenUnquoted(f, previous) ==
  [ (IF previous = <<"quote">> THEN Push(f, Node("rand", EmptyLiteral)) ELSE f)
    EXCEPT !.inString = FALSE ]

\* A quote begins or ends a string.
QuoteSeen(f, previous) ==
  [ (IF previous = <<"quote">> THEN Push(f, Node("rand", EmptyLiteral)) ELSE f)
    EXCEPT !.inString = ~f.inString ]

TokenSeen(f, token, previous) ==
  IF token = <<"quote">> THEN QuoteSeen(f, previous)
  ELSE IF f.inString THEN Push(f, Node("rand", Text(Restored(token))))
  ELSE CASE token = <<"{">> -> [f EXCEPT !.dict = <<>>]
         [] token = <<"[">> -> [f EXCEPT !.array = <<>>]
         [] token = <<"}">> ->
              IF f.dict = Null THEN [f EXCEPT !.failed = TRUE]
              ELSE Push([f EXCEPT !.dict = Null], Node("rand", Map(f.dict)))
         [] token = <<"]">> ->
              IF f.array = Null THEN [f EXCEPT !.failed = TRUE]
              ELSE Push([f EXCEPT !.array = Null], Node("rand", List(f.array)))
         [] token[1] \in Signs -> f
         [] OTHER -> Push(f, WordNode(token))

ReadToken(f) ==
  LET token == SubSeq(f.text, f.at, TokenEnd(f))
  IN [ TokenSeen(f, token, f.token) EXCEPT !.at = TokenEnd(f) + 1, !.token = token ]

-----------------------------------------------------------------------------
(***************************************************************************)
(* The machine.                                                            *)
(***************************************************************************)

\* create_result_from_stack_item: there is no result for a list, a map, a date
\* or a blank, only a null pointer.
Result(v) == IF v.type \in {"list", "map", "datetime", "none"} THEN Abort ELSE v

FrameResult(f) ==
  IF f.null \/ f.stack = <<>> THEN NullValue ELSE Result(Head(f.stack))

\* What the operator that began the evaluation makes of its result.
Answer(use, v) ==
  IF v = Abort THEN Abort
  ELSE CASE use = "group" -> Bool(IsTrue(v))
         [] use = "flag"  -> CASE v.type = "bool" -> Text(<<IF IsTrue(v) THEN "true" ELSE "false">>)
                               [] IsText(v) /\ v.text # <<>> -> v
                               [] OTHER -> Text(<<"false">>)

EvalInit ==
  /\ tree \in Trees
  /\ spaced \in BOOLEAN
  /\ frames = <<Frame(Written(tree, spaced), "expression")>>
  /\ outcome = Null

Top == Last(frames)
Below == Front(frames)
Reading == Top.pc = 0
NextNode == Top.nodes[Top.pc]
Running == outcome = Null /\ ~Top.failed /\ Top.pc \in 1 .. Len(Top.nodes)
Program(name) == NextNode.kind = "rator" /\ NextNode.value.text = <<name>>

\* The operator at hand has v for its result.
Pushed(f, v) ==
  IF v = Abort THEN [f EXCEPT !.failed = TRUE]
  ELSE [f EXCEPT !.stack = <<v>> \o @, !.pc = @ + 1]

Operands(f, n) == SubSeq(f.stack, 1, IF n < Len(f.stack) THEN n ELSE Len(f.stack))
Popped(f, n) == [f EXCEPT !.stack = SubSeq(@, n + 1, Len(@))]

Becomes(f) == frames' = Append(Below, f) /\ UNCHANGED <<tree, spaced, outcome>>

Read ==
  /\ outcome = Null /\ ~Top.failed /\ Reading
  /\ Top.at <= Len(Top.text)
  /\ Becomes(ReadToken(Top))

\* A list or a dictionary that was not closed is dropped.
Closed(f) == [f EXCEPT !.array = Null, !.dict = Null, !.key = Null]

\* rox_list_reverse.
Start ==
  /\ outcome = Null /\ ~Top.failed /\ Reading
  /\ Top.at > Len(Top.text)
  /\ Becomes([Closed(Top) EXCEPT !.pc = 1, !.nodes = Reverse(@)])

PushOperand ==
  /\ Running /\ NextNode.kind = "rand"
  /\ Becomes(Pushed(Top, Copy(NextNode.value)))

\* The unknown word is looked at again and again.
SkipUnknownStays ==
  /\ Running /\ NextNode.kind = "unknown"
  /\ Becomes([Top EXCEPT !.null = TRUE])

\* An unknown word makes the result null; the rest is evaluated all the same.
SkipUnknown ==
  /\ Running /\ NextNode.kind = "unknown"
  /\ Becomes([Top EXCEPT !.null = TRUE, !.pc = @ + 1])

Operate(op) ==
  LET a == Operands(Top, Arity(op)) IN
  /\ Running /\ Program(op)
  /\ Becomes(IF Examined(op, a) \subseteq DOMAIN a
             THEN Pushed(Popped(Top, Arity(op)),
                         Apply(op, a \o [i \in 1 .. Arity(op) - Len(a) |-> NullValue]))
             ELSE [Top EXCEPT !.failed = TRUE])

\* The operand of an operator that looks something up is its name, as a text.
Named(op) ==
  /\ Running /\ Program(op)
  /\ Top.stack # <<>> /\ IsText(Head(Top.stack))
Name == Head(Top.stack).text

NamelessLookup ==
  /\ \E op \in Operators \ PureOperators : Running /\ Program(op) /\ ~Named(op)
  /\ Becomes([Top EXCEPT !.failed = TRUE])

\* parser_operator_property: what is not known, or null, is undefined.  The value
\* a property was given is copied, a computed one is pushed as it is.
PropertyValue(name) ==
  IF name \notin DOMAIN Property \/ Property[name] = NullValue THEN Undefined
  ELSE IF name \in Computed THEN Property[name] ELSE Copy(Property[name])

ReadProperty ==
  /\ Named("property")
  /\ Becomes(Pushed(Popped(Top, 1), PropertyValue(Name)))

\* The evaluation begun is the next one to go on.
Enter(condition, use) ==
  /\ frames' = Append(Append(Below, Popped(Top, 1)), Frame(Written(condition, spaced), use))
  /\ UNCHANGED <<tree, spaced, outcome>>

AskTargetGroup ==
  /\ Named("isInTargetGroup")
  /\ IF Name \in DOMAIN TargetGroup THEN Enter(TargetGroup[Name], "group")
     ELSE Becomes(Pushed(Popped(Top, 1), Bool(FALSE)))

AskFlag ==
  /\ Named("flagValue")
  /\ IF Name \in DOMAIN RegisteredFlag
     THEN Becomes(Pushed(Popped(Top, 1), Text(RegisteredFlag[Name])))
     ELSE IF Name \in DOMAIN FlagCondition THEN Enter(FlagCondition[Name], "flag")
     ELSE Becomes(Pushed(Popped(Top, 1), Text(<<"false">>)))

Finished == outcome = Null /\ ~Top.failed /\ Top.pc > Len(Top.nodes) /\ ~Reading

Return ==
  /\ Finished /\ Len(frames) > 1
  /\ frames' = Append(Front(Below), Pushed(Last(Below), Answer(Top.use, FrameResult(Top))))
  /\ UNCHANGED <<tree, spaced, outcome>>

Finish ==
  /\ Finished /\ Len(frames) = 1
  /\ outcome' = FrameResult(Top)
  /\ UNCHANGED <<tree, spaced, frames>>

Fail ==
  /\ outcome = Null /\ Top.failed
  /\ outcome' = Abort
  /\ UNCHANGED <<tree, spaced, frames>>

EvalNext ==
  \/ Read \/ Start \/ PushOperand \/ SkipUnknown
  \/ \E op \in PureOperators : Operate(op)
  \/ NamelessLookup \/ ReadProperty \/ AskTargetGroup \/ AskFlag
  \/ Return \/ Finish \/ Fail

EvalSpec == EvalInit /\ [][EvalNext]_evalVars
FairSpec == EvalSpec /\ WF_evalVars(EvalNext)

-----------------------------------------------------------------------------
(***************************************************************************)
(* Properties.                                                             *)
(***************************************************************************)
\* Two values that can be compared: numbers or texts that are, neither of them NaN
\* and not the same infinity.
Comparable(v, w) ==
  LET x == NumberOf(v)
      y == NumberOf(w)
  IN x # Null /\ y # Null /\ (Finite(x, y) \/ Unlike(x, y))

EpsilonApart(x, y) == Finite(x, y) /\ Distance(x, y) = DblEpsilon

\* The operators agree with each other on every pair of values that occur: of
\* two comparable numbers either one is less than the other or they are numeq, and
\* then eq too; numne is the opposite of numeq; what is less is not greater or
\* equal; and lte and gte hold for numeq numbers but at a distance of exactly one
\* epsilon.  What is no number compares to nothing, nor do NaN and twice the same
\* infinity: there numeq and numne are both false.  A list holds a value exactly
\* when it holds one that is eq to it, although inArray compares with a function of
\* its own.
ComparisonsAgree ==
  \A i, j \in DOMAIN Top.stack :
    LET v == Top.stack[i]
        w == Top.stack[j]
        Is(op) == IsTrue(Apply(op, <<v, w>>))
        IsBack(op) == IsTrue(Apply(op, <<w, v>>))
    IN
    /\ IsTrue(InArray(v, List(<<w>>))) = Is("eq")
    /\ Is("eq") = IsBack("eq")
    /\ IF Comparable(v, w)
       THEN /\ Cardinality({op \in {"lt", "numeq", "gt"} : Is(op)}) = 1
            /\ Is("numne") = ~Is("numeq")
            /\ Is("lt") => Is("lte") /\ ~Is("gte") /\ IsBack("gt")
            /\ IsNumeric(v) /\ IsNumeric(w) /\ Is("numeq") => Is("eq")
            /\ LET same == Is("numeq") /\ ~EpsilonApart(NumberOf(v), NumberOf(w)) IN
               /\ Is("lte") = (Is("lt") \/ same)
               /\ Is("gte") = (Is("gt") \/ same)
       ELSE \A op \in Comparisons : ~Is(op)

\* Every evaluation ends.
EvaluationEnds == <>(outcome # Null)
=============================================================================
