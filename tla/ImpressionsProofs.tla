--------------------------- MODULE ImpressionsProofs --------------------------
(***************************************************************************)
(* For any threads, contexts, properties and configurations: an impression *)
(* is heard once by each of those who listen, in their order, and the      *)
(* event names the subject the experiment has split by.                    *)
(***************************************************************************)
EXTENDS Impressions, Naturals, SequenceTheorems, TLAPS

AnyConfig  == [analytics : BOOLEAN, splitsBy : Names \cup {Null}]
AnyContext == Contexts \cup {NoContext}
Values     == Ids \cup {Default, Number, AppRule}
Places     == {"out", "evaluate", "invoke", "delegate", "handlers", "return", "aborted"}

Calls ==
  [local : AnyContext, quiet : BOOLEAN, value : Values,
   used : {<<>>} \cup (AnyContext \X AnyContext),
   experiment : Names \cup {Null},
   heard : Seq({"delegate", "application"} \X Values),
   event : {<<>>} \cup (Values \X (Ids \cup {NullId})),
   steady : BOOLEAN]

TypeOK ==
  /\ phase \in {"first fetch", "running"}
  /\ repository \in AnyConfig /\ variant \in AnyConfig
  /\ property \in [Names -> Kinds]
  /\ global \in AnyContext
  /\ pc \in [Threads -> Places]
  /\ call \in [Threads -> Calls]

\* What those who listen have heard when it was the application's turn, and after.
DelegateTold(c) == IF roxy THEN <<>> ELSE <<<<"delegate", c.value>>>>
Told(c) ==
  IF phase = "running" THEN Append(DelegateTold(c), <<"application", c.value>>)
                       ELSE DelegateTold(c)

\* Each listener in its turn, during the first fetch on the setup's thread only.
HeardInv(t, loc, c) ==
  /\ loc # "out" /\ phase = "first fetch" => t = SetupThread
  /\ loc \in {"invoke", "delegate", "handlers"} => ~c.quiet
  /\ loc = "delegate" => ~roxy
  /\ loc \in {"evaluate", "invoke", "delegate"} => c.heard = <<>>
  /\ loc = "handlers" => c.heard = DelegateTold(c)
  /\ loc = "return" => c.heard = IF c.quiet THEN <<>> ELSE Told(c)

\* What the condition sees of the property the experiment splits by.
Seen(c) ==
  IF variant.splitsBy = Null THEN Null
  ELSE Operand(variant.splitsBy, Merge(c.local, global))

\* As long as nothing has been replaced: the value is what the condition has
\* seen, with the context it has seen it in; the experiment is the flag's; and
\* the event tells both.
SubjectInv(loc, c) ==
  /\ loc \in {"out", "evaluate", "invoke", "delegate"} => c.event = <<>>
  /\ c.steady /\ loc \in {"invoke", "delegate", "handlers", "return", "aborted"} =>
       LET found == Seen(c) # Null
       IN /\ c.value = IF found THEN Seen(c) ELSE Default
          /\ c.used = IF found THEN Merge(c.local, global) ELSE <<>>
  /\ c.steady /\ loc = "delegate" => c.experiment = variant.splitsBy
  /\ c.steady /\ c.event # <<>> =>
       /\ repository.analytics /\ c.experiment = variant.splitsBy /\ c.experiment # Null
       /\ c.event = <<c.value, LET id == PropertyValue(Subject(c.experiment), c.used)
                               IN IF id \in Ids THEN id ELSE NullId>>
       /\ PropertyValue(Subject(c.experiment), c.used) # Null
  /\ c.steady /\ loc = "aborted" =>
       /\ c.experiment = variant.splitsBy /\ c.experiment # Null
       /\ PropertyValue(Subject(c.experiment), c.used) = Null

CallInv(t, loc, c) == HeardInv(t, loc, c) /\ SubjectInv(loc, c)

Inv ==
  /\ TypeOK
  /\ \A t \in Threads : CallInv(t, pc[t], call[t])

-----------------------------------------------------------------------------
\* What a condition can see, and what it is seen with, are of their types.
LEMMA SeenTypes ==
  ASSUME TypeOK, NEW l \in AnyContext, NEW g \in AnyContext, NEW n \in Names
  PROVE  /\ Merge(l, g) \in AnyContext \X AnyContext
         /\ Operand(n, Merge(l, g)) \in Values \cup {Null}
<1> USE ImpressionsAssumption DEF TypeOK, AnyContext, Values
<1>1. Get(l, n) \in Ids \cup {Null} /\ Get(g, n) \in Ids \cup {Null}
  BY DEF Get
<1>2. Merge(l, g) \in AnyContext \X AnyContext /\ Merge(l, g) # <<>>
      /\ Merge(l, g)[1] = l /\ Merge(l, g)[2] = g
  BY DEF Merge
<1>3. Merged(Merge(l, g), n) \in Ids \cup {Null}
  BY <1>1, <1>2 DEF Merged
<1>4. property[n] \in Kinds
  OBVIOUS
<1>5. property[n] # "absent" => PropertyValue(n, Merge(l, g)) \in Values \cup {Null, NullValue}
  BY <1>3, <1>4 DEF PropertyValue, Kinds
<1> QED  BY <1>2, <1>3, <1>5 DEF Operand, DynamicValue

\* A step of one evaluation leaves the others alone.
LEMMA MoveKeeps ==
  ASSUME Inv, NEW t \in Threads, NEW loc \in Places, NEW c \in Calls,
         Move(t, loc, c), CallInv(t, loc, c)
  PROVE  Inv'
<1>1. UNCHANGED <<phase, roxy, repository, variant, property, global>>
      /\ pc' = [pc EXCEPT ![t] = loc] /\ call' = [call EXCEPT ![t] = c]
  BY DEF Move
<1>2. TypeOK'
  BY <1>1 DEF Inv, TypeOK
<1>3. ASSUME NEW u \in Threads, NEW l, NEW d
      PROVE  CallInv(u, l, d)' <=> CallInv(u, l, d)
  BY <1>1 DEF CallInv, HeardInv, SubjectInv, DelegateTold, Told, Seen, Operand,
     DynamicValue,
     PropertyValue, Subject
<1>4. ASSUME NEW u \in Threads
      PROVE  CallInv(u, pc[u], call[u])'
  <2>1. CASE u = t
    <3>1. pc'[u] = loc /\ call'[u] = c
      BY <1>1, <2>1 DEF Inv, TypeOK
    <3> QED  BY <1>3, <2>1, <3>1
  <2>2. CASE u # t
    <3>1. pc'[u] = pc[u] /\ call'[u] = call[u]
      BY <1>1, <2>2 DEF Inv, TypeOK
    <3> QED  BY <1>3, <3>1 DEF Inv
  <2> QED  BY <2>1, <2>2
<1> QED  BY <1>2, <1>4 DEF Inv

-----------------------------------------------------------------------------
\* An evaluation begins with nothing heard, during the first fetch on the thread
\* of the setup.
LEMMA CallKeeps ==
  ASSUME Inv, NEW t \in Threads, NEW l \in AnyContext, NEW q \in BOOLEAN, Call(t, l, q)
  PROVE  Inv'
<1> DEFINE c == [NoCall EXCEPT !.local = l, !.quiet = q]
<1>1. Move(t, "evaluate", c) /\ (phase = "running" \/ t = SetupThread)
  BY DEF Call
<1>2. <<>> \in Seq({"delegate", "application"} \X Values) /\ Default \in Values
  BY DEF Values
<1>3. NoCall \in Calls /\ NoCall.heard = <<>> /\ NoCall.event = <<>>
  BY <1>2 DEF NoCall, Calls, AnyContext
<1>4. c \in Calls /\ c.heard = <<>> /\ c.event = <<>>
  BY <1>3 DEF Calls
<1> HIDE DEF c
<1>5. CallInv(t, "evaluate", c)
  BY <1>1, <1>4 DEF CallInv, HeardInv, SubjectInv, Inv, TypeOK
<1> QED  BY <1>1, <1>4, <1>5, MoveKeeps DEF Places, c

\* The value is what the condition has seen.
LEMMA EvaluateKeeps ==
  ASSUME Inv, NEW t \in Threads, Evaluate(t)
  PROVE  Inv'
<1> DEFINE context == Merge(call[t].local, global)
           operand == IF variant.splitsBy = Null THEN Null ELSE Operand(variant.splitsBy, context)
           found   == operand # Null
           loc     == IF call[t].quiet THEN "return" ELSE "invoke"
           c       == [call[t] EXCEPT !.value = IF found THEN operand ELSE Default,
                                      !.used  = IF found THEN context ELSE <<>>]
<1>1. Move(t, loc, c) /\ pc[t] = "evaluate"
  BY DEF Evaluate, EvaluateIn
<1>2. call[t] \in Calls /\ global \in AnyContext /\ variant \in AnyConfig
  BY DEF Inv, TypeOK
<1>3. context \in AnyContext \X AnyContext /\ operand \in Values \cup {Null}
  <2>1. call[t].local \in AnyContext /\ variant.splitsBy \in Names \cup {Null}
    BY <1>2 DEF Calls, AnyConfig
  <2>2. TypeOK /\ DistinctId \in Names
    BY ImpressionsAssumption DEF Inv
  <2> HIDE DEF context
  <2>3. context \in AnyContext \X AnyContext
    BY <1>2, <2>1, <2>2, SeenTypes DEF context
  <2>4. variant.splitsBy # Null => Operand(variant.splitsBy, context) \in Values \cup {Null}
    BY <1>2, <2>1, <2>2, SeenTypes DEF context
  <2> QED  BY <2>3, <2>4
<1> HIDE DEF context
<1>4. /\ c \in Calls
      /\ c.value = (IF found THEN operand ELSE Default)
      /\ c.used = (IF found THEN context ELSE <<>>)
      /\ c.local = call[t].local /\ c.quiet = call[t].quiet /\ c.heard = call[t].heard
      /\ c.event = call[t].event /\ c.steady = call[t].steady
  <2>1. call[t] \in Calls
    BY <1>2
  <2>2. (IF found THEN operand ELSE Default) \in Values
    BY <1>3 DEF Values
  <2> HIDE DEF found, operand
  <2>3. context \in AnyContext \X AnyContext
    BY <1>3
  <2> QED
    BY <2>1, <2>2, <2>3 DEF Calls
<1>5. Seen(c) = operand
  BY <1>4 DEF Seen, context
<1> HIDE DEF c, operand
<1>6. call[t].heard = <<>> /\ call[t].event = <<>> /\ (phase = "first fetch" => t = SetupThread)
  BY <1>1 DEF Inv, CallInv, HeardInv, SubjectInv
<1>7. HeardInv(t, loc, c)
  BY <1>4, <1>6 DEF HeardInv
<1>8. SubjectInv(loc, c)
  BY <1>4, <1>5, <1>6 DEF SubjectInv, context
<1> QED  BY <1>1, <1>4, <1>7, <1>8, MoveKeeps DEF CallInv, Places

\* The impression is of the flag's experiment.
LEMMA InvokeKeeps ==
  ASSUME Inv, NEW t \in Threads, Invoke(t)
  PROVE  Inv'
<1> DEFINE loc == IF roxy THEN "handlers" ELSE "delegate"
           c   == [call[t] EXCEPT !.experiment = Experiment]
<1>1. Move(t, loc, c) /\ pc[t] = "invoke"
  BY DEF Invoke
<1>2. call[t] \in Calls /\ variant \in AnyConfig
  BY DEF Inv, TypeOK
<1>3. /\ c \in Calls /\ c.experiment = variant.splitsBy
      /\ c.value = call[t].value /\ c.used = call[t].used
      /\ c.local = call[t].local /\ c.quiet = call[t].quiet /\ c.heard = call[t].heard
      /\ c.event = call[t].event /\ c.steady = call[t].steady
  BY <1>2 DEF Calls, AnyConfig, Experiment
<1> HIDE DEF c
<1>4. HeardInv(t, "invoke", call[t]) /\ SubjectInv("invoke", call[t])
  BY <1>1 DEF Inv, CallInv
<1>5. HeardInv(t, loc, c)
  BY <1>3, <1>4 DEF HeardInv, DelegateTold
<1>6. SubjectInv(loc, c)
  BY <1>3, <1>4 DEF SubjectInv, Seen
<1> QED  BY <1>1, <1>3, <1>5, <1>6, MoveKeeps DEF CallInv, Places

\* The delegate's turn is the first.
LEMMA DelegateHears ==
  ASSUME Inv, NEW t \in Threads, pc[t] = "delegate"
  PROVE  LET old == call[t]
             c   == Heard(t, "delegate")
         IN /\ c \in Calls /\ c.heard = <<<<"delegate", old.value>>>>
            /\ c.local = old.local /\ c.quiet = old.quiet /\ c.value = old.value
            /\ c.used = old.used /\ c.experiment = old.experiment
            /\ c.event = <<>> /\ c.steady = old.steady
<1> DEFINE old == call[t]
<1>1. old \in Calls
  BY DEF Inv, TypeOK
<1>2. old.heard = <<>> /\ old.event = <<>>
  BY DEF Inv, CallInv, HeardInv, SubjectInv
<1>3. Append(<<>>, <<"delegate", old.value>>) = <<<<"delegate", old.value>>>>
      /\ <<<<"delegate", old.value>>>> \in Seq({"delegate", "application"} \X Values)
  BY <1>1 DEF Calls
<1> QED  BY <1>1, <1>2, <1>3 DEF Calls, Heard

\* The delegate hears it first, and its event names the subject.
LEMMA DelegateKeeps ==
  ASSUME Inv, NEW t \in Threads, Delegate(t)
  PROVE  Inv'
<1> DEFINE old   == call[t]
           heard == Heard(t, "delegate")
           c     == IF Tracked(t) THEN [heard EXCEPT !.event = Event(t)] ELSE heard
<1>1. Move(t, "handlers", c) /\ pc[t] = "delegate" /\ (Tracked(t) => SubjectValue(t) # Null)
  BY DEF Delegate
<1>2. old \in Calls
  BY DEF Inv, TypeOK
<1>3. Event(t) \in Values \X (Ids \cup {NullId})
  BY <1>2 DEF Event, EventId, Calls
<1>4. HeardInv(t, "delegate", old) /\ SubjectInv("delegate", old)
  BY <1>1 DEF Inv, CallInv
<1>5. /\ heard \in Calls /\ heard.heard = <<<<"delegate", old.value>>>>
      /\ heard.local = old.local /\ heard.quiet = old.quiet /\ heard.value = old.value
      /\ heard.used = old.used /\ heard.experiment = old.experiment
      /\ heard.event = <<>> /\ heard.steady = old.steady
  BY <1>1, DelegateHears
<1> HIDE DEF heard
<1>6. c \in Calls /\ c.heard = <<<<"delegate", old.value>>>>
      /\ c.local = old.local /\ c.quiet = old.quiet /\ c.value = old.value
      /\ c.used = old.used /\ c.experiment = old.experiment
      /\ c.event = (IF Tracked(t) THEN Event(t) ELSE <<>>) /\ c.steady = old.steady
  BY <1>3, <1>5 DEF Calls
<1> HIDE DEF c
<1>7. HeardInv(t, "handlers", c)
  BY <1>1, <1>4, <1>6 DEF HeardInv, DelegateTold
<1>8. SubjectInv("handlers", c)
  <2>1. c.steady => c.value = (IF Seen(c) # Null THEN Seen(c) ELSE Default)
                    /\ c.used = (IF Seen(c) # Null THEN Merge(c.local, global) ELSE <<>>)
                    /\ c.experiment = variant.splitsBy
    BY <1>4, <1>6 DEF SubjectInv, Seen
  <2>2. c.event # <<>> => Tracked(t) /\ c.event = Event(t)
    BY <1>6
  <2>3. SubjectValue(t) = PropertyValue(Subject(c.experiment), c.used)
    BY <1>6 DEF SubjectValue
  <2>4. Event(t) = <<c.value, LET id == PropertyValue(Subject(c.experiment), c.used)
                              IN IF id \in Ids THEN id ELSE NullId>>
    BY <1>6, <2>3 DEF Event, EventId
  <2> QED
    BY <1>1, <1>6, <2>1, <2>2, <2>3, <2>4 DEF SubjectInv, Tracked, AnalyticsEnabled
<1> QED  BY <1>1, <1>6, <1>7, <1>8, MoveKeeps DEF CallInv, Places

\* It hears of a subject without a value too, and that is the end.
LEMMA AbortKeeps ==
  ASSUME Inv, NEW t \in Threads, Abort(t)
  PROVE  Inv'
<1> DEFINE old == call[t]
           c   == Heard(t, "delegate")
<1>1. Move(t, "aborted", c) /\ pc[t] = "delegate" /\ Tracked(t) /\ SubjectValue(t) = Null
  BY DEF Abort
<1>2. HeardInv(t, "delegate", old) /\ SubjectInv("delegate", old)
  BY <1>1 DEF Inv, CallInv
<1>3. /\ c \in Calls /\ c.heard = <<<<"delegate", old.value>>>>
      /\ c.local = old.local /\ c.quiet = old.quiet /\ c.value = old.value
      /\ c.used = old.used /\ c.experiment = old.experiment
      /\ c.event = <<>> /\ c.steady = old.steady
  BY <1>1, DelegateHears
<1> HIDE DEF c
<1>4. HeardInv(t, "aborted", c)
  BY <1>2 DEF HeardInv
<1>5. PropertyValue(Subject(c.experiment), c.used) = Null /\ c.experiment # Null
  BY <1>1, <1>3 DEF SubjectValue, Tracked
<1>6. SubjectInv("aborted", c)
  BY <1>2, <1>3, <1>5 DEF SubjectInv, Seen
<1> QED  BY <1>1, <1>3, <1>4, <1>6, MoveKeeps DEF CallInv, Places

\* The application hears it last, once it can.
LEMMA HandlersKeeps ==
  ASSUME Inv, NEW t \in Threads, Handlers(t)
  PROVE  Inv'
<1> DEFINE old == call[t]
           c   == IF phase = "running"
                  THEN [old EXCEPT !.heard = Append(@, <<"application", old.value>>)]
                  ELSE old
<1>1. Move(t, "return", c) /\ pc[t] = "handlers"
  BY DEF Handlers, Heard
<1>2. old \in Calls
  BY DEF Inv, TypeOK
<1>3. HeardInv(t, "handlers", old) /\ SubjectInv("handlers", old)
  BY <1>1 DEF Inv, CallInv
<1>4. old.heard = DelegateTold(old) /\ ~old.quiet
  BY <1>3 DEF HeardInv
<1>5. Append(old.heard, <<"application", old.value>>) \in Seq({"delegate", "application"} \X Values)
  BY <1>2 DEF Calls
<1>6. c \in Calls /\ c.heard = Told(old)
      /\ c.local = old.local /\ c.quiet = old.quiet /\ c.value = old.value
      /\ c.used = old.used /\ c.experiment = old.experiment
      /\ c.event = old.event /\ c.steady = old.steady
  BY <1>2, <1>4, <1>5 DEF Calls, Told
<1> HIDE DEF c
<1>7. HeardInv(t, "return", c)
  BY <1>3, <1>4, <1>6 DEF HeardInv, Told, DelegateTold
<1>8. SubjectInv("return", c)
  BY <1>3, <1>6 DEF SubjectInv, Seen
<1> QED  BY <1>1, <1>6, <1>7, <1>8, MoveKeeps DEF CallInv, Places

\* The caller has its value.
LEMMA ReturnKeeps ==
  ASSUME Inv, NEW t \in Threads, Return(t)
  PROVE  Inv'
<1>1. Move(t, "out", NoCall)
  BY DEF Return
<1>2. <<>> \in Seq({"delegate", "application"} \X Values) /\ Default \in Values
  BY DEF Values
<1>3. NoCall \in Calls /\ NoCall.event = <<>>
  BY <1>2 DEF NoCall, Calls, AnyContext
<1>4. CallInv(t, "out", NoCall)
  BY <1>3 DEF CallInv, HeardInv, SubjectInv
<1> QED  BY <1>1, <1>3, <1>4, MoveKeeps DEF Places

-----------------------------------------------------------------------------
\* What is replaced during an evaluation makes it unsteady and no more.
LEMMA ReplacementKeeps ==
  ASSUME Inv, TypeOK', Unsteady, UNCHANGED <<phase, roxy, pc>>
  PROVE  Inv'
<1>1. ASSUME NEW t \in Threads
      PROVE  CallInv(t, pc[t], call[t])'
  <2> DEFINE c == call'[t]
  <2>1. call[t] \in Calls
    BY DEF Inv, TypeOK
  <2>2. c.heard = call[t].heard /\ c.quiet = call[t].quiet /\ c.value = call[t].value
        /\ c.event = call[t].event /\ c.used = call[t].used
    BY <2>1 DEF Unsteady, Calls
  <2>3. c.steady <=> call[t].steady /\ pc[t] = "out"
    BY <2>1 DEF Unsteady, Calls
  <2>4. CallInv(t, pc[t], call[t]) /\ pc'[t] = pc[t]
    BY DEF Inv
  <2> HIDE DEF c
  <2>5. HeardInv(t, pc[t], call[t])'
    BY <2>2, <2>4 DEF CallInv, HeardInv, DelegateTold, Told, c
  <2>6. SubjectInv(pc[t], call[t])'
    BY <2>2, <2>3, <2>4 DEF CallInv, SubjectInv, c
  <2> QED  BY <2>5, <2>6 DEF CallInv
<1> QED  BY <1>1 DEF Inv

\* It leaves the types alone.
LEMMA UnsteadyTypes ==
  ASSUME TypeOK, Unsteady
  PROVE  call' \in [Threads -> Calls]
<1> SUFFICES ASSUME NEW t \in Threads
             PROVE  [call[t] EXCEPT !.steady = @ /\ pc[t] = "out"] \in Calls
  BY DEF Unsteady
<1> DEFINE b == call[t].steady /\ pc[t] = "out"
<1>1. b \in BOOLEAN
  OBVIOUS
<1>2. call[t] \in Calls
  BY DEF TypeOK
<1>3. \A x \in BOOLEAN : [call[t] EXCEPT !.steady = x] \in Calls
  BY <1>2 DEF Calls
<1> QED  BY <1>1, <1>3

\* A context, a property or a configuration is replaced, or the setup ends.
LEMMA OthersKeep ==
  ASSUME Inv, \/ \E c \in Configs : SetExperiments(c)
              \/ SetFlags \/ FinishSetup
              \/ \E n \in Names, k \in Kinds \ {"absent"} : SetProperty(n, k)
              \/ \E c \in Contexts \cup {NoContext} : SetContext(c)
              \/ UNCHANGED vars
  PROVE  Inv'
<1> USE ImpressionsAssumption DEF Inv
<1>1. ASSUME NEW c \in Configs, SetExperiments(c)
      PROVE  Inv'
  <2>1. TypeOK'
    BY <1>1, UnsteadyTypes DEF SetExperiments, TypeOK, AnyConfig
  <2> QED  BY <1>1, <2>1, ReplacementKeeps DEF SetExperiments
<1>2. CASE SetFlags
  <2>1. TypeOK'
    BY <1>2, UnsteadyTypes DEF SetFlags, TypeOK
  <2> QED  BY <1>2, <2>1, ReplacementKeeps DEF SetFlags
<1>3. ASSUME NEW n \in Names, NEW k \in Kinds, SetProperty(n, k)
      PROVE  Inv'
  <2>1. TypeOK'
    BY <1>3, UnsteadyTypes DEF SetProperty, TypeOK
  <2> QED  BY <1>3, <2>1, ReplacementKeeps DEF SetProperty
<1>4. ASSUME NEW c \in AnyContext, SetContext(c)
      PROVE  Inv'
  <2>1. TypeOK'
    BY <1>4, UnsteadyTypes DEF SetContext, TypeOK
  <2> QED  BY <1>4, <2>1, ReplacementKeeps DEF SetContext
<1>5. CASE FinishSetup
  <2>1. TypeOK'
    BY <1>5 DEF FinishSetup, TypeOK
  <2>2. \A t \in Threads : pc[t] = "out"
    BY <1>5 DEF FinishSetup, CallInv, HeardInv
  <2>3. ASSUME NEW t \in Threads
        PROVE  CallInv(t, pc[t], call[t])'
    <3>1. pc'[t] = "out" /\ phase' = "running" /\ call' = call /\ call[t].event = <<>>
      BY <1>5, <2>2 DEF FinishSetup, CallInv, SubjectInv
    <3>2. HeardInv(t, pc[t], call[t])'
      BY <3>1 DEF HeardInv
    <3>3. SubjectInv(pc[t], call[t])'
      BY <3>1 DEF SubjectInv
    <3> QED  BY <3>2, <3>3 DEF CallInv
  <2> QED  BY <2>1, <2>3
<1>6. CASE UNCHANGED vars
  <2>1. TypeOK'
    BY <1>6 DEF vars, TypeOK
  <2>2. ASSUME NEW t \in Threads
        PROVE  CallInv(t, pc[t], call[t])'
    <3>1. CallInv(t, pc[t], call[t])
      OBVIOUS
    <3>2. HeardInv(t, pc[t], call[t])'
      BY <1>6, <3>1 DEF vars, CallInv, HeardInv, DelegateTold, Told
    <3>3. SubjectInv(pc[t], call[t])'
      BY <1>6, <3>1 DEF vars, CallInv, SubjectInv, Seen, Operand, DynamicValue,
         PropertyValue, Subject
    <3> QED  BY <3>2, <3>3 DEF CallInv
  <2> QED  BY <2>1, <2>2
<1> QED  BY <1>1, <1>2, <1>3, <1>4, <1>5, <1>6 DEF AnyContext

-----------------------------------------------------------------------------
\* The inductive invariant: what each evaluation has found, and told to whom.
THEOREM InvariantHolds == Spec => []Inv
<1>1. Init => Inv
  <2> SUFFICES ASSUME Init
               PROVE  Inv
    OBVIOUS
  <2>1. <<>> \in Seq({"delegate", "application"} \X Values) /\ Default \in Values
    BY DEF Values
  <2>2. NoCall \in Calls /\ NoCall.event = <<>>
    BY <2>1 DEF NoCall, Calls, AnyContext
  <2>3. NoConfig \in AnyConfig
    BY DEF NoConfig, AnyConfig
  <2>4. TypeOK
    BY <2>2, <2>3 DEF Init, TypeOK, AnyContext, Places
  <2>5. \A t \in Threads : CallInv(t, "out", NoCall)
    BY <2>2 DEF CallInv, HeardInv, SubjectInv
  <2> QED  BY <2>4, <2>5 DEF Init, Inv
<1>2. Inv /\ [Next]_vars => Inv'
  BY CallKeeps, EvaluateKeeps, InvokeKeeps, DelegateKeeps, AbortKeeps, HandlersKeeps,
     ReturnKeeps,
     OthersKeep
     DEF Next, AnyContext
<1> QED  BY <1>1, <1>2, PTL DEF Spec

\* What nobody hears of a value, ...
LEMMA TellNobody ==
  ASSUME NEW v
  PROVE  /\ <<>> \o <<>> = <<>>
         /\ <<>> = [i \in DOMAIN <<>> |-> <<<<>>[i], v>>]
OBVIOUS

\* ... one listener, ...
LEMMA TellOne ==
  ASSUME NEW v, NEW x
  PROVE  /\ <<x>> \o <<>> = <<x>> /\ <<>> \o <<x>> = <<x>>
         /\ Append(<<>>, <<x, v>>) = <<<<x, v>>>>
         /\ <<<<x, v>>>> = [i \in DOMAIN <<x>> |-> <<<<x>>[i], v>>]
OBVIOUS

\* A sequence of two elements is the tuple of them.
LEMMA PairIsTuple ==
  ASSUME NEW p, NEW q, NEW s \in Seq({p, q}), Len(s) = 2, s[1] = p, s[2] = q
  PROVE  s = <<p, q>>
<1>1. /\ <<p, q>> \in Seq({p, q}) /\ Len(<<p, q>>) = 2
      /\ <<p, q>>[1] = p /\ <<p, q>>[2] = q
  OBVIOUS
<1>2. \A i \in 1 .. 2 : s[i] = <<p, q>>[i]
  BY <1>1
<1> QED  BY <1>1, <1>2, SeqEqual

\* Two elements one after the other, appended or concatenated.
LEMMA AppendTwo ==
  ASSUME NEW p, NEW q
  PROVE  /\ Append(<<p>>, q) = <<p, q>>
         /\ <<p>> \o <<q>> = <<p, q>>
<1> DEFINE s == Append(<<p>>, q)
           t == <<p>> \o <<q>>
<1>1. Len(s) = 2 /\ s[1] = p /\ s[2] = q /\ s \in Seq({p, q})
  OBVIOUS
<1>2. Len(t) = 2 /\ t[1] = p /\ t[2] = q /\ t \in Seq({p, q})
  <2>1. <<p>> \in Seq({p, q}) /\ <<q>> \in Seq({p, q}) /\ Len(<<p>>) = 1 /\ Len(<<q>>) = 1
    OBVIOUS
  <2> QED  BY <2>1, ConcatProperties
<1> HIDE DEF s, t
<1>3. s = <<p, q>> /\ t = <<p, q>>
  BY <1>1, <1>2, PairIsTuple
<1> QED  BY <1>3 DEF s, t

\* ... or two listeners.
LEMMA TellBoth ==
  ASSUME NEW v, NEW x, NEW y
  PROVE  /\ <<x>> \o <<y>> = <<x, y>>
         /\ Append(<<<<x, v>>>>, <<y, v>>)
              = [i \in DOMAIN <<x, y>> |-> <<<<x, y>>[i], v>>]
<1>1. <<x>> \o <<y>> = <<x, y>>
  BY AppendTwo
<1>2. <<<<x, v>>, <<y, v>>>> = [i \in DOMAIN <<x, y>> |-> <<<<x, y>>[i], v>>]
  OBVIOUS
<1>3. Append(<<<<x, v>>>>, <<y, v>>) = <<<<x, v>>, <<y, v>>>>
  BY AppendTwo
<1> QED  BY <1>1, <1>2, <1>3

\* An impression is heard once by each of those who listen, in their order.
THEOREM ImpressionsAreHeard == Spec => []HeardOnceInOrder
<1>1. Inv => HeardOnceInOrder
  <2> SUFFICES ASSUME Inv, NEW t \in Threads, pc[t] = "return"
               PROVE  LET who == IF call[t].quiet THEN <<>>
                                 ELSE (IF roxy THEN <<>> ELSE <<"delegate">>)
                                        \o (IF phase = "running" THEN <<"application">> ELSE <<>>)
                      IN call[t].heard = [i \in DOMAIN who |-> <<who[i], call[t].value>>]
    BY DEF HeardOnceInOrder
  <2> DEFINE v == call[t].value
  <2>1. call[t].heard = IF call[t].quiet THEN <<>> ELSE Told(call[t])
    BY DEF Inv, CallInv, HeardInv
  <2> HIDE DEF v
  <2>2. CASE call[t].quiet \/ (roxy /\ phase # "running")
    BY <2>1, <2>2, TellNobody DEF Told, DelegateTold, v
  <2>3. CASE ~call[t].quiet /\ ~roxy /\ phase # "running"
    BY <2>1, <2>3, TellOne DEF Told, DelegateTold, v
  <2>4. CASE ~call[t].quiet /\ roxy /\ phase = "running"
    BY <2>1, <2>4, TellOne DEF Told, DelegateTold, v
  <2>5. CASE ~call[t].quiet /\ ~roxy /\ phase = "running"
    BY <2>1, <2>5, TellBoth DEF Told, DelegateTold, v
  <2> QED  BY <2>2, <2>3, <2>4, <2>5
<1> QED  BY <1>1, InvariantHolds, PTL

\* The event names the subject the experiment has split by.
THEOREM EventsNameTheirSubject == Spec => []EventNamesItsSubject
<1>1. Inv => EventNamesItsSubject
  <2> SUFFICES ASSUME Inv, NEW t \in Threads,
                      pc[t] = "return", call[t].event # <<>>, call[t].steady
               PROVE  LET value == call[t].event[1]
                      IN /\ repository.analytics
                         /\ value = call[t].value
                         /\ property[call[t].experiment] # "absent" =>
                              call[t].event[2] = IF value \in Ids THEN value ELSE NullId
    BY DEF EventNamesItsSubject
  <2> DEFINE c       == call[t]
             name    == variant.splitsBy
             context == Merge(c.local, global)
             id      == PropertyValue(Subject(c.experiment), c.used)
  <2>1. SubjectInv("return", c)
    BY DEF Inv, CallInv
  <2>2. /\ repository.analytics /\ c.experiment = name /\ name # Null
        /\ c.event = <<c.value, IF id \in Ids THEN id ELSE NullId>> /\ id # Null
        /\ c.value = IF Seen(c) # Null THEN Seen(c) ELSE Default
        /\ c.used = IF Seen(c) # Null THEN context ELSE <<>>
    BY <2>1 DEF SubjectInv
  <2>3. variant \in AnyConfig /\ property \in [Names -> Kinds]
    BY DEF Inv, TypeOK
  <2>4. name \in Names /\ property[name] \in Kinds
    BY <2>2, <2>3 DEF AnyConfig
  <2>5. ASSUME property[name] # "absent"
        PROVE  (IF id \in Ids THEN id ELSE NullId) = IF c.value \in Ids THEN c.value ELSE NullId
    <3>1. Subject(c.experiment) = name
          /\ Seen(c) = IF PropertyValue(name, context) = NullValue THEN Null
                       ELSE PropertyValue(name, context)
      BY <2>2, <2>5 DEF Subject, Seen, Operand
    <3>2. CASE Seen(c) # Null
      BY <2>2, <3>1, <3>2
    <3>3. CASE Seen(c) = Null
      <4>1. c.value = Default /\ id = PropertyValue(name, <<>>) /\ id # Null
        BY <2>2, <3>1, <3>3
      <4>2. PropertyValue(name, <<>>) \notin Ids
        BY ImpressionsAssumption, <2>4, <2>5, <3>1, <3>3 DEF PropertyValue, Merged, Kinds
      <4> QED  BY ImpressionsAssumption, <4>1, <4>2
    <3> QED  BY <3>2, <3>3
  <2> HIDE DEF id
  <2> QED  BY <2>2, <2>5
<1> QED  BY <1>1, InvariantHolds, PTL

\* The delegate finds the subject whenever the condition has found one.
THEOREM SubjectsAreFoundAgain == Spec => []SubjectIsFoundAgain
<1>1. Inv => SubjectIsFoundAgain
  <2> SUFFICES ASSUME Inv, NEW t \in Threads,
                      pc[t] = "aborted", call[t].steady, property[call[t].experiment] # "absent"
               PROVE  call[t].value = Default
    BY DEF SubjectIsFoundAgain
  <2> DEFINE c       == call[t]
             name    == variant.splitsBy
             context == Merge(c.local, global)
  <2>1. /\ c.experiment = name /\ name # Null
        /\ PropertyValue(Subject(c.experiment), c.used) = Null
        /\ c.value = IF Seen(c) # Null THEN Seen(c) ELSE Default
        /\ c.used = IF Seen(c) # Null THEN context ELSE <<>>
    BY DEF Inv, CallInv, SubjectInv
  <2>2. Subject(c.experiment) = name
    BY <2>1 DEF Subject
  <2>3. CASE Seen(c) # Null
    <3>1. PropertyValue(name, context) = Null
      BY <2>1, <2>2, <2>3
    <3>2. Null # NullValue
      BY ImpressionsAssumption
    <3>3. Operand(name, context) = Null
      BY <2>1, <3>1, <3>2 DEF Operand
    <3> QED  BY <2>1, <2>3, <3>3 DEF Seen
  <2>4. CASE Seen(c) = Null
    BY <2>1, <2>4
  <2> QED  BY <2>3, <2>4
<1> QED  BY <1>1, InvariantHolds, PTL
=============================================================================
