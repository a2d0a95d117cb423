------------------------------ MODULE Impressions -----------------------------
(***************************************************************************)
(* What the evaluation of a flag tells the world: the impression handlers  *)
(* of the application and, before them, the analytics event with the       *)
(* distinct id of the experiment's subject.  Contexts, custom properties   *)
(* and the dynamic properties rule decide both the value and the id; they, *)
(* and the configuration, may be replaced while an evaluation is under     *)
(* way.  The flag is a string flag neither overridden nor frozen, as       *)
(* FlagValues has those, and its condition is the property the experiment  *)
(* splits by.  A property for which there is no value at all, not even a   *)
(* null one, ends the process in the analytics' delegate.                  *)
(***************************************************************************)
EXTENDS Sequences

CONSTANTS
  Threads,     \* threads that evaluate the flag, one of them the setup's
  SetupThread,
  Ids,         \* strings a property may have for its value
  Names,       \* names of properties an experiment may split by
  DistinctId,  \* one of them, "rox.distinct_id"
  Contexts,    \* contexts of the application
  Configs,     \* what configurations say of this flag and of analytics
  Null,
  NoContext

Default   == "default"
NullId    == "(null_distinct_id"
NullValue == "a null value"
Number    == "a number"
AppRule   == "by the application's rule"

ASSUME ImpressionsAssumption ==
  /\ SetupThread \in Threads
  /\ DistinctId \in Names
  /\ Contexts \subseteq [Names -> Ids \cup {Null}]
  /\ NoContext \notin Contexts
  /\ Configs \subseteq [analytics : BOOLEAN, splitsBy : Names \cup {Null}]
  /\ Null \notin Ids /\ Ids \cap {Default, NullId, NullValue, Number, AppRule} = {}
  /\ Null \notin {Number, AppRule, NullValue}

VARIABLES
  phase,       \* how far rox_core_setup has come
  roxy,        \* a Roxy URL is set: no delegate
  repository,  \* the configuration the experiment repository is from
  variant,     \* the one the flag's condition and experiment are from
  property,    \* the custom properties, and how each has its value
  global,      \* the global context
  pc,          \* where each evaluation is
  call         \* its arguments, and what it has found and told so far

vars == <<phase, roxy, repository, variant, property, global, pc, call>>

Kinds    == Ids \cup {"absent", "generator", "number", "null"}
NoConfig == [analytics |-> FALSE, splitsBy |-> Null]

NoCall == [local |-> NoContext, quiet |-> FALSE, value |-> Default, used |-> <<>>,
           experiment |-> Null, heard |-> <<>>, event |-> <<>>, steady |-> TRUE]

Init ==
  /\ phase = "first fetch"
  /\ roxy \in BOOLEAN
  /\ repository = NoConfig /\ variant = NoConfig
  /\ property \in [Names -> Kinds]
  /\ property[DistinctId] \in Ids \cup {"generator", "null"}
  /\ global = NoContext
  /\ pc = [t \in Threads |-> "out"]
  /\ call = [t \in Threads |-> NoCall]

-----------------------------------------------------------------------------
(***************************************************************************)
(* Contexts and properties.                                                *)
(***************************************************************************)
\* rox_context_get.
Get(context, name) == IF context = NoContext THEN Null ELSE context[name]

\* rox_context_create_merged and _merged_context_get_value; <<>> is NULL.
Merge(local, other) == <<local, other>>

Merged(merged, name) ==
  IF merged = <<>> THEN Null
  ELSE IF Get(merged[1], name) # Null THEN Get(merged[1], name) ELSE Get(merged[2], name)

\* custom_property_get_value; the application's generators look into the context,
\* and give NULL for what they do not find in it.
PropertyValue(name, context) ==
  CASE property[name] = "generator" -> Merged(context, name)
    [] property[name] = "number"    -> Number
    [] property[name] = "null"      -> NullValue
    [] OTHER                        -> property[name]

\* dynamic_properties_invoke: the application's rule is set after the first
\* fetch, before that the default one looks into the context.
DynamicValue(name, context) ==
  IF phase = "running" THEN AppRule ELSE Merged(context, name)

\* parser_operator_property: undefined, for a null value as for none.
Operand(name, context) ==
  LET value == PropertyValue(name, context)
  IN IF property[name] = "absent" THEN DynamicValue(name, context)
     ELSE IF value = NullValue THEN Null ELSE value

-----------------------------------------------------------------------------
(***************************************************************************)
(* variant_get_value.                                                      *)
(***************************************************************************)
Move(t, loc, found) ==
  /\ pc' = [pc EXCEPT ![t] = loc]
  /\ call' = [call EXCEPT ![t] = found]
  /\ UNCHANGED <<phase, roxy, repository, variant, property, global>>

\* rox_get_string_ctx, or a peek; during the first fetch only the configuration
\* fetched handler, on the thread of rox_setup, can do so.
Call(t, local, quiet) ==
  /\ pc[t] = "out"
  /\ phase = "running" \/ t = SetupThread
  /\ Move(t, "evaluate", [NoCall EXCEPT !.local = local, !.quiet = quiet])

\* The context used is the result's, if the result has become a value.
EvaluateIn(t, context, used) ==
  /\ pc[t] = "evaluate"
  /\ LET operand == IF variant.splitsBy = Null THEN Null ELSE Operand(variant.splitsBy, context)
         found   == operand # Null
     IN Move(t, IF call[t].quiet THEN "return" ELSE "invoke",
             [call[t] EXCEPT !.value = IF found THEN operand ELSE Default,
                             !.used  = IF found THEN used ELSE <<>>])

\* The impression gets the caller's context alone.
EvaluateLocally(t) ==
  EvaluateIn(t, Merge(call[t].local, global), Merge(call[t].local, NoContext))
Evaluate(t) ==
  EvaluateIn(t, Merge(call[t].local, global), Merge(call[t].local, global))

\* experiment_create: what the handlers are told of the flag's experiment, as it
\* is now.
Experiment == variant.splitsBy

\* impression_invoker_invoke.
Invoke(t) ==
  /\ pc[t] = "invoke"
  /\ Move(t, IF roxy THEN "handlers" ELSE "delegate",
          [call[t] EXCEPT !.experiment = Experiment])

\* internal_flags_is_enabled of rox.internal.analytics, in the repository.
AnalyticsEnabled == repository.analytics

\* x_impression_handler_delegate: of a flag in an experiment, the property the
\* experiment splits by, or else the distinct id.
Tracked(t) == AnalyticsEnabled /\ call[t].experiment # Null

AlwaysDistinctId(experiment) == DistinctId
Subject(experiment) == IF property[experiment] # "absent" THEN experiment ELSE DistinctId

SubjectValue(t) == PropertyValue(Subject(call[t].experiment), call[t].used)

\* Its value, if that is a string.
EventId(t) == IF SubjectValue(t) \in Ids THEN SubjectValue(t) ELSE NullId

\* analytics_event_create, and analytics_client_track.
Event(t) == <<call[t].value, EventId(t)>>

Heard(t, who) == [call[t] EXCEPT !.heard = Append(@, <<who, call[t].value>>)]

Delegate(t) ==
  /\ pc[t] = "delegate"
  /\ Tracked(t) => SubjectValue(t) # Null
  /\ Move(t, "handlers",
          IF Tracked(t) THEN [Heard(t, "delegate") EXCEPT !.event = Event(t)]
                        ELSE Heard(t, "delegate"))

\* rox_dynamic_value_is_string asserts that there is a value.
Abort(t) ==
  /\ pc[t] = "delegate"
  /\ Tracked(t) /\ SubjectValue(t) = Null
  /\ Move(t, "aborted", Heard(t, "delegate"))

\* The handlers registered, last the application's, which is so only after the
\* first fetch.
HandlersUnset(t) ==
  /\ pc[t] = "handlers"
  /\ Move(t, "return", call[t])
Handlers(t) ==
  /\ pc[t] = "handlers"
  /\ Move(t, "return",
          IF phase = "running" THEN Heard(t, "application") ELSE call[t])

Return(t) ==
  /\ pc[t] = "return"
  /\ Move(t, "out", NoCall)

-----------------------------------------------------------------------------
(***************************************************************************)
(* What may happen meanwhile.  steady records that nothing did.            *)
(***************************************************************************)
Unsteady == call' = [t \in Threads |-> [call[t] EXCEPT !.steady = @ /\ pc[t] = "out"]]

\* rox_core_fetch: the experiments first, the flags later.
SetExperiments(c) ==
  /\ repository = variant
  /\ repository' = c
  /\ Unsteady
  /\ UNCHANGED <<phase, roxy, variant, property, global, pc>>

SetFlags ==
  /\ repository # variant
  /\ variant' = repository
  /\ Unsteady
  /\ UNCHANGED <<phase, roxy, repository, property, global, pc>>

\* rox_core_setup after its fetch: impression handler, then dynamic rule.
FinishSetup ==
  /\ phase = "first fetch" /\ pc[SetupThread] = "out"
  /\ phase' = "running"
  /\ UNCHANGED <<roxy, repository, variant, property, global, pc, call>>

\* rox_set_custom_..._property.
SetProperty(n, kind) ==
  /\ phase = "running"
  /\ property' = [property EXCEPT ![n] = kind]
  /\ Unsteady
  /\ UNCHANGED <<phase, roxy, repository, variant, global, pc>>

\* rox_set_context.
SetContext(c) ==
  /\ phase = "running"
  /\ global' = c
  /\ Unsteady
  /\ UNCHANGED <<phase, roxy, repository, variant, property, pc>>

\* A failed assertion is the end of the process.
Aborted == \E t \in Threads : pc[t] = "aborted"

Next ==
  /\ ~Aborted
  /\ \/ \E t \in Threads :
          \/ \E c \in Contexts \cup {NoContext}, q \in BOOLEAN : Call(t, c, q)
          \/ Evaluate(t) \/ Invoke(t) \/ Delegate(t) \/ Abort(t) \/ Handlers(t) \/ Return(t)
     \/ \E c \in Configs : SetExperiments(c)
     \/ SetFlags
     \/ FinishSetup
     \/ \E n \in Names, k \in Kinds \ {"absent"} : SetProperty(n, k)
     \/ \E c \in Contexts \cup {NoContext} : SetContext(c)

Spec == Init /\ [][Next]_vars

-----------------------------------------------------------------------------
(***************************************************************************)
(* Properties.                                                             *)
(***************************************************************************)
\* An evaluation that returns was heard once by each of those who asked for
\* impressions, the delegate before the application, with the value the caller
\* gets, whatever the configuration does meanwhile; a peek is heard by nobody.
\* The application's handler misses the evaluations of the first fetch.
HeardOnceInOrder ==
  \A t \in Threads :
    pc[t] = "return" =>
      LET who == IF call[t].quiet THEN <<>>
                 ELSE (IF roxy THEN <<>> ELSE <<"delegate">>)
                        \o (IF phase = "running" THEN <<"application">> ELSE <<>>)
      IN call[t].heard = [i \in DOMAIN who |-> <<who[i], call[t].value>>]

\* The event names the subject the experiment has split by: when the splitting
\* property is a registered one, and nothing was replaced during the
\* evaluation, the id of the event is the string the condition has seen, be it
\* from the property, the caller's context or the global one.  There is no
\* event unless the configuration in force asks for analytics.
EventNamesItsSubject ==
  \A t \in Threads :
    pc[t] = "return" /\ call[t].event # <<>> /\ call[t].steady =>
      LET value == call[t].event[1]
      IN /\ repository.analytics
         /\ value = call[t].value
         /\ property[call[t].experiment] # "absent" =>
              call[t].event[2] = IF value \in Ids THEN value ELSE NullId

\* The delegate finds the subject whenever the condition has: an evaluation ends
\* the process only if its value is the default one, when the splitting property
\* is a registered one and nothing was replaced during the evaluation.
SubjectIsFoundAgain ==
  \A t \in Threads :
    pc[t] = "aborted" /\ call[t].steady /\ property[call[t].experiment] # "absent" =>
      call[t].value = Default
=============================================================================
