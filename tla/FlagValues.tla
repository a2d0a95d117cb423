------------------------------ MODULE FlagValues ------------------------------
(***************************************************************************)
(* What the application reads from its flags in a client build: what the   *)
(* flag's condition yields, the default, a value frozen at first use, or   *)
(* an override, each converted to the type it is read as, the impressions  *)
(* reported on the way, and the storage file the overrides are read from   *)
(* at setup.  The chain of evaluation functions is the one rox_setup       *)
(* installs: overrides outermost, then freeze, then the configuration.     *)
(***************************************************************************)
EXTENDS FlagConversions, Sequences, FiniteSets

CONSTANTS
  Threads,        \* application threads
  Flags,
  Type,           \* the type a flag was added with
  Added,          \* the default value it was added with
  Reads,          \* the reads through the dynamic API: flag, type, default
  DependsOn,      \* the flag whose flagValue a flag's condition asks for
  NoFlag,
  Results,        \* what the conditions of the other flags may yield
  Texts,          \* the texts overrides are set to
  Explicit,       \* the freeze level of the flags that were added with one
  DefaultFreeze,  \* rox_options_set_default_freeze
  Background      \* do fetches run on a thread of their own?

\* The RoxFreeze levels, in the order rox_unfreeze_flag compares them.
UntilLaunch == 1
UntilForeground == 2
None == 3
Levels == {UntilLaunch, UntilForeground, None}

\* rox_add_string with NULL as default value is left out: reading such a flag fails
\* an assertion whenever its condition yields no string.
ASSUME FlagValuesAssumption ==
  /\ NoFlag \notin Flags
  /\ DependsOn \in [Flags -> Flags \cup {NoFlag}]
  /\ Type \in [Flags -> Types]
  /\ \A f \in Flags : IsValue(Type[f], Added[f])
  /\ \A r \in Reads : r.flag \in Flags /\ r.as \in Types /\ IsValue(r.as, r.default)
  /\ \A r \in Results : Is("string", r) => r.string # NoValue
  /\ NoValue \notin Texts \cup Results
  /\ DOMAIN Explicit \subseteq Flags
  /\ \A f \in DOMAIN Explicit : Explicit[f] \in Levels
  /\ DefaultFreeze \in Levels
  /\ Background \in BOOLEAN

VARIABLES
  running,      \* between rox_setup and rox_shutdown
  handler,      \* is unfreeze_configuration_fetched_handler registered?
  config,       \* what the condition of each flag yields, NoValue without one
  level,        \* FreezeContext: freeze
  frozen,       \* FreezeContext: frozen
  frozenValue,  \* FreezeContext: frozen_value
  override,     \* RoxFlagOverrides: values
  disk,         \* the storage entry "overrides"
  hasDelete,    \* does the storage configuration have an entry_delete?
  frames,       \* each thread's evaluations in progress, the inner one last
  mode,         \* each thread's evaluation: "get", "current" or "original"
  answer,       \* the value each thread's last evaluation step produced
  shown,        \* texts a freezing flag has answered since it was last released
  reported      \* texts its impressions have reported since then

freezeVars == <<level, frozen, frozenValue>>
evalVars   == <<frames, mode, answer>>
stateVars  == <<running, handler, config, hasDelete>>
history    == <<shown, reported>>
vars == <<stateVars, freezeVars, override, disk, evalVars, history>>

Nothing == [f \in Flags |-> NoValue]

\* A frame is a flag's evaluation by a converter, with the default value of the
\* call: about to "enter" its functions, past the overrides ("freezable"), waiting
\* for the "original" function, with a frozen value just stored ("stored"), or
\* "done".  "aborted": an assertion failed.
Stages == {"enter", "freezable", "original", "stored", "done", "aborted"}

Reading(f, type, default) ==
  [flag |-> f, as |-> type, default |-> default, at |-> "enter", freezes |-> FALSE]

\* A flag keeps its default value as a text.
DefaultText(f) == ToString(Type[f], Added[f])

\* rox_get_string, rox_get_int, rox_get_double, rox_is_enabled and the peeks, for
\* a flag of their type, leave the default to the flag; the dynamic API's reads
\* (after rox_setup only) bring one and may ask for another type than the flag's.
Own(f) == Reading(f, Type[f], NoValue)
Dynamic(r) == Reading(r.flag, r.as, ToString(r.as, r.default))

\* Flags before rox_setup: added, with or without a level of their own.
FreshLevels == [f \in Flags |-> IF f \in DOMAIN Explicit THEN Explicit[f] ELSE None]

Init ==
  /\ running = FALSE /\ handler = FALSE
  /\ config = Nothing
  /\ level = FreshLevels
  /\ frozen = [f \in Flags |-> FALSE]
  /\ frozenValue = Nothing
  /\ override = Nothing
  /\ disk = Nothing
  /\ hasDelete \in BOOLEAN
  /\ frames = [t \in Threads |-> <<>>]
  /\ mode = [t \in Threads |-> "get"]
  /\ answer = [t \in Threads |-> NoValue]
  /\ shown = [f \in Flags |-> {}]
  /\ reported = [f \in Flags |-> <<>>]

-----------------------------------------------------------------------------
(***************************************************************************)
(* Evaluation, step by step.                                               *)
(***************************************************************************)
Idle(t) == frames[t] = <<>>
Top(t)  == frames[t][Len(frames[t])]
At(t, at) == ~Idle(t) /\ Top(t).at = at

SetTop(t, frame) == frames' = [frames EXCEPT ![t][Len(frames[t])] = frame]

\* A read, or rox_peek_current_value and rox_peek_original_value ("current" and
\* "original"), which report no impression.
Evaluate(t, reading, m) ==
  /\ Idle(t)
  /\ frames' = [frames EXCEPT ![t] = <<reading>>]
  /\ mode' = [mode EXCEPT ![t] = m]
  /\ UNCHANGED <<stateVars, freezeVars, override, disk, answer, history>>

\* The top frame answers with a text, converted: 0 if it is no number, and an
\* assertion fails if a text but for a boolean is missing.
Convert(t, text) ==
  LET type  == Top(t).as
      value == FromString(type, text)
  IN
  IF text = NoValue /\ type # "bool"
  THEN SetTop(t, [Top(t) EXCEPT !.at = "aborted"]) /\ UNCHANGED answer
  ELSE /\ SetTop(t, [Top(t) EXCEPT !.at = "done"])
       /\ answer' = [answer EXCEPT ![t] = IF value = NoValue THEN Zero(type) ELSE value]

\* override_flag_eval_func answers.
AnswerOverride(t) ==
  LET f == Top(t).flag IN
  /\ At(t, "enter")
  /\ mode[t] # "original" /\ override[f] # NoValue
  /\ Convert(t, override[f])
  /\ UNCHANGED <<stateVars, freezeVars, override, disk, mode, history>>

\* It has nothing to answer, and calls freezable_flag_eval_func.
PassOverride(t) ==
  /\ At(t, "enter")
  /\ mode[t] = "original" \/ override[Top(t).flag] = NoValue
  /\ SetTop(t, [Top(t) EXCEPT !.at = "freezable"])
  /\ UNCHANGED <<stateVars, freezeVars, override, disk, mode, answer, history>>

\* freezable_flag_eval_func with a frozen value, whatever the mode.
AnswerFrozen(t) ==
  LET f == Top(t).flag IN
  /\ At(t, "freezable")
  /\ level[f] # None /\ frozen[f]
  /\ Convert(t, frozenValue[f])
  /\ shown' = IF mode[t] = "get" THEN [shown EXCEPT ![f] = @ \cup {frozenValue[f]}] ELSE shown
  /\ UNCHANGED <<stateVars, freezeVars, override, disk, mode, reported>>

\* frozen is tested and then ignored.
EnterOriginalAgain(t) ==
  LET f == Top(t).flag IN
  /\ At(t, "freezable")
  /\ frozen' = [frozen EXCEPT ![f] = @ \/ (level[f] # None /\ mode[t] = "get")]
  /\ SetTop(t, [Top(t) EXCEPT !.at = "original", !.freezes = level[f] # None])
  /\ UNCHANGED <<stateVars, level, frozenValue, override, disk, mode, answer, history>>

\* The evaluation context's use_freeze is not looked at.
EnterOriginalPeeks(t) ==
  LET f == Top(t).flag IN
  /\ At(t, "freezable")
  /\ level[f] = None \/ ~frozen[f]
  /\ frozen' = [frozen EXCEPT ![f] = level[f] # None]
  /\ SetTop(t, [Top(t) EXCEPT !.at = "original", !.freezes = level[f] # None])
  /\ UNCHANGED <<stateVars, level, frozenValue, override, disk, mode, answer, history>>

\* Not frozen either: the original function is called, and a flag that may freeze
\* is marked as frozen before that, unless it is only peeked.
EnterOriginal(t) ==
  LET f == Top(t).flag IN
  /\ At(t, "freezable")
  /\ level[f] = None \/ ~frozen[f]
  /\ frozen' = [frozen EXCEPT ![f] = @ \/ (level[f] # None /\ mode[t] = "get")]
  /\ SetTop(t, [Top(t) EXCEPT !.at = "original", !.freezes = level[f] # None])
  /\ UNCHANGED <<stateVars, level, frozenValue, override, disk, mode, answer, history>>

\* The converted result, NULL if it does not fit.
ConvertedResult(frame, result) ==
  IF result = NoValue THEN NoValue ELSE FromResult(frame.as, result)

\* ... or else the default of the call, or else the flag's.
ConvertedOrDefault(frame, result) ==
  LET converted == IF result = NoValue THEN NoValue ELSE FromResult(frame.as, result)
      default   == IF frame.default = NoValue THEN DefaultText(frame.flag) ELSE frame.default
  IN  IF converted = NoValue THEN FromString(frame.as, default) ELSE converted

\* impression_invoker_invoke, unless the value is only peeked at.  What a flag that
\* does not freeze reports is not kept.
Report(t, frame, text) ==
  reported' = IF mode[t] = "get" /\ frame.freezes
              THEN [reported EXCEPT ![frame.flag] = Append(@, text)] ELSE reported

\* variant_get_value for the last frame of a stack, whose condition yields result.
\* The impression reports the value as a text, and a flag that may freeze stores the
\* text; the conversion fails an assertion if there is no value.
Evaluated(t, stack, result) ==
  LET n     == Len(stack)
      top   == stack[n]
      f     == top.flag
      value == ConvertedOrDefault(top, result)
      text  == ToString(top.as, value)
      reach(stage) == frames' = [frames EXCEPT ![t] = [stack EXCEPT ![n].at = stage]]
  IN
  IF value = NoValue
  THEN reach("aborted") /\ UNCHANGED <<frozenValue, answer, reported>>
  ELSE IF top.freezes
  THEN /\ reach("stored")
       /\ frozenValue' = [frozenValue EXCEPT ![f] = text]
       /\ Report(t, top, text)
       /\ UNCHANGED answer
  ELSE /\ reach("done")
       /\ answer' = [answer EXCEPT ![t] = value]
       /\ Report(t, top, text)
       /\ UNCHANGED frozenValue

\* The condition does not depend on another flag.
EvaluateCondition(t) ==
  /\ At(t, "original")
  /\ DependsOn[Top(t).flag] = NoFlag
  /\ Evaluated(t, frames[t], config[Top(t).flag])
  /\ UNCHANGED <<stateVars, level, frozen, override, disk, mode, shown>>

\* The flagValue operator reads the other flag as a string in the same context.
EvaluateDependency(t) ==
  LET f == Top(t).flag IN
  /\ At(t, "original")
  /\ DependsOn[f] # NoFlag
  /\ frames' = [frames EXCEPT ![t] = Append(@, Reading(DependsOn[f], "string", NoValue))]
  /\ UNCHANGED <<stateVars, freezeVars, override, disk, mode, answer, history>>

\* ... and the outer evaluation goes on with its value.
ReturnDependency(t) ==
  LET n == Len(frames[t]) IN
  /\ n > 1 /\ At(t, "done")
  /\ Evaluated(t, SubSeq(frames[t], 1, n - 1), answer[t])
  /\ UNCHANGED <<stateVars, level, frozen, override, disk, mode, shown>>

\* freezable_flag_eval_func returns what frozen_value is now.
AnswerStored(t) ==
  LET f == Top(t).flag IN
  /\ At(t, "stored")
  /\ Convert(t, frozenValue[f])
  /\ shown' = IF mode[t] = "get" THEN [shown EXCEPT ![f] = @ \cup {frozenValue[f]}] ELSE shown
  /\ UNCHANGED <<stateVars, freezeVars, override, disk, mode, reported>>

\* The value is returned to the application.
Return(t) ==
  /\ Len(frames[t]) = 1 /\ At(t, "done")
  /\ frames' = [frames EXCEPT ![t] = <<>>]
  /\ answer' = [answer EXCEPT ![t] = NoValue]
  /\ UNCHANGED <<stateVars, freezeVars, override, disk, mode, history>>

Evaluation(t) ==
  \/ \E f \in Flags, m \in {"get", "current", "original"} : Evaluate(t, Own(f), m)
  \/ \E r \in Reads : running /\ Evaluate(t, Dynamic(r), "get")
  \/ AnswerOverride(t) \/ PassOverride(t) \/ AnswerFrozen(t) \/ EnterOriginal(t)
  \/ EvaluateCondition(t) \/ EvaluateDependency(t) \/ ReturnDependency(t)
  \/ AnswerStored(t) \/ Return(t)

-----------------------------------------------------------------------------
(***************************************************************************)
(* Freeze and override calls, made by a thread that is not evaluating.     *)
(***************************************************************************)
Calls == \E t \in Threads : Idle(t)

\* rox_unfreeze_flag(f, upTo) for every f in fs.
Release(fs, upTo) ==
  LET released(f) == f \in fs /\ upTo <= level[f] IN
  /\ frozen' = [f \in Flags |-> ~released(f) /\ frozen[f]]
  /\ frozenValue' = [f \in Flags |-> IF released(f) THEN NoValue ELSE frozenValue[f]]
  /\ shown' = [f \in Flags |-> IF released(f) THEN {} ELSE shown[f]]
  /\ reported' = [f \in Flags |-> IF released(f) THEN <<>> ELSE reported[f]]

UnfreezeFlag(f, upTo) ==
  /\ Calls
  /\ Release({f}, upTo)
  /\ UNCHANGED <<stateVars, level, override, disk, evalVars>>

\* rox_unfreeze and rox_unfreeze_ns, for the flags of a namespace.
Unfreeze(fs) ==
  /\ running /\ Calls
  /\ Release(fs, UntilLaunch)
  /\ UNCHANGED <<stateVars, level, override, disk, evalVars>>

\* rox_freeze_flag leaves flags with a level of their own alone.
FreezeFlag(f, newLevel) ==
  /\ Calls
  /\ f \notin DOMAIN Explicit
  /\ level' = [level EXCEPT ![f] = newLevel]
  /\ UNCHANGED <<stateVars, frozen, frozenValue, override, disk, evalVars, history>>

\* rox_set_override without unfreeze_flag.
SetOverrideKeepsFrozen(f, value) ==
  /\ running /\ Calls
  /\ override' = [override EXCEPT ![f] = value]
  /\ UNCHANGED <<stateVars, freezeVars, history, disk, evalVars>>

\* rox_set_override does not write the storage.
SetOverride(f, value) ==
  /\ running /\ Calls
  /\ override' = [override EXCEPT ![f] = value]
  /\ Release({f}, UntilLaunch)
  /\ UNCHANGED <<stateVars, level, disk, evalVars>>

\* rox_clear_override writes all the overrides there are.
ClearOverride(f) ==
  /\ running /\ Calls
  /\ override[f] # NoValue
  /\ override' = [override EXCEPT ![f] = NoValue]
  /\ disk' = override'
  /\ Release({f}, UntilLaunch)
  /\ UNCHANGED <<stateVars, level, evalVars>>

\* The storage entry is left alone.
ClearOverridesInMemory ==
  /\ running /\ Calls
  /\ override' = Nothing
  /\ Release(Flags, UntilLaunch)
  /\ UNCHANGED <<stateVars, level, disk, evalVars>>

\* rox_clear_overrides deletes the entry, which storage_delete_entry only does
\* if the storage configuration has an entry_delete; the default has none.
ClearOverrides ==
  /\ running /\ Calls
  /\ override' = Nothing
  /\ disk' = IF hasDelete THEN Nothing ELSE disk
  /\ Release(Flags, UntilLaunch)
  /\ UNCHANGED <<stateVars, level, evalVars>>

-----------------------------------------------------------------------------
(***************************************************************************)
(* Setup, fetches and shutdown.                                            *)
(***************************************************************************)

\* rox_freeze_init, then rox_overrides_init.
Setup ==
  /\ ~running /\ Calls
  /\ running' = TRUE /\ handler' = TRUE
  /\ level' = [f \in Flags |-> IF f \in DOMAIN Explicit THEN level[f] ELSE DefaultFreeze]
  /\ override' = disk
  /\ UNCHANGED <<config, hasDelete, frozen, frozenValue, disk, evalVars, history>>

\* A configuration fetched event: the first one, an error included, releases
\* all flags and unregisters the handler.
Fetched(newConfig) ==
  /\ running /\ (Calls \/ Background)
  /\ config' = newConfig
  /\ handler' = FALSE
  /\ IF handler THEN Release(Flags, UntilLaunch)
                ELSE UNCHANGED <<frozen, frozenValue, history>>
  /\ UNCHANGED <<running, hasDelete, level, override, disk, evalVars>>

\* rox_shutdown frees the flags, and so does the end of the process; the
\* application adds them again before the next rox_setup.
Shutdown ==
  /\ running /\ \A t \in Threads : Idle(t)
  /\ running' = FALSE /\ handler' = FALSE
  /\ config' = Nothing
  /\ level' = FreshLevels
  /\ frozen' = [f \in Flags |-> FALSE]
  /\ frozenValue' = Nothing
  /\ override' = Nothing
  /\ shown' = [f \in Flags |-> {}]
  /\ reported' = [f \in Flags |-> <<>>]
  /\ UNCHANGED <<hasDelete, disk, evalVars>>

\* A condition that asks for another flag yields nothing of its own.
Configurations ==
  {c \in [Flags -> Results \cup {NoValue}] :
     \A f \in Flags : DependsOn[f] # NoFlag => c[f] = NoValue}

Next ==
  \/ \E t \in Threads : Evaluation(t)
  \/ \E f \in Flags, l \in Levels : UnfreezeFlag(f, l) \/ FreezeFlag(f, l)
  \/ \E fs \in SUBSET Flags : Unfreeze(fs)
  \/ \E f \in Flags, v \in Texts : SetOverride(f, v)
  \/ \E f \in Flags : ClearOverride(f)
  \/ ClearOverrides \/ Setup \/ Shutdown
  \/ \E c \in Configurations : Fetched(c)

Spec == Init /\ [][Next]_vars

-----------------------------------------------------------------------------
(***************************************************************************)
(* Properties.                                                             *)
(***************************************************************************)
\* What a flag that freezes answers is what its one impression since it was last
\* released has reported, whatever configurations arrive, whatever types it is
\* read as, whatever happens to the flag it depends on, and however often it is
\* peeked at in between.
FrozenIsReported ==
  \A f \in Flags :
    /\ Len(reported[f]) <= 1
    /\ \A text \in shown[f] : reported[f] = <<text>>

\* No read ends in a failed assertion: not of a flag by its own type, nor through
\* the dynamic API by another, whatever the condition yields or an override says;
\* it answers with a value of the type it was asked for.
NeverAborts ==
  \A t \in Threads :
    /\ ~At(t, "aborted")
    /\ At(t, "done") => Is(Top(t).as, answer[t])

\* Once the first fetch has released all flags, a flag with an override is
\* not frozen: when the override is cleared the flag shows the current
\* configuration and not a value from before the override.  This is so as long as
\* one thread reads and overrides the flags: another one's read may have passed
\* the overrides before this one was set and freeze the flag after that.
OverriddenIsNotFrozen ==
  running /\ ~handler => \A f \in Flags : override[f] # NoValue => ~frozen[f]

\* With a storage that can delete entries, which the default one cannot, an
\* override that was cleared does not come back at the next setup.
ClearedStaysCleared ==
  running /\ hasDelete =>
    \A f \in Flags : disk[f] # NoValue => override[f] # NoValue

\* Peeking at a flag freezes neither it nor a flag it depends on.
PeekFreezesNothing ==
  [][\A t \in Threads :
       mode[t] # "get" /\ frames'[t] # frames[t] /\ ~Idle(t) =>
         \A f \in Flags : frozen'[f] => frozen[f]]_vars

=============================================================================
