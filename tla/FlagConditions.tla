---------------------------- MODULE FlagConditions -----------------------------
(***************************************************************************)
(* From the experiment repository to the condition each flag carries: a    *)
(* fetch replaces the repository's list and sets flag after flag for       *)
(* evaluation, while application threads evaluate flags and add new ones   *)
(* without any lock.  One fetch at a time (RoxCore!FetchMutex).            *)
(* A configuration is known by its number; 0 is the empty list the         *)
(* repository is created with.                                             *)
(***************************************************************************)
EXTENDS Naturals

CONSTANTS
  Apps,        \* application threads
  Flags,
  NoFlag,
  Nothing,     \* NULL: no list; no condition and no experiment
  Empty,       \* the condition "" and no experiment
  MaxFetches   \* bound: configurations applied

ASSUME FlagConditionsAssumption ==
  /\ NoFlag \notin Flags
  /\ MaxFetches \in Nat
  /\ Nothing # Empty /\ {Nothing, Empty} \cap Nat = {}

VARIABLES
  current,     \* repository->experiments
  previous,    \* repository->previous_experiments
  lists,       \* the flags the experiments in each list that is left name
  registered,  \* the flag repository
  condition,   \* each flag's condition and experiment, by configuration
  fetch,       \* where flag_setter_set_experiments is
  todo,        \* flags it has yet to look at in this pass
  withCondition, \* flags_with_condition
  setting,     \* the flag it has reset and not yet assigned
  pc,          \* where each application thread is
  ref,         \* the experiment or condition it works with
  dangling,    \* threads whose flag's copy was freed under them
  raced        \* flags whose addition overlapped a fetch that followed or ran

repoVars  == <<current, previous, lists>>
fetchVars == <<fetch, todo, withCondition, setting>>
appVars   == <<pc, ref>>
vars == <<repoVars, registered, condition, fetchVars, appVars, dangling, raced>>

Numbers == 0..MaxFetches

\* What a thread works with: a model in the repository's "list", the flag's own
\* "copy" of experiment and condition, or nothing of the kind.
NoRef == [from |-> "none", flag |-> NoFlag, number |-> 0]

\* experiment_repository_get_experiment_by_flag.
Lookup(f) ==
  IF f \in lists[current] THEN [from |-> "list", flag |-> f, number |-> current]
                          ELSE [NoRef EXCEPT !.flag = f]

Init ==
  /\ current = 0 /\ previous = Nothing
  /\ lists = [n \in Numbers |-> {}]
  /\ registered = {}
  /\ condition = [f \in Flags |-> Nothing]
  /\ fetch = "idle" /\ todo = {} /\ withCondition = {} /\ setting = NoFlag
  /\ pc = [t \in Apps |-> "idle"]
  /\ ref = [t \in Apps |-> NoRef]
  /\ dangling = {}
  /\ raced = {}

-----------------------------------------------------------------------------
(***************************************************************************)
(* variant_set_for_evaluation, in its two halves.                          *)
(***************************************************************************)

\* variant_reset_evaluation_context frees condition and experiment at once.
ResetFlag(f) ==
  /\ condition' = [condition EXCEPT ![f] = Nothing]
  /\ dangling' = dangling \cup {t \in Apps : ref[t].from = "copy" /\ ref[t].flag = f}

AssignFlag(f, value) ==
  /\ condition' = [condition EXCEPT ![f] = value]
  /\ UNCHANGED dangling

-----------------------------------------------------------------------------
(***************************************************************************)
(* A fetch that has something to apply.                                    *)
(***************************************************************************)
Adding == {ref[t].flag : t \in {a \in Apps : pc[a] \in {"lookup", "reset", "assign"}}}

\* The list that is replaced is freed, and not the one before it.
SetExperimentsFreesReplaced(names) ==
  /\ fetch = "idle"
  /\ current < MaxFetches
  /\ current' = current + 1 /\ previous' = Nothing
  /\ lists' = [n \in Numbers |-> IF n = current' THEN names
                                 ELSE IF n = current THEN lists[n] ELSE {}]
  /\ fetch' = "listed" /\ todo' = names /\ withCondition' = {}
  /\ raced' = Adding
  /\ UNCHANGED <<registered, condition, setting, appVars, dangling>>

\* experiment_repository_set_experiments: only the list before the one that is
\* replaced is freed.
SetExperiments(names) ==
  /\ fetch = "idle"
  /\ current < MaxFetches
  /\ current' = current + 1 /\ previous' = current
  /\ lists' = [n \in Numbers |-> IF n = current' THEN names
                                 ELSE IF n = current THEN lists[n] ELSE {}]
  /\ fetch' = "listed" /\ todo' = names /\ withCondition' = {}
  /\ raced' = Adding
  /\ UNCHANGED <<registered, condition, setting, appVars, dangling>>

\* flag_setter_set_experiments comes to a flag; names without a flag are skipped.
ResetNext(f) ==
  /\ f \in todo /\ setting = NoFlag
  /\ IF f \in registered
     THEN ResetFlag(f) /\ setting' = f /\ UNCHANGED todo
     ELSE todo' = todo \ {f} /\ UNCHANGED <<condition, dangling, setting>>
  /\ UNCHANGED <<repoVars, registered, fetch, withCondition, appVars, raced>>

AssignListed ==
  /\ fetch = "listed" /\ setting # NoFlag
  /\ AssignFlag(setting, current)
  /\ withCondition' = withCondition \cup {setting}
  /\ todo' = todo \ {setting} /\ setting' = NoFlag
  /\ UNCHANGED <<repoVars, registered, fetch, appVars, raced>>

\* The flags no experiment names any more are not looked at.
ListedDoneStops ==
  /\ fetch = "listed" /\ todo = {}
  /\ fetch' = "idle"
  /\ UNCHANGED <<repoVars, registered, condition, todo, withCondition, setting,
                 appVars, dangling, raced>>

\* The second pass: all flags that got no condition in the first.
ListedDone ==
  /\ fetch = "listed" /\ todo = {}
  /\ fetch' = "rest"
  /\ todo' = registered \ withCondition
  /\ UNCHANGED <<repoVars, registered, condition, withCondition, setting,
                 appVars, dangling, raced>>

AssignRest ==
  /\ fetch = "rest" /\ setting # NoFlag
  /\ AssignFlag(setting, Empty)
  /\ todo' = todo \ {setting} /\ setting' = NoFlag
  /\ UNCHANGED <<repoVars, registered, fetch, withCondition, appVars, raced>>

RestDone ==
  /\ fetch = "rest" /\ todo = {}
  /\ fetch' = "idle"
  /\ UNCHANGED <<repoVars, registered, condition, todo, withCondition, setting,
                 appVars, dangling, raced>>

-----------------------------------------------------------------------------
(***************************************************************************)
(* Application threads.                                                    *)
(***************************************************************************)

\* variant_get_value of a flag: with a condition, it is evaluated in place.
Evaluate(t, f) ==
  /\ pc[t] = "idle" /\ f \in registered
  /\ pc' = [pc EXCEPT ![t] = "evaluate"]
  /\ ref' = [ref EXCEPT ![t] =
               IF condition[f] \in Numbers
               THEN [from |-> "copy", flag |-> f, number |-> condition[f]]
               ELSE NoRef]
  /\ UNCHANGED <<repoVars, registered, condition, fetchVars, dangling, raced>>

\* An internal flag, or flagValue of a flag nobody added: the repository's
\* model is evaluated in place.
EvaluateUnregistered(t, f) ==
  /\ pc[t] = "idle" /\ f \notin registered
  /\ pc' = [pc EXCEPT ![t] = "evaluate"]
  /\ ref' = [ref EXCEPT ![t] = Lookup(f)]
  /\ UNCHANGED <<repoVars, registered, condition, fetchVars, dangling, raced>>

\* The evaluation returns.
Evaluated(t) ==
  /\ pc[t] = "evaluate"
  /\ pc' = [pc EXCEPT ![t] = "idle"]
  /\ ref' = [ref EXCEPT ![t] = NoRef]
  /\ dangling' = dangling \ {t}
  /\ UNCHANGED <<repoVars, registered, condition, fetchVars, raced>>

\* flag_repository_add_flag puts the flag into the map, where the second pass
\* of a fetch in progress may or may not come across it.
AddFlag(t, f) ==
  /\ pc[t] = "idle" /\ f \notin registered
  /\ registered' = registered \cup {f}
  /\ todo' \in IF fetch = "rest" THEN {todo, todo \cup {f}} ELSE {todo}
  /\ raced' = IF fetch = "idle" THEN raced ELSE raced \cup {f}
  /\ pc' = [pc EXCEPT ![t] = "lookup"]
  /\ ref' = [ref EXCEPT ![t] = [NoRef EXCEPT !.flag = f]]
  /\ UNCHANGED <<repoVars, condition, fetch, withCondition, setting, dangling>>

\* flag_setter_repository_callback looks for the flag's experiment,
LookupExperiment(t) ==
  /\ pc[t] = "lookup"
  /\ ref' = [ref EXCEPT ![t] = Lookup(ref[t].flag)]
  /\ pc' = [pc EXCEPT ![t] = "reset"]
  /\ UNCHANGED <<repoVars, registered, condition, fetchVars, dangling, raced>>

\* ... and sets the flag for evaluation with a copy of it.
ResetAdded(t) ==
  /\ pc[t] = "reset"
  /\ ResetFlag(ref[t].flag)
  /\ pc' = [pc EXCEPT ![t] = "assign"]
  /\ UNCHANGED <<repoVars, registered, fetchVars, ref, raced>>

AssignAdded(t) ==
  /\ pc[t] = "assign"
  /\ AssignFlag(ref[t].flag, IF ref[t].from = "list" THEN ref[t].number ELSE Empty)
  /\ pc' = [pc EXCEPT ![t] = "idle"]
  /\ ref' = [ref EXCEPT ![t] = NoRef]
  /\ UNCHANGED <<repoVars, registered, fetchVars, raced>>

-----------------------------------------------------------------------------
Application(t) ==
  \/ \E f \in Flags : Evaluate(t, f) \/ EvaluateUnregistered(t, f) \/ AddFlag(t, f)
  \/ Evaluated(t)
  \/ LookupExperiment(t) \/ ResetAdded(t) \/ AssignAdded(t)

Fetcher ==
  \/ \E names \in SUBSET Flags : SetExperiments(names)
  \/ \E f \in Flags : ResetNext(f)
  \/ AssignListed \/ ListedDone \/ AssignRest \/ RestDone

Next == Fetcher \/ \E t \in Apps : Application(t)

Spec == Init /\ [][Next]_vars

-----------------------------------------------------------------------------
(***************************************************************************)
(* Properties.                                                             *)
(***************************************************************************)
\* The repository's lists that have not been freed.
Allocated == {current, previous} \cap Numbers

\* An experiment that a thread found in the repository is still there while at
\* most one fetch has replaced the list since, which is what
\* previous_experiments is for; and a flag's own copy of the condition in force
\* is not freed under the thread that evaluates it (older copies are, at once),
\* unless the flag's addition overlapped the fetch.
GraceOfOneFetch ==
  \A t \in Apps :
    /\ ref[t].from = "list" /\ current <= ref[t].number + 1 => ref[t].number \in Allocated
    /\ ref[t].from = "copy" /\ ref[t].number = current => t \notin dangling \/ ref[t].flag \in raced \cup Adding

\* Between fetches every flag carries the condition the configuration in force
\* has for it, or none if it has none for it, whether the flag was added before
\* or after the fetch; only an addition that overlapped a fetch is excepted.
FlagsFollow ==
  fetch = "idle" =>
    \A f \in registered \ (raced \cup Adding) :
      condition[f] = IF f \in lists[current] THEN current ELSE Empty

=============================================================================
