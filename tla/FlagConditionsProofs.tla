------------------------- MODULE FlagConditionsProofs -------------------------
(***************************************************************************)
(* For any flags, any application threads and any number of fetches: an    *)
(* experiment found in the repository outlives one fetch, a condition in   *)
(* force is not freed under the thread that evaluates it, and every flag   *)
(* carries what the configuration in force has for it.                     *)
(* For any expression, its conditions and properties: the machine that     *)
(* evaluates a condition has nothing but values on its stack, on which the *)
(* comparisons agree with each other (from "The operators on values" on).  *)
(***************************************************************************)
EXTENDS FlagConditions, RoxxMachine, SequenceTheorems, FiniteSetTheorems, TLAPS

Refs == [from : {"none", "list", "copy"}, flag : Flags \cup {NoFlag}, number : Numbers]

AddingPlaces == {"lookup", "reset", "assign"}

TypeOK ==
  /\ current \in Numbers
  /\ lists \in [Numbers -> SUBSET Flags]
  /\ registered \subseteq Flags
  /\ condition \in [Flags -> Numbers \cup {Nothing, Empty}]
  /\ fetch \in {"idle", "listed", "rest"}
  /\ todo \subseteq Flags /\ withCondition \subseteq Flags
  /\ setting \in Flags \cup {NoFlag}
  /\ pc \in [Apps -> {"idle", "evaluate"} \cup AddingPlaces]
  /\ ref \in [Apps -> Refs]
  /\ dangling \subseteq Apps
  /\ raced \subseteq Flags \cup {NoFlag}

\* Nothing is younger than the list in force, and the list before that is kept.
AgeInv ==
  /\ previous = IF current = 0 THEN Nothing ELSE current - 1
  /\ \A t \in Apps : ref[t].number <= current
  /\ \A f \in Flags : condition[f] \in Numbers => condition[f] <= current

\* Copies are taken of registered flags, by threads that evaluate; a flag is
\* added by one thread, once.
ThreadInv ==
  /\ \A t \in Apps : pc[t] \in AddingPlaces => ref[t].flag \in registered /\ ref[t].from # "copy"
  /\ \A t \in Apps : ref[t].from = "copy" => pc[t] = "evaluate" /\ ref[t].flag \in registered
  /\ \A t \in dangling : ref[t].from = "copy"
  /\ \A t, u \in Apps :
       pc[t] \in AddingPlaces /\ pc[u] \in AddingPlaces /\ ref[t].flag = ref[u].flag => t = u

\* Until the thread that adds a flag has set it, nobody holds a condition of it;
\* and what that thread has found is in force unless a fetch came between.
AdditionInv ==
  /\ \A f \in Flags \ registered : condition[f] = Nothing
  /\ \A t \in Apps : pc[t] \in AddingPlaces /\ ref[t].flag \notin raced =>
       /\ fetch = "idle" /\ condition[ref[t].flag] = Nothing
       /\ \A u \in Apps : ref[u].from = "copy" => ref[u].flag # ref[t].flag
       /\ pc[t] # "lookup" => ref[t] = Lookup(ref[t].flag)

\* The flags whose addition overlapped no fetch.
Settled == registered \ (raced \cup Adding)

\* Which flags a fetch has yet to look at, in each of its passes.
PassInv ==
  /\ fetch = "idle" => todo = {} /\ setting = NoFlag
  /\ setting # NoFlag => setting \in todo \cap registered
  /\ withCondition \subseteq registered
  /\ fetch # "idle" => withCondition \subseteq lists[current] /\ todo \cap withCondition = {}
  /\ fetch = "listed" => todo \subseteq lists[current]
                         /\ Settled \cap lists[current] \subseteq withCondition \cup todo
  /\ fetch = "rest" => todo \subseteq registered
                       /\ Settled \cap lists[current] \subseteq withCondition

\* What the flags carry meanwhile: those done in the first pass the condition in
\* force, those done in the second none, and the others nothing that is in force.
ConditionInv ==
  \A f \in Settled :
    /\ fetch = "idle" => condition[f] = IF f \in lists[current] THEN current ELSE Empty
    /\ fetch # "idle" /\ f \in withCondition => condition[f] = current
    /\ fetch = "rest" /\ f \notin withCondition \cup todo => condition[f] = Empty
    /\ fetch # "idle" /\ f \notin withCondition =>
         /\ condition[f] # current
         /\ \A t \in Apps : ref[t].from = "copy" /\ ref[t].flag = f => ref[t].number # current

\* No thread evaluates a freed copy of what is in force.
CopyInv ==
  \A t \in dangling : ref[t].number = current => ref[t].flag \in raced \cup Adding

Inv == TypeOK /\ AgeInv /\ ThreadInv /\ AdditionInv /\ PassInv /\ ConditionInv /\ CopyInv

-----------------------------------------------------------------------------
\* Every variable keeps its type.
THEOREM TypeCorrect == Spec => []TypeOK
<1> USE FlagConditionsAssumption DEF TypeOK, Refs, Numbers, AddingPlaces, repoVars,
        fetchVars, appVars
<1>1. Init => TypeOK
  BY DEF Init, NoRef
<1>2. TypeOK /\ [Next]_vars => TypeOK'
  <2> SUFFICES ASSUME TypeOK, [Next]_vars
               PROVE  TypeOK'
    OBVIOUS
  <2>1. ASSUME NEW names \in SUBSET Flags, SetExperiments(names)
        PROVE  TypeOK'
    BY <2>1 DEF SetExperiments, Adding
  <2>2. ASSUME NEW f \in Flags, ResetNext(f)
        PROVE  TypeOK'
    BY <2>2 DEF ResetNext, ResetFlag
  <2>3. CASE AssignListed
    BY <2>3 DEF AssignListed, AssignFlag
  <2>4. CASE ListedDone
    BY <2>4 DEF ListedDone
  <2>5. CASE AssignRest
    BY <2>5 DEF AssignRest, AssignFlag
  <2>6. CASE RestDone
    BY <2>6 DEF RestDone
  <2>7. ASSUME NEW t \in Apps, NEW f \in Flags, Evaluate(t, f)
        PROVE  TypeOK'
    BY <2>7 DEF Evaluate, NoRef
  <2>8. ASSUME NEW t \in Apps, NEW f \in Flags, EvaluateUnregistered(t, f)
        PROVE  TypeOK'
    BY <2>8 DEF EvaluateUnregistered, Lookup, NoRef
  <2>9. ASSUME NEW t \in Apps, NEW f \in Flags, AddFlag(t, f)
        PROVE  TypeOK'
    <3>1. registered' \subseteq Flags /\ todo' \subseteq Flags
          /\ raced' \subseteq Flags \cup {NoFlag}
      BY <2>9 DEF AddFlag
    <3>2. pc' = [pc EXCEPT ![t] = "lookup"]
          /\ ref' = [ref EXCEPT ![t] = [NoRef EXCEPT !.flag = f]]
          /\ UNCHANGED <<current, lists, condition, fetch, withCondition, setting, dangling>>
      BY <2>9 DEF AddFlag
    <3> QED  BY <3>1, <3>2 DEF NoRef
  <2>10. ASSUME NEW t \in Apps, Evaluated(t)
        PROVE  TypeOK'
    BY <2>10 DEF Evaluated, NoRef
  <2>11. ASSUME NEW t \in Apps, LookupExperiment(t)
        PROVE  TypeOK'
    BY <2>11 DEF LookupExperiment, Lookup, NoRef
  <2>12. ASSUME NEW t \in Apps, ResetAdded(t)
        PROVE  TypeOK'
    BY <2>12 DEF ResetAdded, ResetFlag
  <2>13. ASSUME NEW t \in Apps, AssignAdded(t)
        PROVE  TypeOK'
    <3>1. ref[t].number \in Numbers /\ NoRef \in Refs
      BY DEF NoRef
    <3>2. condition' \in [Flags -> Numbers \cup {Nothing, Empty}]
      BY <2>13, <3>1 DEF AssignAdded, AssignFlag
    <3>3. pc' = [pc EXCEPT ![t] = "idle"] /\ ref' = [ref EXCEPT ![t] = NoRef]
          /\ UNCHANGED <<current, lists, registered, fetch, todo, withCondition, setting,
                         dangling, raced>>
      BY <2>13 DEF AssignAdded, AssignFlag
    <3> QED  BY <3>1, <3>2, <3>3
  <2>14. CASE UNCHANGED vars
    BY <2>14 DEF vars, repoVars, fetchVars, appVars
  <2> QED
    BY <2>1, <2>2, <2>3, <2>4, <2>5, <2>6, <2>7, <2>8, <2>9, <2>10, <2>11, <2>12, <2>13,
       <2>14
       DEF Next, Fetcher, Application
<1> QED  BY <1>1, <1>2, PTL DEF Spec

-----------------------------------------------------------------------------
\* Nothing gets younger than the list in force.
LEMMA AgeKept ==
  ASSUME Inv, TypeOK', [Next]_vars
  PROVE  AgeInv'
<1> USE FlagConditionsAssumption DEF Inv, TypeOK, Refs, Numbers, AddingPlaces, repoVars,
        fetchVars, appVars, AgeInv
<1>1. ASSUME NEW names \in SUBSET Flags, SetExperiments(names)
      PROVE  AgeInv'
  BY <1>1 DEF SetExperiments
<1>2. ASSUME NEW f \in Flags, ResetNext(f)
      PROVE  AgeInv'
  BY <1>2 DEF ResetNext, ResetFlag
<1>3. CASE AssignListed
  BY <1>3 DEF AssignListed, AssignFlag
<1>4. CASE ListedDone
  BY <1>4 DEF ListedDone
<1>5. CASE AssignRest
  BY <1>5 DEF AssignRest, AssignFlag
<1>6. CASE RestDone
  BY <1>6 DEF RestDone
<1>7. ASSUME NEW t \in Apps, NEW f \in Flags, Evaluate(t, f)
      PROVE  AgeInv'
  BY <1>7 DEF Evaluate, NoRef
<1>8. ASSUME NEW t \in Apps, NEW f \in Flags, EvaluateUnregistered(t, f)
      PROVE  AgeInv'
  BY <1>8 DEF EvaluateUnregistered, Lookup, NoRef
<1>9. ASSUME NEW t \in Apps, NEW f \in Flags, AddFlag(t, f)
      PROVE  AgeInv'
  BY <1>9 DEF AddFlag, NoRef
<1>10. ASSUME NEW t \in Apps, Evaluated(t)
      PROVE  AgeInv'
  BY <1>10 DEF Evaluated, NoRef
<1>11. ASSUME NEW t \in Apps, LookupExperiment(t)
      PROVE  AgeInv'
  BY <1>11 DEF LookupExperiment, Lookup, NoRef
<1>12. ASSUME NEW t \in Apps, ResetAdded(t)
      PROVE  AgeInv'
  BY <1>12 DEF ResetAdded, ResetFlag
<1>13. ASSUME NEW t \in Apps, AssignAdded(t)
      PROVE  AgeInv'
  BY <1>13 DEF AssignAdded, AssignFlag, NoRef
<1>14. CASE UNCHANGED vars
  BY <1>14 DEF vars, repoVars, fetchVars, appVars
<1> QED
  BY <1>1, <1>2, <1>3, <1>4, <1>5, <1>6, <1>7, <1>8, <1>9, <1>10, <1>11, <1>12, <1>13,
     <1>14
     DEF Next, Fetcher, Application

-----------------------------------------------------------------------------
\* A flag is added once.
LEMMA ThreadsKept ==
  ASSUME Inv, TypeOK', [Next]_vars
  PROVE  ThreadInv'
<1> USE FlagConditionsAssumption DEF Inv, TypeOK, Refs, Numbers, AddingPlaces, repoVars,
        fetchVars, appVars, AgeInv, ThreadInv
<1>1. ASSUME NEW names \in SUBSET Flags, SetExperiments(names)
      PROVE  ThreadInv'
  BY <1>1 DEF SetExperiments
<1>2. ASSUME NEW f \in Flags, ResetNext(f)
      PROVE  ThreadInv'
  BY <1>2 DEF ResetNext, ResetFlag
<1>3. CASE AssignListed
  BY <1>3 DEF AssignListed, AssignFlag
<1>4. CASE ListedDone
  BY <1>4 DEF ListedDone
<1>5. CASE AssignRest
  BY <1>5 DEF AssignRest, AssignFlag
<1>6. CASE RestDone
  BY <1>6 DEF RestDone
<1>7. ASSUME NEW t \in Apps, NEW f \in Flags, Evaluate(t, f)
      PROVE  ThreadInv'
  BY <1>7 DEF Evaluate, NoRef
<1>8. ASSUME NEW t \in Apps, NEW f \in Flags, EvaluateUnregistered(t, f)
      PROVE  ThreadInv'
  BY <1>8 DEF EvaluateUnregistered, Lookup, NoRef
<1>9. ASSUME NEW t \in Apps, NEW f \in Flags, AddFlag(t, f)
      PROVE  ThreadInv'
  BY <1>9 DEF AddFlag, NoRef
<1>10. ASSUME NEW t \in Apps, Evaluated(t)
      PROVE  ThreadInv'
  BY <1>10 DEF Evaluated, NoRef
<1>11. ASSUME NEW t \in Apps, LookupExperiment(t)
      PROVE  ThreadInv'
  BY <1>11 DEF LookupExperiment, Lookup, NoRef
<1>12. ASSUME NEW t \in Apps, ResetAdded(t)
      PROVE  ThreadInv'
  BY <1>12 DEF ResetAdded, ResetFlag
<1>13. ASSUME NEW t \in Apps, AssignAdded(t)
      PROVE  ThreadInv'
  BY <1>13 DEF AssignAdded, AssignFlag, NoRef
<1>14. CASE UNCHANGED vars
  BY <1>14 DEF vars, repoVars, fetchVars, appVars
<1> QED
  BY <1>1, <1>2, <1>3, <1>4, <1>5, <1>6, <1>7, <1>8, <1>9, <1>10, <1>11, <1>12, <1>13,
     <1>14
     DEF Next, Fetcher, Application

-----------------------------------------------------------------------------
\* What is found for a flag that is added is what is assigned.
LEMMA AdditionKept ==
  ASSUME Inv, TypeOK', [Next]_vars
  PROVE  AdditionInv'
<1> USE FlagConditionsAssumption DEF Inv, TypeOK, Refs, Numbers, AddingPlaces, repoVars,
        fetchVars, appVars, ThreadInv, PassInv,
       AdditionInv, Adding, Lookup, NoRef
<1>1. ASSUME NEW names \in SUBSET Flags, SetExperiments(names)
      PROVE  AdditionInv'
  BY <1>1 DEF SetExperiments
<1>2. ASSUME NEW f \in Flags, ResetNext(f)
      PROVE  AdditionInv'
  BY <1>2 DEF ResetNext, ResetFlag
<1>3. CASE AssignListed
  BY <1>3 DEF AssignListed, AssignFlag
<1>4. CASE ListedDone
  BY <1>4 DEF ListedDone
<1>5. CASE AssignRest
  BY <1>5 DEF AssignRest, AssignFlag
<1>6. CASE RestDone
  BY <1>6 DEF RestDone
<1>7. ASSUME NEW t \in Apps, NEW f \in Flags, Evaluate(t, f)
      PROVE  AdditionInv'
  BY <1>7 DEF Evaluate, NoRef
<1>8. ASSUME NEW t \in Apps, NEW f \in Flags, EvaluateUnregistered(t, f)
      PROVE  AdditionInv'
  BY <1>8 DEF EvaluateUnregistered, Lookup, NoRef
<1>9. ASSUME NEW t \in Apps, NEW f \in Flags, AddFlag(t, f)
      PROVE  AdditionInv'
  BY <1>9 DEF AddFlag, NoRef
<1>10. ASSUME NEW t \in Apps, Evaluated(t)
      PROVE  AdditionInv'
  BY <1>10 DEF Evaluated, NoRef
<1>11. ASSUME NEW t \in Apps, LookupExperiment(t)
      PROVE  AdditionInv'
  BY <1>11 DEF LookupExperiment, Lookup, NoRef
<1>12. ASSUME NEW t \in Apps, ResetAdded(t)
      PROVE  AdditionInv'
  BY <1>12 DEF ResetAdded, ResetFlag
<1>13. ASSUME NEW t \in Apps, AssignAdded(t)
      PROVE  AdditionInv'
  BY <1>13 DEF AssignAdded, AssignFlag, NoRef
<1>14. CASE UNCHANGED vars
  BY <1>14 DEF vars, repoVars, fetchVars, appVars
<1> QED
  BY <1>1, <1>2, <1>3, <1>4, <1>5, <1>6, <1>7, <1>8, <1>9, <1>10, <1>11, <1>12, <1>13,
     <1>14
     DEF Next, Fetcher, Application

-----------------------------------------------------------------------------
\* No pass leaves out a flag it should look at.
LEMMA PassKept ==
  ASSUME Inv, TypeOK', [Next]_vars
  PROVE  PassInv'
<1> USE FlagConditionsAssumption DEF Inv, TypeOK, Refs, Numbers, AddingPlaces, repoVars,
        fetchVars, appVars, ThreadInv, AdditionInv, Settled, Adding, PassInv
<1>1. ASSUME NEW names \in SUBSET Flags, SetExperiments(names)
      PROVE  PassInv'
  BY <1>1 DEF SetExperiments
<1>2. ASSUME NEW f \in Flags, ResetNext(f)
      PROVE  PassInv'
  BY <1>2 DEF ResetNext, ResetFlag
<1>3. CASE AssignListed
  BY <1>3 DEF AssignListed, AssignFlag
<1>4. CASE ListedDone
  BY <1>4 DEF ListedDone
<1>5. CASE AssignRest
  BY <1>5 DEF AssignRest, AssignFlag
<1>6. CASE RestDone
  BY <1>6 DEF RestDone
<1>7. ASSUME NEW t \in Apps, NEW f \in Flags, Evaluate(t, f)
      PROVE  PassInv'
  BY <1>7 DEF Evaluate, NoRef
<1>8. ASSUME NEW t \in Apps, NEW f \in Flags, EvaluateUnregistered(t, f)
      PROVE  PassInv'
  BY <1>8 DEF EvaluateUnregistered, Lookup, NoRef
<1>9. ASSUME NEW t \in Apps, NEW f \in Flags, AddFlag(t, f)
      PROVE  PassInv'
  BY <1>9 DEF AddFlag, NoRef
<1>10. ASSUME NEW t \in Apps, Evaluated(t)
      PROVE  PassInv'
  BY <1>10 DEF Evaluated, NoRef
<1>11. ASSUME NEW t \in Apps, LookupExperiment(t)
      PROVE  PassInv'
  BY <1>11 DEF LookupExperiment, Lookup, NoRef
<1>12. ASSUME NEW t \in Apps, ResetAdded(t)
      PROVE  PassInv'
  BY <1>12 DEF ResetAdded, ResetFlag
<1>13. ASSUME NEW t \in Apps, AssignAdded(t)
      PROVE  PassInv'
  BY <1>13 DEF AssignAdded, AssignFlag, NoRef
<1>14. CASE UNCHANGED vars
  BY <1>14 DEF vars, repoVars, fetchVars, appVars
<1> QED
  BY <1>1, <1>2, <1>3, <1>4, <1>5, <1>6, <1>7, <1>8, <1>9, <1>10, <1>11, <1>12, <1>13,
     <1>14
     DEF Next, Fetcher, Application

-----------------------------------------------------------------------------
\* The flags carry what the pass says.
LEMMA ConditionKept ==
  ASSUME Inv, TypeOK', [Next]_vars
  PROVE  ConditionInv'
<1> USE FlagConditionsAssumption DEF Inv, TypeOK, Refs, Numbers, AddingPlaces, repoVars,
        fetchVars, appVars, AgeInv, ThreadInv, AdditionInv, PassInv, Settled, Adding,
        ConditionInv
<1>1. ASSUME NEW names \in SUBSET Flags, SetExperiments(names)
      PROVE  ConditionInv'
  BY <1>1 DEF SetExperiments
<1>2. ASSUME NEW f \in Flags, ResetNext(f)
      PROVE  ConditionInv'
  BY <1>2 DEF ResetNext, ResetFlag
<1>3. CASE AssignListed
  BY <1>3 DEF AssignListed, AssignFlag
<1>4. CASE ListedDone
  BY <1>4 DEF ListedDone
<1>5. CASE AssignRest
  BY <1>5 DEF AssignRest, AssignFlag
<1>6. CASE RestDone
  BY <1>6 DEF RestDone
<1>7. ASSUME NEW t \in Apps, NEW f \in Flags, Evaluate(t, f)
      PROVE  ConditionInv'
  BY <1>7 DEF Evaluate, NoRef
<1>8. ASSUME NEW t \in Apps, NEW f \in Flags, EvaluateUnregistered(t, f)
      PROVE  ConditionInv'
  BY <1>8 DEF EvaluateUnregistered, Lookup, NoRef
<1>9. ASSUME NEW t \in Apps, NEW f \in Flags, AddFlag(t, f)
      PROVE  ConditionInv'
  BY <1>9 DEF AddFlag, NoRef
<1>10. ASSUME NEW t \in Apps, Evaluated(t)
      PROVE  ConditionInv'
  <2>1. /\ pc' = [pc EXCEPT ![t] = "idle"] /\ pc[t] = "evaluate" /\ ref' = [ref EXCEPT ![t] = NoRef]
        /\ UNCHANGED <<lists, current, registered, condition, fetch, todo, withCondition, raced>>
    BY <1>10 DEF Evaluated
  <2>2. Settled' = Settled
    BY <2>1 DEF NoRef
  <2>3. \A u \in Apps : ref'[u].from = "copy" => ref'[u] = ref[u]
    BY <2>1 DEF NoRef
  <2> HIDE DEF Settled, Adding
  <2> QED  BY <2>1, <2>2, <2>3
<1>11. ASSUME NEW t \in Apps, LookupExperiment(t)
      PROVE  ConditionInv'
  BY <1>11 DEF LookupExperiment, Lookup, NoRef
<1>12. ASSUME NEW t \in Apps, ResetAdded(t)
      PROVE  ConditionInv'
  BY <1>12 DEF ResetAdded, ResetFlag
<1>13. ASSUME NEW t \in Apps, AssignAdded(t)
      PROVE  ConditionInv'
  <2> DEFINE added == ref[t].flag
  <2>1. /\ pc[t] = "assign" /\ added \in Flags /\ pc' = [pc EXCEPT ![t] = "idle"]
        /\ condition' = [condition EXCEPT ![added] =
                            IF ref[t].from = "list" THEN ref[t].number ELSE Empty]
        /\ ref' = [ref EXCEPT ![t] = NoRef]
        /\ UNCHANGED <<current, lists, registered, fetch, todo, withCondition, raced>>
    BY <1>13 DEF AssignAdded, AssignFlag
  <2>2. ASSUME added \in Settled'
        PROVE  fetch' = "idle"
               /\ condition'[added] = IF added \in lists'[current'] THEN current' ELSE Empty
    <3>1. fetch = "idle" /\ ref[t] = Lookup(added)
      BY <2>1, <2>2
    <3>2. added \in lists[current] => ref[t].from = "list" /\ ref[t].number = current
      BY <3>1 DEF Lookup
    <3>3. added \notin lists[current] => ref[t].from = "none"
      BY <3>1 DEF Lookup, NoRef
    <3> QED  BY <2>1, <3>1, <3>2, <3>3
  <2>3. ASSUME NEW f \in Settled', f # added
        PROVE  f \in Settled /\ condition'[f] = condition[f]
    BY <2>1, <2>3
  <2>4. \A u \in Apps : ref'[u].from = "copy" => ref'[u] = ref[u]
    BY <2>1 DEF NoRef
  <2> QED  BY <2>1, <2>2, <2>3, <2>4
<1>14. CASE UNCHANGED vars
  BY <1>14 DEF vars, repoVars, fetchVars, appVars
<1> QED
  BY <1>1, <1>2, <1>3, <1>4, <1>5, <1>6, <1>7, <1>8, <1>9, <1>10, <1>11, <1>12, <1>13,
     <1>14
     DEF Next, Fetcher, Application

-----------------------------------------------------------------------------
\* A copy is freed when it is no longer in force.
LEMMA CopyKept ==
  ASSUME Inv, TypeOK', [Next]_vars
  PROVE  CopyInv'
<1> USE FlagConditionsAssumption DEF Inv, TypeOK, Refs, Numbers, AddingPlaces, repoVars,
        fetchVars, appVars, AgeInv, ThreadInv, AdditionInv, PassInv, ConditionInv,
        Settled, Adding, CopyInv
<1>1. ASSUME NEW names \in SUBSET Flags, SetExperiments(names)
      PROVE  CopyInv'
  BY <1>1 DEF SetExperiments
<1>2. ASSUME NEW f \in Flags, ResetNext(f)
      PROVE  CopyInv'
  BY <1>2 DEF ResetNext, ResetFlag
<1>3. CASE AssignListed
  BY <1>3 DEF AssignListed, AssignFlag
<1>4. CASE ListedDone
  BY <1>4 DEF ListedDone
<1>5. CASE AssignRest
  BY <1>5 DEF AssignRest, AssignFlag
<1>6. CASE RestDone
  BY <1>6 DEF RestDone
<1>7. ASSUME NEW t \in Apps, NEW f \in Flags, Evaluate(t, f)
      PROVE  CopyInv'
  BY <1>7 DEF Evaluate, NoRef
<1>8. ASSUME NEW t \in Apps, NEW f \in Flags, EvaluateUnregistered(t, f)
      PROVE  CopyInv'
  BY <1>8 DEF EvaluateUnregistered, Lookup, NoRef
<1>9. ASSUME NEW t \in Apps, NEW f \in Flags, AddFlag(t, f)
      PROVE  CopyInv'
  BY <1>9 DEF AddFlag, NoRef
<1>10. ASSUME NEW t \in Apps, Evaluated(t)
      PROVE  CopyInv'
  BY <1>10 DEF Evaluated, NoRef
<1>11. ASSUME NEW t \in Apps, LookupExperiment(t)
      PROVE  CopyInv'
  BY <1>11 DEF LookupExperiment, Lookup, NoRef
<1>12. ASSUME NEW t \in Apps, ResetAdded(t)
      PROVE  CopyInv'
  BY <1>12 DEF ResetAdded, ResetFlag
<1>13. ASSUME NEW t \in Apps, AssignAdded(t)
      PROVE  CopyInv'
  BY <1>13 DEF AssignAdded, AssignFlag, NoRef
<1>14. CASE UNCHANGED vars
  BY <1>14 DEF vars, repoVars, fetchVars, appVars
<1> QED
  BY <1>1, <1>2, <1>3, <1>4, <1>5, <1>6, <1>7, <1>8, <1>9, <1>10, <1>11, <1>12, <1>13,
     <1>14
     DEF Next, Fetcher, Application

-----------------------------------------------------------------------------
\* The inductive invariant: what a fetch has done, what each flag carries, what
\* each thread holds.
THEOREM InvariantHolds == Spec => []Inv
<1> DEFINE Rest == AgeInv /\ ThreadInv /\ AdditionInv /\ PassInv /\ ConditionInv /\ CopyInv
<1>1. Init => Rest
  BY FlagConditionsAssumption DEF Init, NoRef, Numbers, AddingPlaces, Adding, Settled,
     AgeInv, ThreadInv, AdditionInv, PassInv, ConditionInv, CopyInv
<1>2. Inv /\ TypeOK' /\ [Next]_vars => Rest'
  BY AgeKept, ThreadsKept, AdditionKept, PassKept, ConditionKept, CopyKept
<1>3. TypeOK /\ Rest <=> Inv
  BY DEF Inv
<1> QED  BY <1>1, <1>2, <1>3, TypeCorrect, PTL DEF Spec

\* An experiment found in the repository outlives one fetch, and no condition in
\* force is freed under its evaluation.
THEOREM ExperimentsOutliveAFetch == Spec => []GraceOfOneFetch
<1>1. Inv => GraceOfOneFetch
  <2> SUFFICES ASSUME Inv, NEW t \in Apps
               PROVE  /\ ref[t].from = "list" /\ current <= ref[t].number + 1 =>
                           ref[t].number \in Allocated
                      /\ ref[t].from = "copy" /\ ref[t].number = current =>
                           t \notin dangling \/ ref[t].flag \in raced \cup Adding
    BY DEF GraceOfOneFetch
  <2>1. ref[t].number \in Nat /\ current \in Nat /\ ref[t].number <= current
        /\ {ref[t].number, current} \subseteq Numbers
    BY FlagConditionsAssumption DEF Inv, TypeOK, AgeInv, Refs, Numbers
  <2>2. \A n, c \in Nat : n <= c /\ c <= n + 1 => n = c \/ (c # 0 /\ n = c - 1)
    OBVIOUS
  <2>3. current <= ref[t].number + 1 => ref[t].number \in {current, previous}
    BY <2>1, <2>2 DEF Inv, AgeInv
  <2> QED  BY <2>1, <2>3 DEF Allocated, Inv, CopyInv
<1> QED  BY <1>1, InvariantHolds, PTL

\* Between fetches every flag carries what the configuration in force has for it.
THEOREM FlagsFollowTheFetch == Spec => []FlagsFollow
<1>1. Inv => FlagsFollow
  BY DEF Inv, ConditionInv, Settled, FlagsFollow
<1> QED  BY <1>1, InvariantHolds, PTL

-----------------------------------------------------------------------------
(***************************************************************************)
(* The operators on values.                                                *)
(***************************************************************************)
\* What the constructors make are values.
LEMMA Constructed ==
  /\ \A b : IsValue(Bool(b))
  /\ \A t : IsValue(Text(t))
  /\ \A n \in Int : IsValue(IntOf(n)) /\ IsValue(Double(n)) /\ IsValue(DateTime(n))
  /\ \A items : IsValue(List(items)) /\ IsValue(Map(items))
  /\ IsValue(NullValue) /\ IsValue(Undefined) /\ IsValue(Blank) /\ IsValue(Abort)
<1> USE DEF IsValue, Value
<1>1. ASSUME NEW b PROVE IsValue(Bool(b))
  BY DEF Bool
<1>2. ASSUME NEW t PROVE IsValue(Text(t))
  BY DEF Text
<1>3. ASSUME NEW n \in Int PROVE IsValue(IntOf(n)) /\ IsValue(Double(n)) /\ IsValue(DateTime(n))
  BY DEF IntOf, Double, DateTime, Doubles
<1>4. ASSUME NEW items PROVE IsValue(List(items)) /\ IsValue(Map(items))
  BY DEF List, Map
<1>5. IsValue(NullValue) /\ IsValue(Undefined) /\ IsValue(Blank) /\ IsValue(Abort)
  BY DEF NullValue, Undefined, Blank, Abort
<1> QED  BY <1>1, <1>2, <1>3, <1>4, <1>5

\* A truth value is true when what it was made of is.
LEMMA Truth == \A b \in BOOLEAN : IsTrue(Bool(b)) <=> b
BY DEF IsTrue, Bool, Value

\* A copy of a value is one.
LEMMA Copied ==
  ASSUME NEW v, IsValue(v)
  PROVE  IsValue(Copy(v))
BY Constructed DEF Copy

\* Of values of any types, every operator makes a value, or none.
LEMMA Applied ==
  ASSUME NEW op \in PureOperators, NEW a, \A i \in 1 .. Arity(op) : IsValue(a[i])
  PROVE  IsValue(Apply(op, a))
<1>1. CASE op = "now"
  BY <1>1, Constructed, RoxxValuesAssumption DEF Apply, Comparisons, VersionComparisons
<1>2. CASE op = "ifThen"
  <2>1. Arity(op) = 3  BY <1>2 DEF Arity
  <2>2. IsValue(a[2]) /\ IsValue(a[3])  BY <2>1
  <2>3. Apply(op, a) = Copy(IF IsTrue(a[1]) THEN a[2] ELSE a[3])  BY <1>2 DEF Apply, Comparisons, VersionComparisons
  <2> QED  BY <2>2, <2>3, Copied
<1>3. CASE op = "tsToNum"
  <2>1. Arity(op) = 1  BY <1>3 DEF Arity
  <2>2. IsValue(a[1])  BY <2>1
  <2>3. Apply(op, a) = IF HasType(a[1], "datetime") THEN IntOf(a[1].num) ELSE Undefined
    BY <1>3 DEF Apply, Comparisons, VersionComparisons
  <2>4. HasType(a[1], "datetime") => a[1].num \in Int  BY <2>2 DEF IsValue, HasType
  <2> QED  BY <2>3, <2>4, Constructed
<1>4. CASE op \in {"isUndefined", "not", "and", "or", "eq", "ne"}
  BY <1>4, Constructed DEF Apply, Comparisons, VersionComparisons
<1>5. CASE op \in {"inArray", "md5", "b64d", "concat", "match"}
  BY <1>5, Constructed DEF Apply, Comparisons, VersionComparisons, InArray, Md5, Base64Decoded, Concat, Match
<1>6. CASE op \in {"mergeSeed", "isInPercentage", "isInPercentageRange"}
  BY <1>6, Constructed DEF Apply, Comparisons, VersionComparisons, MergeSeed, IsInPercentage, IsInPercentageRange
<1>7. CASE op \in Comparisons
  <2>1. Apply(op, a) = Comparison(op, a[1], a[2])  BY <1>7 DEF Apply, Comparisons, VersionComparisons
  <2> QED  BY <2>1, Constructed DEF Comparison
<1>8. CASE op \in VersionComparisons
  <2>1. Apply(op, a) = VersionComparison(op, a[1], a[2])
    BY <1>8 DEF Apply, Comparisons, VersionComparisons
  <2> QED  BY <2>1, Constructed DEF VersionComparison
<1> QED  BY <1>1, <1>2, <1>3, <1>4, <1>5, <1>6, <1>7, <1>8 DEF PureOperators

-----------------------------------------------------------------------------
(***************************************************************************)
(* The comparisons.                                                        *)
(***************************************************************************)
\* A number's worth is a double.
LEMMA NumbersAre ==
  ASSUME NEW v, IsValue(v), NumberOf(v) # Null
  PROVE  NumberOf(v) \in Doubles
<1>1. CASE IsNumeric(v)
  BY <1>1 DEF NumberOf, IsNumeric, HasType, IsValue, Doubles
<1>2. CASE ~IsNumeric(v)
  <2>1. v.text[1] \in DOMAIN TextNumbers /\ NumberOf(v) = TextNumbers[v.text[1]]
    BY <1>2 DEF NumberOf
  <2> QED  BY <2>1, RoxxValuesAssumption DEF Doubles
<1> QED  BY <1>1, <1>2

\* inArray's equality is that of eq.
LEMMA SameIsEqual ==
  ASSUME NEW v, NEW w, IsValue(v), IsValue(w)
  PROVE  SameValue(v, w) <=> Equal(v, w)
<1>1. CASE IsNumeric(v)
  BY <1>1 DEF SameValue, Equal, IsNumeric, IsText, HasType
<1>2. CASE v.type \in {"null", "undefined"}
  BY <1>2 DEF SameValue, Equal, IsNumeric, IsText, HasType, IsValue
<1>3. CASE HasType(v, "bool")
  BY <1>3 DEF SameValue, Equal, IsNumeric, IsText, HasType
<1>4. CASE IsText(v)
  BY <1>4 DEF SameValue, Equal, IsNumeric, IsText, HasType, IsValue
<1>5. CASE v.type \notin {"null", "undefined", "bool", "string", "int", "double"}
  BY <1>5 DEF SameValue, Equal, IsNumeric, IsText, HasType
<1> QED  BY <1>1, <1>2, <1>3, <1>4, <1>5 DEF IsNumeric, IsText, HasType

\* Equality does not depend on the order.
LEMMA EqualBack ==
  ASSUME NEW v, NEW w, IsValue(v), IsValue(w)
  PROVE  Equal(v, w) <=> Equal(w, v)
<1>1. CASE IsNumeric(v) /\ IsNumeric(w)
  <2>1. Finite(v.num, w.num) => Distance(v.num, w.num) = Distance(w.num, v.num)
    BY DEF Finite, Distance
  <2> QED  BY <1>1, <2>1 DEF Equal, Within, Finite
<1>2. CASE ~IsNumeric(v) /\ ~IsNumeric(w)
  BY <1>2 DEF Equal
<1>3. CASE IsNumeric(v) # IsNumeric(w)
  BY <1>3 DEF Equal, IsNumeric, HasType
<1> QED  BY <1>1, <1>2, <1>3

\* The comparisons of two finite numbers.
LEMMA NumbersCompare ==
  ASSUME NEW x \in Int, NEW y \in Int
  PROVE  /\ Holds("lt", x, y) <=> y - x > DblEpsilon
         /\ Holds("gt", x, y) <=> x - y > DblEpsilon
         /\ Holds("numeq", x, y) <=> x - y <= DblEpsilon /\ y - x <= DblEpsilon
         /\ Holds("numne", x, y) <=> ~(x - y <= DblEpsilon /\ y - x <= DblEpsilon)
         /\ Holds("lte", x, y) <=> y - x > DblEpsilon \/ (x - y < DblEpsilon /\ y - x < DblEpsilon)
         /\ Holds("gte", x, y) <=> x - y > DblEpsilon \/ (x - y < DblEpsilon /\ y - x < DblEpsilon)
         /\ EpsilonApart(x, y) <=> x - y = DblEpsilon \/ y - x = DblEpsilon
<1>1. DblEpsilon \in Nat \ {0}  BY RoxxValuesAssumption
<1> QED
  BY <1>1 DEF Holds, LessBy, Apart, Close, Within, Finite, EpsilonApart, Distance

\* The comparisons of two different numbers that are not both finite, and not NaN.
LEMMA FarCompare ==
  ASSUME NEW x \in Doubles, NEW y \in Doubles, ~Finite(x, y), Unlike(x, y)
  PROVE  /\ ~Holds("numeq", x, y) /\ Holds("numne", x, y)
         /\ Holds("lt", x, y) <=> ~Holds("gt", x, y)
         /\ Holds("gt", y, x) <=> Holds("lt", x, y)
         /\ Holds("lte", x, y) <=> Holds("lt", x, y)
         /\ Holds("gte", x, y) <=> Holds("gt", x, y)
         /\ ~EpsilonApart(x, y)
<1>1. ~Finite(y, x) /\ Unlike(y, x)
  BY DEF Finite, Unlike
<1>2. FarBelow(x, y) <=> ~FarBelow(y, x)
  BY <1>1, RoxxValuesAssumption DEF FarBelow, Unlike, Finite, Doubles
<1> QED
  BY <1>1, <1>2 DEF Holds, LessBy, Apart, Close, Within, EpsilonApart

\* Nothing holds of NaN, nor of an infinity and itself.
LEMMA NoneCompare ==
  ASSUME NEW x \in Doubles, NEW y \in Doubles, ~Finite(x, y), ~Unlike(x, y),
         NEW op \in Comparisons
  PROVE  ~Holds(op, x, y)
<1>1. ~Finite(y, x) /\ ~FarBelow(x, y) /\ ~FarBelow(y, x)
  BY DEF Finite, Unlike, FarBelow
<1> QED
  BY <1>1 DEF Holds, LessBy, Apart, Close, Within, Comparisons

\* What ComparisonsAgree says of two values.
Is(op, v, w) == IsTrue(Apply(op, <<v, w>>))
Agree(v, w) ==
  /\ IsTrue(InArray(v, List(<<w>>))) = Is("eq", v, w)
  /\ Is("eq", v, w) = Is("eq", w, v)
  /\ IF Comparable(v, w)
     THEN /\ Cardinality({op \in {"lt", "numeq", "gt"} : Is(op, v, w)}) = 1
          /\ Is("numne", v, w) = ~Is("numeq", v, w)
          /\ Is("lt", v, w) => Is("lte", v, w) /\ ~Is("gte", v, w) /\ Is("gt", w, v)
          /\ IsNumeric(v) /\ IsNumeric(w) /\ Is("numeq", v, w) => Is("eq", v, w)
          /\ LET same == Is("numeq", v, w) /\ ~EpsilonApart(NumberOf(v), NumberOf(w)) IN
             /\ Is("lte", v, w) = (Is("lt", v, w) \/ same)
             /\ Is("gte", v, w) = (Is("gt", v, w) \/ same)
     ELSE \A op \in Comparisons : ~Is(op, v, w)

\* A comparison holds if both are numbers and the numbers are such.
LEMMA Compared ==
  ASSUME NEW v, NEW w, NEW op \in Comparisons
  PROVE  Is(op, v, w) <=>
           NumberOf(v) # Null /\ NumberOf(w) # Null /\ Holds(op, NumberOf(v), NumberOf(w))
<1>1. Apply(op, <<v, w>>) = Comparison(op, v, w)  BY DEF Apply, Comparisons, VersionComparisons
<1> DEFINE h == Holds(op, NumberOf(v), NumberOf(w))
<1>3. (NumberOf(v) # Null /\ NumberOf(w) # Null /\ h) \in BOOLEAN  OBVIOUS
<1> HIDE DEF h
<1>4. IsTrue(Comparison(op, v, w)) <=> NumberOf(v) # Null /\ NumberOf(w) # Null /\ h
  BY <1>3, Truth DEF Comparison, h
<1> QED  BY <1>1, <1>4 DEF Is, h

\* eq holds of what is equal.
LEMMA EqIsEqual ==
  ASSUME NEW v, NEW w
  PROVE  Is("eq", v, w) <=> Equal(v, w)
<1>1. Apply("eq", <<v, w>>) = Bool(Equal(v, w))  BY DEF Apply, Comparisons, VersionComparisons
<1>2. Equal(v, w) \in BOOLEAN  BY DEF Equal
<1> QED  BY <1>1, <1>2, Truth DEF Is

\* A list of one value holds what is the same.
LEMMA InOne ==
  ASSUME NEW v, NEW w
  PROVE  IsTrue(InArray(v, List(<<w>>))) <=> SameValue(v, w)
<1> DEFINE items == <<w>>
<1>1. DOMAIN items = {1} /\ items[1] = w  OBVIOUS
<1>2. HasType(List(items), "list") /\ List(items).items = items  BY DEF HasType, List, Value
<1> HIDE DEF items
<1>3. (HasType(List(items), "list") /\ \E i \in DOMAIN List(items).items : SameValue(v, List(items).items[i]))
      <=> SameValue(v, w)
  BY <1>1, <1>2
<1> DEFINE b == HasType(List(items), "list") /\ \E i \in DOMAIN List(items).items : SameValue(v, List(items).items[i])
<1>4. b \in BOOLEAN  OBVIOUS
<1>5. InArray(v, List(items)) = Bool(b)  BY DEF InArray
<1> HIDE DEF b
<1>6. IsTrue(InArray(v, List(items))) <=> b  BY <1>4, <1>5, Truth
<1>7. IsTrue(InArray(v, List(items))) <=> SameValue(v, w)  BY <1>3, <1>6 DEF b
<1> QED  BY <1>7 DEF items

\* Any two values are compared in agreement.
LEMMA ValuesAgree ==
  ASSUME NEW v, NEW w, IsValue(v), IsValue(w)
  PROVE  Agree(v, w)
<1> DEFINE x == NumberOf(v)
           y == NumberOf(w)
           S == {op \in {"lt", "numeq", "gt"} : Is(op, v, w)}
           same == Is("numeq", v, w) /\ ~EpsilonApart(x, y)
<1>1. IsTrue(InArray(v, List(<<w>>))) = Is("eq", v, w)
  <2>1. IsTrue(InArray(v, List(<<w>>))) <=> Is("eq", v, w)
    BY InOne, SameIsEqual, EqIsEqual
  <2> QED  BY <2>1 DEF Is, IsTrue
<1>2. Is("eq", v, w) = Is("eq", w, v)
  <2>1. Is("eq", v, w) <=> Is("eq", w, v)  BY EqIsEqual, EqualBack
  <2> QED  BY <2>1 DEF Is, IsTrue
<1>3. CASE Comparable(v, w)
  <2>1. x # Null /\ y # Null /\ x \in Doubles /\ y \in Doubles
        /\ (Finite(x, y) \/ Unlike(x, y))
    BY <1>3, NumbersAre DEF Comparable
  <2>2. \A op \in Comparisons : Is(op, v, w) <=> Holds(op, x, y)  BY <2>1, Compared
  <2>3. \A op \in Comparisons : Is(op, w, v) <=> Holds(op, y, x)  BY <2>1, Compared
  <2>4. DblEpsilon \in Nat \ {0} /\ FltEpsilon \in Nat /\ DblEpsilon < FltEpsilon
    BY RoxxValuesAssumption
  <2>5. {"lt", "gt", "numeq", "numne", "lte", "gte"} \subseteq Comparisons  BY DEF Comparisons
  <2> DEFINE F == /\ S = {"lt"} \/ S = {"numeq"} \/ S = {"gt"}
                  /\ Is("numne", v, w) <=> ~Is("numeq", v, w)
                  /\ Is("lt", v, w) => Is("lte", v, w) /\ ~Is("gte", v, w) /\ Is("gt", w, v)
                  /\ IsNumeric(v) /\ IsNumeric(w) /\ Is("numeq", v, w) => Is("eq", v, w)
                  /\ Is("lte", v, w) <=> (Is("lt", v, w) \/ same)
                  /\ Is("gte", v, w) <=> (Is("gt", v, w) \/ same)
  <2>6. ASSUME Finite(x, y)
        PROVE  F
    <3>1. x \in Int /\ y \in Int  BY <2>6 DEF Finite
    <3>2. /\ Is("lt", v, w) <=> y - x > DblEpsilon
          /\ Is("gt", v, w) <=> x - y > DblEpsilon
          /\ Is("numeq", v, w) <=> x - y <= DblEpsilon /\ y - x <= DblEpsilon
          /\ Is("numne", v, w) <=> ~(x - y <= DblEpsilon /\ y - x <= DblEpsilon)
          /\ Is("lte", v, w) <=> y - x > DblEpsilon \/ (x - y < DblEpsilon /\ y - x < DblEpsilon)
          /\ Is("gte", v, w) <=> x - y > DblEpsilon \/ (x - y < DblEpsilon /\ y - x < DblEpsilon)
          /\ Is("gt", w, v) <=> y - x > DblEpsilon
          /\ EpsilonApart(x, y) <=> x - y = DblEpsilon \/ y - x = DblEpsilon
      <4> HIDE DEF x, y
      <4> QED  BY <3>1, <2>2, <2>3, <2>5, NumbersCompare
    <3>3. S = {"lt"} \/ S = {"numeq"} \/ S = {"gt"}
      <4> HIDE DEF x, y
      <4> QED  BY <3>1, <2>4, <3>2
    <3>4. Is("numne", v, w) <=> ~Is("numeq", v, w)
      BY <3>2
    <3>5. Is("lt", v, w) => Is("lte", v, w) /\ ~Is("gte", v, w) /\ Is("gt", w, v)
      <4> HIDE DEF x, y
      <4> QED  BY <3>1, <2>4, <3>2
    <3>6. ASSUME IsNumeric(v), IsNumeric(w), Is("numeq", v, w)
          PROVE  Is("eq", v, w)
      <4>1. x = v.num /\ y = w.num  BY <3>6 DEF NumberOf
      <4>2. x - y < FltEpsilon /\ y - x < FltEpsilon
        <5> HIDE DEF x, y
        <5> QED  BY <3>1, <2>4, <3>2, <3>6
      <4>3. Within(x, y, FltEpsilon)
        <5> HIDE DEF x, y
        <5> QED  BY <2>6, <3>1, <4>2 DEF Within, Distance
      <4> QED  BY <3>6, <4>1, <4>3, EqIsEqual DEF Equal
    <3>7. /\ Is("lte", v, w) <=> (Is("lt", v, w) \/ same)
          /\ Is("gte", v, w) <=> (Is("gt", v, w) \/ same)
      <4> HIDE DEF x, y
      <4> QED  BY <3>1, <2>4, <3>2
    <3> HIDE DEF S, same
    <3> QED  BY <3>3, <3>4, <3>5, <3>6, <3>7
  <2>7. ASSUME ~Finite(x, y)
        PROVE  F
    <3>1. Unlike(x, y)  BY <2>1, <2>7
    <3>2. /\ ~Is("numeq", v, w) /\ Is("numne", v, w)
          /\ Is("lt", v, w) <=> ~Is("gt", v, w)
          /\ Is("gt", w, v) <=> Is("lt", v, w)
          /\ Is("lte", v, w) <=> Is("lt", v, w)
          /\ Is("gte", v, w) <=> Is("gt", v, w)
      <4> HIDE DEF x, y
      <4> QED  BY <2>1, <2>2, <2>3, <2>5, <2>7, <3>1, FarCompare
    <3>3. S = {"lt"} \/ S = {"gt"}
      BY <3>2
    <3>4. ~same
      BY <3>2
    <3> HIDE DEF S, same
    <3> QED  BY <3>2, <3>3, <3>4
  <2>8. (S = {"lt"} \/ S = {"numeq"} \/ S = {"gt"}) => Cardinality(S) = 1
    <3> HIDE DEF S
    <3> QED  BY FS_Singleton
  <2>9. F
    BY <2>6, <2>7
  <2>10. Cardinality(S) = 1
    BY <2>8, <2>9
  <2>11. /\ Is("numne", v, w) = ~Is("numeq", v, w)
         /\ Is("lte", v, w) = (Is("lt", v, w) \/ same)
         /\ Is("gte", v, w) = (Is("gt", v, w) \/ same)
    <3> HIDE DEF S, same
    <3> QED  BY <2>9 DEF Is, IsTrue
  <2> QED  BY <1>1, <1>2, <1>3, <2>9, <2>10, <2>11 DEF Agree
<1>4. CASE ~Comparable(v, w)
  <2>1. ASSUME NEW op \in Comparisons
        PROVE  ~Is(op, v, w)
    <3>1. CASE x # Null /\ y # Null
      <4>1. x \in Doubles /\ y \in Doubles /\ ~Finite(x, y) /\ ~Unlike(x, y)
        BY <1>4, <3>1, NumbersAre DEF Comparable
      <4> QED  BY <4>1, NoneCompare, Compared
    <3>2. CASE ~(x # Null /\ y # Null)
      BY <3>2, Compared
    <3> QED  BY <3>1, <3>2
  <2> QED  BY <1>1, <1>2, <1>4, <2>1 DEF Agree
<1> QED  BY <1>3, <1>4

-----------------------------------------------------------------------------
(***************************************************************************)
(* The invariant.                                                          *)
(***************************************************************************)
Fields == {"text", "at", "token", "inString", "array", "dict", "key", "nodes", "pc",
           "stack", "null", "failed", "use"}

\* A stack holds values, and so do the nodes that are operands.
IsStack(s) == \E S : s \in Seq(S) /\ \A v \in S : IsValue(v)
IsNode(n) == n.kind = "rand" => IsValue(n.value)
AreNodes(s) == \E S : s \in Seq(S) /\ \A n \in S : IsNode(n)

IsFrame(f) ==
  /\ \E T : f \in [Fields -> T]
  /\ IsStack(f.stack)
  /\ AreNodes(f.nodes)

\* All frames but the outermost are asked for by an operator.
AreFrames(s) ==
  /\ \E F : s \in Seq(F) /\ \A f \in F : IsFrame(f)
  /\ s # <<>>
  /\ \A i \in 2 .. Len(s) : s[i].use \in {"group", "flag"}

MachineInv == AreFrames(frames)

\* One value more on a stack.
LEMMA OnStack ==
  ASSUME NEW s, IsStack(s), NEW v, IsValue(v)
  PROVE  IsStack(<<v>> \o s)
<1>1. PICK S : s \in Seq(S) /\ \A u \in S : IsValue(u)  BY DEF IsStack
<1>2. PICK T : T = S \cup {v}  OBVIOUS
<1>3. s \in Seq(T) /\ <<v>> \in Seq(T)  BY <1>1, <1>2
<1>4. <<v>> \o s \in Seq(T)  BY <1>3
<1> QED  BY <1>1, <1>2, <1>4 DEF IsStack

\* Some values less, and these values.
LEMMA OffStack ==
  ASSUME NEW s, IsStack(s), NEW n \in Nat
  PROVE  /\ IsStack(SubSeq(s, n + 1, Len(s)))
         /\ n <= Len(s) => IsStack(SubSeq(s, 1, n))
         /\ IsStack(SubSeq(s, 1, Len(s)))
         /\ s # <<>> => IsValue(Head(s))
         /\ \A i \in DOMAIN s : IsValue(s[i])
         /\ Len(s) \in Nat /\ DOMAIN s = 1 .. Len(s)
<1>1. PICK S : s \in Seq(S) /\ \A u \in S : IsValue(u)  BY DEF IsStack
<1>2. SubSeq(s, n + 1, Len(s)) \in Seq(S)  BY <1>1
<1>3. n <= Len(s) => SubSeq(s, 1, n) \in Seq(S)  BY <1>1
<1>4. SubSeq(s, 1, Len(s)) \in Seq(S)  BY <1>1
<1>5. s # <<>> => Head(s) \in S  BY <1>1
<1>6. Len(s) \in Nat /\ DOMAIN s = 1 .. Len(s) /\ \A i \in DOMAIN s : s[i] \in S  BY <1>1
<1>7. \A t : t \in Seq(S) => IsStack(t)  BY <1>1 DEF IsStack
<1> QED  BY <1>1, <1>2, <1>3, <1>4, <1>5, <1>6, <1>7

\* One node more.
LEMMA MoreNodes ==
  ASSUME NEW s, AreNodes(s), NEW n, IsNode(n)
  PROVE  AreNodes(Append(s, n))
<1>1. PICK S : s \in Seq(S) /\ \A u \in S : IsNode(u)  BY DEF AreNodes
<1>2. PICK T : T = S \cup {n}  OBVIOUS
<1>3. s \in Seq(T)  BY <1>1, <1>2
<1>4. Append(s, n) \in Seq(T)  BY <1>2, <1>3
<1> QED  BY <1>1, <1>2, <1>4 DEF AreNodes

\* The nodes the other way round.
LEMMA NodesReversed ==
  ASSUME NEW s, AreNodes(s)
  PROVE  AreNodes(Reverse(s))
<1>1. PICK S : s \in Seq(S) /\ \A u \in S : IsNode(u)  BY DEF AreNodes
<1>2. Len(s) \in Nat /\ \A i \in 1 .. Len(s) : s[i] \in S  BY <1>1
<1>3. \A i \in 1 .. Len(s) : s[(Len(s) - i) + 1] \in S  BY <1>2
<1>4. Reverse(s) \in Seq(S)  BY <1>2, <1>3 DEF Reverse
<1> QED  BY <1>1, <1>4 DEF AreNodes

\* A frame after a step in it.
Keeps(f, g) == IsFrame(g) /\ g.use = f.use

\* A frame with one field replaced.
LEMMA FieldReplaced ==
  ASSUME NEW f, IsFrame(f), NEW y
  PROVE  /\ Keeps(f, [f EXCEPT !.key = y]) /\ Keeps(f, [f EXCEPT !.dict = y])
         /\ Keeps(f, [f EXCEPT !.array = y]) /\ Keeps(f, [f EXCEPT !.inString = y])
         /\ Keeps(f, [f EXCEPT !.failed = y]) /\ Keeps(f, [f EXCEPT !.null = y])
         /\ Keeps(f, [f EXCEPT !.pc = y]) /\ Keeps(f, [f EXCEPT !.at = y])
         /\ Keeps(f, [f EXCEPT !.token = y])
         /\ AreNodes(y) => Keeps(f, [f EXCEPT !.nodes = y])
         /\ IsStack(y) => Keeps(f, [f EXCEPT !.stack = y])
<1>1. PICK T : f \in [Fields -> T]  BY DEF IsFrame
<1>2. PICK U : U = T \cup {y}  OBVIOUS
<1>3. f \in [Fields -> U] /\ y \in U  BY <1>1, <1>2
<1>4. IsStack(f.stack) /\ AreNodes(f.nodes)  BY DEF IsFrame
<1>5. ASSUME NEW k \in Fields \ {"stack", "nodes", "use"}
      PROVE  Keeps(f, [f EXCEPT ![k] = y])
  <2>1. [f EXCEPT ![k] = y] \in [Fields -> U]  BY <1>3
  <2>2. /\ [f EXCEPT ![k] = y]["stack"] = f["stack"] /\ [f EXCEPT ![k] = y]["nodes"] = f["nodes"]
        /\ [f EXCEPT ![k] = y]["use"] = f["use"]
    BY <1>3 DEF Fields
  <2> QED  BY <1>4, <2>1, <2>2 DEF IsFrame, Keeps
<1>6. ASSUME AreNodes(y)
      PROVE  Keeps(f, [f EXCEPT !.nodes = y])
  <2>1. [f EXCEPT !["nodes"] = y] \in [Fields -> U]  BY <1>3
  <2>2. /\ [f EXCEPT !["nodes"] = y]["stack"] = f["stack"] /\ [f EXCEPT !["nodes"] = y]["nodes"] = y
        /\ [f EXCEPT !["nodes"] = y]["use"] = f["use"]
    BY <1>3 DEF Fields
  <2> QED  BY <1>4, <1>6, <2>1, <2>2 DEF IsFrame, Keeps
<1>7. ASSUME IsStack(y)
      PROVE  Keeps(f, [f EXCEPT !.stack = y])
  <2>1. [f EXCEPT !["stack"] = y] \in [Fields -> U]  BY <1>3
  <2>2. /\ [f EXCEPT !["stack"] = y]["nodes"] = f["nodes"] /\ [f EXCEPT !["stack"] = y]["stack"] = y
        /\ [f EXCEPT !["stack"] = y]["use"] = f["use"]
    BY <1>3 DEF Fields
  <2> QED  BY <1>4, <1>7, <2>1, <2>2 DEF IsFrame, Keeps
<1>8. {"key", "dict", "array", "inString", "failed", "null", "pc", "at", "token"}
      \subseteq Fields \ {"stack", "nodes", "use"}
  BY DEF Fields
<1> QED  BY <1>5, <1>6, <1>7, <1>8

\* One step after another.
LEMMA KeepsOn ==
  ASSUME NEW f, NEW g, NEW h, Keeps(f, g), Keeps(g, h)
  PROVE  Keeps(f, h)
BY DEF Keeps

\* A node that is pushed goes into the literal that is being read, or to the nodes.
LEMMA PushKeeps ==
  ASSUME NEW f, IsFrame(f), NEW node, IsNode(node)
  PROVE  Keeps(f, Push(f, node))
<1>1. CASE f.dict # Null /\ f.key = Null
  BY <1>1, FieldReplaced DEF Push
<1>2. CASE f.dict # Null /\ f.key # Null
  <2> DEFINE d == IF \E i \in DOMAIN f.dict : f.dict[i].key = f.key THEN f.dict
                  ELSE Append(f.dict, [key |-> f.key, value |-> node.value])
             g == [f EXCEPT !.dict = d]
  <2>1. Push(f, node) = [f EXCEPT !.dict = d, !.key = Null]  BY <1>2 DEF Push
  <2> HIDE DEF d
  <2>2. Keeps(f, g)  BY FieldReplaced
  <2>3. Push(f, node) = [g EXCEPT !.key = Null]  BY <2>1
  <2> HIDE DEF g
  <2>4. Keeps(g, [g EXCEPT !.key = Null])  BY <2>2, FieldReplaced DEF Keeps
  <2> QED  BY <2>2, <2>3, <2>4, KeepsOn
<1>3. CASE f.dict = Null /\ f.array # Null
  <2>1. PICK y : y = Append(f.array, node.value)  OBVIOUS
  <2>2. Push(f, node) = [f EXCEPT !.array = y]  BY <1>3, <2>1 DEF Push
  <2>3. Keeps(f, [f EXCEPT !.array = y])  BY FieldReplaced
  <2> QED  BY <2>2, <2>3
<1>4. CASE f.dict = Null /\ f.array = Null
  <2>1. PICK y : y = Append(f.nodes, node)  OBVIOUS
  <2>2. Push(f, node) = [f EXCEPT !.nodes = y]  BY <1>4, <2>1 DEF Push
  <2>3. AreNodes(y)  BY <2>1, MoreNodes DEF IsFrame
  <2>4. Keeps(f, [f EXCEPT !.nodes = y])  BY <2>3, FieldReplaced
  <2> QED  BY <2>2, <2>4
<1> QED  BY <1>1, <1>2, <1>3, <1>4

\* An operand's node, and any other one.
LEMMA NodesAre ==
  /\ \A v : IsValue(v) => IsNode(Node("rand", v))
  /\ \A v, kind : kind # "rand" => IsNode(Node(kind, v))
BY DEF IsNode, Node

\* The node of a word.
LEMMA WordsAre == \A token : IsNode(WordNode(token))
<1> TAKE token
<1>1. IsNode(NumberNode(token[1]))
  <2>1. token[1] \in DOMAIN Numerals => IsValue(Numerals[token[1]])  BY RoxxMachineAssumption
  <2> QED  BY <2>1, NodesAre, Constructed DEF NumberNode
<1>2. /\ IsNode(Node("rator", Text(token))) /\ IsNode(Node("rand", Bool(TRUE)))
      /\ IsNode(Node("rand", Bool(FALSE))) /\ IsNode(Node("rand", Undefined))
      /\ IsNode(Node("unknown", NullValue))
  BY NodesAre, Constructed
<1> QED  BY <1>1, <1>2 DEF WordNode

\* A quote, which may be the second of two.
LEMMA QuoteKeeps ==
  ASSUME NEW f, IsFrame(f), NEW before
  PROVE  Keeps(f, QuoteSeen(f, before))
<1> DEFINE g == IF before = <<"quote">> THEN Push(f, Node("rand", EmptyLiteral)) ELSE f
<1>1. Keeps(f, g)
  <2>1. IsNode(Node("rand", EmptyLiteral))  BY NodesAre, Constructed DEF EmptyLiteral
  <2> QED  BY <2>1, PushKeeps DEF Keeps
<1>2. QuoteSeen(f, before) = [g EXCEPT !.inString = ~f.inString]  BY DEF QuoteSeen
<1> HIDE DEF g
<1>3. Keeps(g, [g EXCEPT !.inString = ~f.inString])  BY <1>1, FieldReplaced DEF Keeps
<1> QED  BY <1>1, <1>2, <1>3, KeepsOn

\* Any token.
LEMMA TokenKeeps ==
  ASSUME NEW f, IsFrame(f), NEW token, NEW before
  PROVE  Keeps(f, TokenSeen(f, token, before))
<1>1. Keeps(f, f)  BY DEF Keeps
<1>2. Keeps(f, QuoteSeen(f, before))  BY QuoteKeeps
<1>3. Keeps(f, Push(f, Node("rand", Text(Restored(token)))))
  BY NodesAre, Constructed, PushKeeps
<1>4. Keeps(f, [f EXCEPT !.dict = <<>>]) /\ Keeps(f, [f EXCEPT !.array = <<>>])
      /\ Keeps(f, [f EXCEPT !.failed = TRUE])
  BY FieldReplaced
<1>5. Keeps(f, Push([f EXCEPT !.dict = Null], Node("rand", Map(f.dict))))
  <2>1. Keeps(f, [f EXCEPT !.dict = Null])  BY FieldReplaced
  <2>2. IsNode(Node("rand", Map(f.dict)))  BY NodesAre, Constructed
  <2> QED  BY <2>1, <2>2, PushKeeps, KeepsOn DEF Keeps
<1>6. Keeps(f, Push([f EXCEPT !.array = Null], Node("rand", List(f.array))))
  <2>1. Keeps(f, [f EXCEPT !.array = Null])  BY FieldReplaced
  <2>2. IsNode(Node("rand", List(f.array)))  BY NodesAre, Constructed
  <2> QED  BY <2>1, <2>2, PushKeeps, KeepsOn DEF Keeps
<1>7. Keeps(f, Push(f, WordNode(token)))  BY WordsAre, PushKeeps
<1> QED  BY <1>1, <1>2, <1>3, <1>4, <1>5, <1>6, <1>7 DEF TokenSeen

\* One turn of the tokenizer.
LEMMA ReadKeeps ==
  ASSUME NEW f, IsFrame(f)
  PROVE  Keeps(f, ReadToken(f))
<1> DEFINE token == SubSeq(f.text, f.at, TokenEnd(f))
           g == TokenSeen(f, token, f.token)
           h == [g EXCEPT !.at = TokenEnd(f) + 1]
<1>1. Keeps(f, g)  BY TokenKeeps
<1>2. ReadToken(f) = [g EXCEPT !.at = TokenEnd(f) + 1, !.token = token]  BY DEF ReadToken
<1> HIDE DEF g, token
<1>3. Keeps(g, h)  BY <1>1, FieldReplaced DEF Keeps
<1>4. ReadToken(f) = [h EXCEPT !.token = token]  BY <1>2
<1> HIDE DEF h
<1>5. Keeps(h, [h EXCEPT !.token = token])  BY <1>3, FieldReplaced DEF Keeps
<1> QED  BY <1>1, <1>3, <1>4, <1>5, KeepsOn

-----------------------------------------------------------------------------
(***************************************************************************)
(* The machine.                                                            *)
(***************************************************************************)
\* The frame that is at work, and those below it.
LEMMA Frames ==
  ASSUME MachineInv
  PROVE  /\ IsFrame(Top)
         /\ Len(frames) \in Nat \ {0}
         /\ Top = frames[Len(frames)]
         /\ \E F : Below \in Seq(F) /\ \A f \in F : IsFrame(f)
         /\ Len(Below) = Len(frames) - 1
         /\ \A i \in 1 .. Len(frames) - 1 : Below[i] = frames[i]
         /\ \A i \in 2 .. Len(frames) : frames[i].use \in {"group", "flag"}
         /\ \A i \in 1 .. Len(frames) : IsFrame(frames[i])
<1>1. PICK F : frames \in Seq(F) /\ \A f \in F : IsFrame(f)
  BY DEF MachineInv, AreFrames
<1>2. frames # <<>> /\ \A i \in 2 .. Len(frames) : frames[i].use \in {"group", "flag"}
  BY DEF MachineInv, AreFrames
<1>3. Len(frames) \in Nat \ {0}  BY <1>1, <1>2
<1>4. \A i \in 1 .. Len(frames) : frames[i] \in F  BY <1>1
<1>5. Top = frames[Len(frames)]  BY DEF Top, Last
<1>6. Below = SubSeq(frames, 1, Len(frames) - 1)  BY DEF Below, Front
<1>7. Below \in Seq(F) /\ Len(Below) = Len(frames) - 1
      /\ \A i \in 1 .. Len(frames) - 1 : Below[i] = frames[i]
  <2>1. PICK n : n = Len(frames) - 1  OBVIOUS
  <2>2. n \in Nat /\ n <= Len(frames)  BY <1>3, <2>1
  <2>3. PICK t : t = SubSeq(frames, 1, n)  OBVIOUS
  <2>4. t \in Seq(F) /\ Len(t) = n /\ \A i \in 1 .. n : t[i] = frames[i]
    BY <1>1, <2>2, <2>3
  <2> QED  BY <1>6, <2>1, <2>3, <2>4
<1>8. IsFrame(Top) /\ \A i \in 1 .. Len(frames) : IsFrame(frames[i])
  BY <1>1, <1>3, <1>4, <1>5
<1>9. \E G : Below \in Seq(G) /\ \A f \in G : IsFrame(f)  BY <1>1, <1>7
<1> QED  BY <1>2, <1>3, <1>5, <1>7, <1>8, <1>9

\* One frame more.
LEMMA OneMore ==
  ASSUME NEW s, NEW F, s \in Seq(F), \A f \in F : IsFrame(f),
         \A i \in 2 .. Len(s) : s[i].use \in {"group", "flag"},
         NEW g, IsFrame(g), s # <<>> => g.use \in {"group", "flag"}
  PROVE  AreFrames(Append(s, g))
<1>1. PICK G : G = F \cup {g}  OBVIOUS
<1>2. s \in Seq(G) /\ \A f \in G : IsFrame(f)  BY <1>1
<1>3. PICK t : t = Append(s, g)  OBVIOUS
<1>4. /\ t \in Seq(G) /\ Len(t) = Len(s) + 1 /\ Len(s) \in Nat
      /\ t[Len(s) + 1] = g /\ \A i \in 1 .. Len(s) : t[i] = s[i]
  BY <1>1, <1>2, <1>3
<1>5. t # <<>>  BY <1>4
<1>6. ASSUME NEW i \in 2 .. Len(t)
      PROVE  t[i].use \in {"group", "flag"}
  <2>1. CASE i \in 2 .. Len(s)  BY <1>4, <2>1
  <2>2. CASE i = Len(s) + 1
    <3>1. Len(s) >= 1  BY <1>4, <2>2
    <3>2. s # <<>>  BY <3>1
    <3> QED  BY <1>4, <2>2, <3>2
  <2> QED  BY <1>4, <2>1, <2>2
<1> QED  BY <1>2, <1>3, <1>4, <1>5, <1>6 DEF AreFrames

\* The frame at work does a step.
LEMMA StepInFrame ==
  ASSUME MachineInv, NEW g, Keeps(Top, g), Becomes(g)
  PROVE  MachineInv'
<1>1. PICK F : Below \in Seq(F) /\ \A f \in F : IsFrame(f)  BY Frames
<1>2. \A i \in 2 .. Len(Below) : Below[i].use \in {"group", "flag"}  BY Frames
<1>3. Below # <<>> => g.use \in {"group", "flag"}
  <2> SUFFICES ASSUME Below # <<>>
               PROVE  g.use \in {"group", "flag"}
    OBVIOUS
  <2>1. Len(Below) # 0  BY <1>1
  <2>2. Len(frames) \in 2 .. Len(frames)  BY <2>1, Frames
  <2> QED  BY <2>2, Frames DEF Keeps
<1>4. AreFrames(Append(Below, g))  BY <1>1, <1>2, <1>3, OneMore DEF Keeps
<1>5. frames' = Append(Below, g)  BY DEF Becomes
<1> QED  BY <1>4, <1>5 DEF MachineInv, AreFrames

\* An operator's result is pushed.
LEMMA PushedKeeps ==
  ASSUME NEW f, IsFrame(f), NEW v, IsValue(v)
  PROVE  Keeps(f, Pushed(f, v))
<1>1. Keeps(f, [f EXCEPT !.failed = TRUE])  BY FieldReplaced
<1>2. IsStack(<<v>> \o f.stack)  BY OnStack DEF IsFrame
<1>3. PICK s : s = <<v>> \o f.stack  OBVIOUS
<1>4. PICK g : g = [f EXCEPT !.stack = s]  OBVIOUS
<1>5. Keeps(f, g)  BY <1>2, <1>3, <1>4, FieldReplaced
<1>6. PICK n : n = f.pc + 1  OBVIOUS
<1>7. [f EXCEPT !.stack = s, !.pc = n] = [g EXCEPT !.pc = n]  BY <1>4
<1>8. Keeps(g, [g EXCEPT !.pc = n])  BY <1>5, FieldReplaced DEF Keeps
<1>9. Keeps(f, [f EXCEPT !.stack = s, !.pc = n])  BY <1>5, <1>7, <1>8, KeepsOn
<1>10. Pushed(f, v) \in {[f EXCEPT !.failed = TRUE], [f EXCEPT !.stack = s, !.pc = n]}
  BY <1>3, <1>6 DEF Pushed
<1> QED  BY <1>1, <1>9, <1>10

\* Operands are popped.
LEMMA PoppedKeeps ==
  ASSUME NEW f, IsFrame(f), NEW n \in Nat
  PROVE  Keeps(f, Popped(f, n))
<1>1. PICK s : s = SubSeq(f.stack, n + 1, Len(f.stack))  OBVIOUS
<1>2. IsStack(s)  BY <1>1, OffStack DEF IsFrame
<1>3. Popped(f, n) = [f EXCEPT !.stack = s]  BY <1>1 DEF Popped
<1>4. Keeps(f, [f EXCEPT !.stack = s])  BY <1>2, FieldReplaced
<1> QED  BY <1>3, <1>4

\* An operator has the operands it asks for, NULL in the place of those that
\* are not on the stack.
LEMMA OperandsAre ==
  ASSUME NEW f, IsFrame(f), NEW n \in Nat, NEW a, a = Operands(f, n)
  PROVE  /\ Len(a) \in 0 .. n
         /\ \A i \in 1 .. n : IsValue((a \o [k \in 1 .. n - Len(a) |-> NullValue])[i])
<1>1. PICK S : f.stack \in Seq(S) /\ \A v \in S : IsValue(v)  BY DEF IsFrame, IsStack
<1>2. PICK m : m = IF n < Len(f.stack) THEN n ELSE Len(f.stack)  OBVIOUS
<1>3. m \in Nat /\ m <= n /\ m <= Len(f.stack)  BY <1>1, <1>2
<1>4. a = SubSeq(f.stack, 1, m)  BY <1>2 DEF Operands
<1>5. a \in Seq(S) /\ Len(a) = m  BY <1>1, <1>3, <1>4
<1>6. PICK T : T = S \cup {NullValue}  OBVIOUS
<1>7. \A v \in T : IsValue(v)  BY <1>1, <1>6, Constructed
<1>8. PICK b : b = [k \in 1 .. n - Len(a) |-> NullValue]  OBVIOUS
<1>9. b \in Seq(T) /\ Len(b) = n - m /\ a \in Seq(T)  BY <1>3, <1>5, <1>6, <1>8
<1>10. a \o b \in Seq(T) /\ Len(a \o b) = n  BY <1>3, <1>5, <1>9
<1>11. \A i \in 1 .. n : (a \o b)[i] \in T  BY <1>10
<1> QED  BY <1>3, <1>5, <1>7, <1>8, <1>11

\* What an evaluation within another one answers is a value.
LEMMA AnswersAre ==
  ASSUME NEW f, IsFrame(f), NEW use \in {"group", "flag"}
  PROVE  IsValue(Answer(use, FrameResult(f)))
<1>1. IsValue(FrameResult(f))
  <2>1. f.stack # <<>> => IsValue(Head(f.stack))  BY OffStack DEF IsFrame
  <2> QED  BY <2>1, Constructed DEF FrameResult, Result
<1>2. PICK v : v = FrameResult(f)  OBVIOUS
<1>3. CASE v = Abort  BY <1>2, <1>3, Constructed DEF Answer
<1>4. CASE v # Abort /\ use = "group"  BY <1>2, <1>4, Constructed DEF Answer
<1>5. CASE v # Abort /\ use = "flag"
  <2>1. Answer(use, v) \in {Text(<<"true">>), Text(<<"false">>), v}  BY <1>5 DEF Answer
  <2> QED  BY <1>1, <1>2, <2>1, Constructed
<1> QED  BY <1>3, <1>4, <1>5

\* An evaluation begins.
LEMMA FramesBegin == \A text, use : IsFrame(Frame(text, use)) /\ Frame(text, use).use = use
<1> TAKE text, use
<1>1. <<>> \in Seq({})  OBVIOUS
<1>2. PICK N : N = {}  OBVIOUS
<1>3. IsStack(<<>>) /\ AreNodes(<<>>)
  <2>1. <<>> \in Seq(N) /\ (\A v \in N : IsValue(v)) /\ (\A n \in N : IsNode(n))  BY <1>1, <1>2
  <2> QED  BY <2>1, Zenon DEF IsStack, AreNodes
<1>4. PICK t : t = Normalized(text)  OBVIOUS
<1>5. PICK T : T = {t, 1, <<>>, FALSE, Null, 0, use}  OBVIOUS
<1>6. PICK f : f = Frame(text, use)  OBVIOUS
<1>7. f = [text |-> t, at |-> 1, token |-> <<>>, inString |-> FALSE,
           array |-> Null, dict |-> Null, key |-> Null,
           nodes |-> <<>>, pc |-> 0, stack |-> <<>>, null |-> FALSE, failed |-> FALSE, use |-> use]
  BY <1>4, <1>6 DEF Frame
<1>8. PICK e : e = <<>>  OBVIOUS
<1>9. f \in [Fields -> T]
  <2>1. DOMAIN f = Fields /\ f = [k \in DOMAIN f |-> f[k]]  BY <1>7 DEF Fields
  <2>2. /\ f["text"] = t /\ f["at"] = 1 /\ f["token"] = e /\ f["inString"] = FALSE
        /\ f["array"] = Null /\ f["dict"] = Null /\ f["key"] = Null /\ f["nodes"] = e
        /\ f["pc"] = 0 /\ f["stack"] = e /\ f["null"] = FALSE /\ f["failed"] = FALSE
        /\ f["use"] = use
    BY <1>7, <1>8
  <2>3. T = {t, 1, e, FALSE, Null, 0, use}  BY <1>5, <1>8
  <2>4. \A k \in Fields : f[k] \in T  BY <2>2, <2>3 DEF Fields
  <2> QED  BY <2>1, <2>4
<1>10. f.stack = <<>> /\ f.nodes = <<>> /\ f.use = use  BY <1>7
<1> QED  BY <1>3, <1>6, <1>9, <1>10 DEF IsFrame

\* The node that is next.
LEMMA NextNodeIs ==
  ASSUME MachineInv, Running
  PROVE  IsNode(NextNode)
<1>1. AreNodes(Top.nodes)  BY Frames DEF IsFrame
<1>2. PICK S : Top.nodes \in Seq(S) /\ \A n \in S : IsNode(n)  BY <1>1 DEF AreNodes
<1>3. PICK s : s = Top.nodes  OBVIOUS
<1>4. PICK k : k = Top.pc  OBVIOUS
<1>5. k \in 1 .. Len(s)  BY <1>3, <1>4 DEF Running
<1>6. s[k] \in S  BY <1>2, <1>3, <1>5
<1> QED  BY <1>2, <1>3, <1>4, <1>6 DEF NextNode

\* Operands are replaced by what the operator makes of them.
LEMMA Replaces ==
  ASSUME MachineInv, NEW n \in Nat, NEW v, IsValue(v)
  PROVE  Keeps(Top, Pushed(Popped(Top, n), v))
<1>1. PICK g : g = Popped(Top, n)  OBVIOUS
<1>2. IsFrame(Top)  BY Frames
<1>3. Keeps(Top, g)  BY <1>1, <1>2, PoppedKeeps
<1>4. Keeps(g, Pushed(g, v))  BY <1>3, PushedKeeps DEF Keeps
<1> QED  BY <1>1, <1>3, <1>4, KeepsOn

\* The machine starts on the nodes the other way round.
LEMMA StartKeeps ==
  ASSUME NEW f, IsFrame(f)
  PROVE  Keeps(f, [Closed(f) EXCEPT !.pc = 1, !.nodes = Reverse(@)])
<1>1. PICK g1 : g1 = [f EXCEPT !.array = Null]  OBVIOUS
<1>2. PICK g2 : g2 = [g1 EXCEPT !.dict = Null]  OBVIOUS
<1>3. PICK g3 : g3 = [g2 EXCEPT !.key = Null]  OBVIOUS
<1>4. PICK g4 : g4 = [g3 EXCEPT !.pc = 1]  OBVIOUS
<1>5. PICK t : t = Reverse(g3.nodes)  OBVIOUS
<1>6. PICK g5 : g5 = [g4 EXCEPT !.nodes = t]  OBVIOUS
<1>7. Keeps(f, g1)  BY <1>1, FieldReplaced
<1>8. Keeps(g1, g2)  BY <1>2, <1>7, FieldReplaced DEF Keeps
<1>9. Keeps(g2, g3)  BY <1>3, <1>8, FieldReplaced DEF Keeps
<1>10. Keeps(g3, g4)  BY <1>4, <1>9, FieldReplaced DEF Keeps
<1>11. AreNodes(t)  BY <1>5, <1>9, NodesReversed DEF Keeps, IsFrame
<1>12. Keeps(g4, g5)  BY <1>6, <1>10, <1>11, FieldReplaced DEF Keeps
<1>13. Keeps(f, g5)  BY <1>7, <1>8, <1>9, <1>10, <1>12, KeepsOn
<1>14. Closed(f) = g3  BY <1>1, <1>2, <1>3 DEF Closed
<1>15. [g3 EXCEPT !.pc = 1, !.nodes = Reverse(@)] = g5  BY <1>4, <1>5, <1>6
<1> QED  BY <1>13, <1>14, <1>15

\* An operator on the operands that are there.
LEMMA OperateKeeps ==
  ASSUME MachineInv, NEW op \in PureOperators, Operate(op)
  PROVE  MachineInv'
<1> DEFINE n == Arity(op)
           a == Operands(Top, n)
           b == a \o [i \in 1 .. n - Len(a) |-> NullValue]
<1>1. n \in Nat  BY DEF Arity
<1>2. IsFrame(Top)  BY Frames
<1>3. \A i \in 1 .. n : IsValue(b[i])  BY <1>1, <1>2, OperandsAre
<1>4. IsValue(Apply(op, b))  BY <1>3, Applied
<1>5. Keeps(Top, Pushed(Popped(Top, n), Apply(op, b)))  BY <1>1, <1>4, Replaces
<1>6. Keeps(Top, [Top EXCEPT !.failed = TRUE])  BY <1>2, FieldReplaced
<1>7. \/ Becomes(Pushed(Popped(Top, n), Apply(op, b)))
      \/ Becomes([Top EXCEPT !.failed = TRUE])
  BY DEF Operate
<1> HIDE DEF n, b
<1> QED  BY <1>5, <1>6, <1>7, StepInFrame

\* An evaluation is begun within another one.
LEMMA EnterKeeps ==
  ASSUME MachineInv, NEW expression, NEW use \in {"group", "flag"}, Enter(expression, use)
  PROVE  MachineInv'
<1>1. PICK F : Below \in Seq(F) /\ \A f \in F : IsFrame(f)  BY Frames
<1>2. PICK g : g = Popped(Top, 1)  OBVIOUS
<1>3. Keeps(Top, g)  BY <1>2, Frames, PoppedKeeps
<1>4. PICK s : s = Append(Below, g)  OBVIOUS
<1>5. PICK G : G = F \cup {g}  OBVIOUS
<1>6. /\ s \in Seq(G) /\ (\A f \in G : IsFrame(f)) /\ Len(s) = Len(frames)
      /\ Len(frames) \in Nat \ {0} /\ s[Len(frames)] = g
      /\ \A i \in 1 .. Len(frames) - 1 : s[i] = frames[i]
  <2>1. Below \in Seq(G) /\ (\A f \in G : IsFrame(f))  BY <1>1, <1>3, <1>5 DEF Keeps
  <2>2. PICK u : u = Below  OBVIOUS
  <2>3. PICK m : m = Len(frames)  OBVIOUS
  <2>4. /\ u \in Seq(G) /\ Len(u) = m - 1 /\ m \in Nat \ {0} /\ g \in G
        /\ \A i \in 1 .. m - 1 : u[i] = frames[i]
    BY <1>5, <2>1, <2>2, <2>3, Frames
  <2>5. s = Append(u, g)  BY <1>4, <2>2
  <2>6. s \in Seq(G) /\ Len(s) = m /\ s[m] = g /\ \A i \in 1 .. m - 1 : s[i] = u[i]
    BY <2>4, <2>5
  <2> QED  BY <2>1, <2>3, <2>4, <2>6
<1>7. \A i \in 2 .. Len(s) : s[i].use \in {"group", "flag"}
  <2> SUFFICES ASSUME NEW i \in 2 .. Len(frames)
               PROVE  s[i].use \in {"group", "flag"}
    BY <1>6
  <2>1. frames[i].use \in {"group", "flag"}  BY Frames
  <2>2. CASE i = Len(frames)  BY <1>3, <1>6, <2>1, <2>2, Frames DEF Keeps
  <2>3. CASE i # Len(frames)  BY <1>6, <2>1, <2>3
  <2> QED  BY <2>2, <2>3
<1>8. PICK h : h = Frame(Written(expression, spaced), use)  OBVIOUS
<1>9. IsFrame(h) /\ h.use = use  BY <1>8, FramesBegin
<1>10. AreFrames(Append(s, h))  BY <1>6, <1>7, <1>9, OneMore
<1>11. frames' = Append(s, h)  BY <1>2, <1>4, <1>8 DEF Enter
<1> QED  BY <1>10, <1>11 DEF MachineInv, AreFrames

\* An evaluation within another one ends.
LEMMA ReturnKeeps ==
  ASSUME MachineInv, Return
  PROVE  MachineInv'
<1>1. PICK F : Below \in Seq(F) /\ \A f \in F : IsFrame(f)  BY Frames
<1>2. PICK s : s = Below  OBVIOUS
<1>3. PICK m : m = Len(frames) - 1  OBVIOUS
<1>4. /\ m \in Nat \ {0} /\ s \in Seq(F) /\ Len(s) = m /\ \A i \in 1 .. m : s[i] = frames[i]
  <2>1. Len(frames) \in Nat \ {0} /\ Len(frames) > 1  BY Frames DEF Return
  <2> QED  BY <1>1, <1>2, <1>3, <2>1, Frames
<1>5. PICK r : r = Front(s)  OBVIOUS
<1>6. /\ r \in Seq(F) /\ Len(r) = m - 1 /\ \A i \in 1 .. m - 1 : r[i] = s[i]
  <2>1. PICK k : k = m - 1  OBVIOUS
  <2>2. k \in Nat /\ k <= m  BY <1>4, <2>1
  <2>3. r = SubSeq(s, 1, k)  BY <1>4, <1>5, <2>1 DEF Front
  <2>4. r \in Seq(F) /\ Len(r) = k /\ \A i \in 1 .. k : r[i] = s[i]  BY <1>4, <2>2, <2>3
  <2> QED  BY <2>1, <2>4
<1>7. PICK f : f = Last(s)  OBVIOUS
<1>8. f = frames[m] /\ IsFrame(f)
  <2>1. f = s[m]  BY <1>4, <1>7 DEF Last
  <2> QED  BY <1>1, <1>4, <2>1
<1>9. PICK v : v = Answer(Top.use, FrameResult(Top))  OBVIOUS
<1>10. IsValue(v)
  <2>1. Len(frames) \in 2 .. Len(frames)  BY <1>3, <1>4, Frames
  <2>2. Top.use \in {"group", "flag"}  BY <2>1, Frames
  <2> QED  BY <1>9, <2>2, Frames, AnswersAre
<1>11. PICK g : g = Pushed(f, v)  OBVIOUS
<1>12. Keeps(f, g)  BY <1>8, <1>10, <1>11, PushedKeeps
<1>13. \A i \in 2 .. Len(r) : r[i].use \in {"group", "flag"}
  <2> SUFFICES ASSUME NEW i \in 2 .. Len(r)
               PROVE  r[i].use \in {"group", "flag"}
    OBVIOUS
  <2>1. i \in 1 .. m - 1 /\ i \in 1 .. m /\ i \in 2 .. m + 1  BY <1>4, <1>6
  <2>2. Len(frames) = m + 1  BY <1>3, <1>4, Frames
  <2>3. r[i] = frames[i]  BY <1>4, <1>6, <2>1
  <2> QED  BY <2>1, <2>2, <2>3, Frames
<1>14. r # <<>> => g.use \in {"group", "flag"}
  <2> SUFFICES ASSUME r # <<>>
               PROVE  g.use \in {"group", "flag"}
    OBVIOUS
  <2>1. Len(r) # 0  BY <1>6
  <2>2. m \in 2 .. m + 1  BY <1>4, <1>6, <2>1
  <2>3. Len(frames) = m + 1  BY <1>3, <1>4, Frames
  <2> QED  BY <1>8, <1>12, <2>2, <2>3, Frames DEF Keeps
<1>15. AreFrames(Append(r, g))  BY <1>1, <1>6, <1>12, <1>13, <1>14, OneMore DEF Keeps
<1>16. frames' = Append(r, g)  BY <1>2, <1>5, <1>7, <1>9, <1>11 DEF Return
<1> QED  BY <1>15, <1>16 DEF MachineInv, AreFrames

\* The invariant: all that is ever on a stack is a value of the expression
\* language, and the frames above the first were asked for by an operator.
THEOREM EvalInvariantHolds == EvalSpec => []MachineInv
<1>1. EvalInit => MachineInv
  <2> SUFFICES ASSUME EvalInit
               PROVE  MachineInv
    OBVIOUS
  <2>1. PICK f : f = Frame(Written(tree, spaced), "expression")  OBVIOUS
  <2>2. IsFrame(f)  BY <2>1, FramesBegin
  <2>3. frames = <<f>>  BY <2>1 DEF EvalInit
  <2>4. frames \in Seq({f}) /\ frames # <<>> /\ Len(frames) = 1  BY <2>3
  <2>5. \A i \in 2 .. Len(frames) : frames[i].use \in {"group", "flag"}  BY <2>4
  <2>6. \A g \in {f} : IsFrame(g)  BY <2>2
  <2> QED  BY <2>4, <2>5, <2>6 DEF MachineInv, AreFrames
<1>2. MachineInv /\ [EvalNext]_evalVars => MachineInv'
  <2> SUFFICES ASSUME MachineInv, [EvalNext]_evalVars
               PROVE  MachineInv'
    OBVIOUS
  <2>0. IsFrame(Top) /\ 1 \in Nat  BY Frames
  <2>1. CASE Read
    <3>1. Becomes(ReadToken(Top))  BY <2>1 DEF Read
    <3> QED  BY <2>0, <3>1, ReadKeeps, StepInFrame
  <2>2. CASE Start
    <3>1. PICK g : g = [Closed(Top) EXCEPT !.pc = 1, !.nodes = Reverse(@)]  OBVIOUS
    <3>2. Becomes(g)  BY <2>2, <3>1 DEF Start
    <3>3. Keeps(Top, g)  BY <2>0, <3>1, StartKeeps
    <3> QED  BY <3>2, <3>3, StepInFrame
  <2>3. CASE PushOperand
    <3>1. Running /\ NextNode.kind = "rand" /\ Becomes(Pushed(Top, Copy(NextNode.value)))
      BY <2>3 DEF PushOperand
    <3>2. IsValue(NextNode.value)  BY <3>1, NextNodeIs DEF IsNode
    <3>3. Keeps(Top, Pushed(Top, Copy(NextNode.value)))  BY <2>0, <3>2, Copied, PushedKeeps
    <3> QED  BY <3>1, <3>3, StepInFrame
  <2>4. CASE SkipUnknown
    <3>1. PICK g : g = [Top EXCEPT !.null = TRUE]  OBVIOUS
    <3>2. PICK n : n = Top.pc + 1  OBVIOUS
    <3>3. PICK h : h = [g EXCEPT !.pc = n]  OBVIOUS
    <3>4. h = [Top EXCEPT !.null = TRUE, !.pc = @ + 1]  BY <3>1, <3>2, <3>3
    <3>5. Becomes(h)  BY <2>4, <3>4 DEF SkipUnknown
    <3>6. Keeps(Top, g)  BY <2>0, <3>1, FieldReplaced
    <3>7. Keeps(g, h)  BY <3>3, <3>6, FieldReplaced DEF Keeps
    <3> QED  BY <3>5, <3>6, <3>7, KeepsOn, StepInFrame
  <2>5. CASE \E op \in PureOperators : Operate(op)  BY <2>5, OperateKeeps
  <2>6. CASE NamelessLookup
    <3>1. PICK g : g = [Top EXCEPT !.failed = TRUE]  OBVIOUS
    <3>2. Becomes(g)  BY <2>6, <3>1 DEF NamelessLookup
    <3>3. Keeps(Top, g)  BY <2>0, <3>1, FieldReplaced
    <3> QED  BY <3>2, <3>3, StepInFrame
  <2>7. CASE ReadProperty
    <3>1. PICK v : v = PropertyValue(Name)  OBVIOUS
    <3>2. Becomes(Pushed(Popped(Top, 1), v))  BY <2>7, <3>1 DEF ReadProperty
    <3>3. IsValue(v)  BY <3>1, RoxxMachineAssumption, Constructed, Copied DEF PropertyValue
    <3> QED  BY <2>0, <3>2, <3>3, Replaces, StepInFrame
  <2>8. CASE AskTargetGroup
    <3>1. CASE Name \in DOMAIN TargetGroup
      <4>1. Enter(TargetGroup[Name], "group")  BY <2>8, <3>1 DEF AskTargetGroup
      <4> QED  BY <4>1, EnterKeeps
    <3>2. CASE Name \notin DOMAIN TargetGroup
      <4>1. Becomes(Pushed(Popped(Top, 1), Bool(FALSE)))  BY <2>8, <3>2 DEF AskTargetGroup
      <4> QED  BY <2>0, <4>1, Constructed, Replaces, StepInFrame
    <3> QED  BY <3>1, <3>2
  <2>9. CASE AskFlag
    <3>1. CASE \E t : Becomes(Pushed(Popped(Top, 1), Text(t)))
      BY <2>0, <3>1, Constructed, Replaces, StepInFrame
    <3>2. CASE Enter(FlagCondition[Name], "flag")
      BY <3>2, EnterKeeps
    <3> QED  BY <2>9, <3>1, <3>2 DEF AskFlag
  <2>10. CASE Return  BY <2>10, ReturnKeeps
  <2>11. CASE Finish \/ Fail \/ UNCHANGED evalVars
    <3>1. frames' = frames  BY <2>11 DEF Finish, Fail, evalVars
    <3> QED  BY <3>1 DEF MachineInv, AreFrames
  <2> QED
    BY <2>1, <2>2, <2>3, <2>4, <2>5, <2>6, <2>7, <2>8, <2>9, <2>10, <2>11 DEF EvalNext
<1> QED  BY <1>1, <1>2, PTL DEF EvalSpec

\* ComparisonsAgree, for all expressions, conditions, properties and
\* numerals, and any two epsilons.
THEOREM ComparisonsAlwaysAgree == EvalSpec => []ComparisonsAgree
<1>1. MachineInv => ComparisonsAgree
  <2> SUFFICES ASSUME MachineInv, NEW i \in DOMAIN Top.stack, NEW j \in DOMAIN Top.stack
               PROVE  Agree(Top.stack[i], Top.stack[j])
    BY DEF ComparisonsAgree, Agree, Is
  <2>1. IsStack(Top.stack)  BY Frames DEF IsFrame
  <2>2. IsValue(Top.stack[i]) /\ IsValue(Top.stack[j])
    <3>1. 0 \in Nat  OBVIOUS
    <3> QED  BY <2>1, <3>1, OffStack
  <2> QED  BY <2>2, ValuesAgree
<1> QED  BY <1>1, EvalInvariantHolds, PTL

=============================================================================
