--------------------------- MODULE FlagValuesProofs ---------------------------
(***************************************************************************)
(* For any flags, overrides and configurations.  With any number of        *)
(* threads: a peek freezes nothing and, where the storage can delete       *)
(* entries, a cleared override stays cleared.  With one thread: an         *)
(* overridden flag is not frozen, what a flag that freezes answers is what *)
(* its impression has reported, and no read fails.                         *)
(***************************************************************************)
EXTENDS FlagValues, TLAPS

Modes == {"get", "current", "original"}

-----------------------------------------------------------------------------
(***************************************************************************)
(* Overrides and their storage entry.                                      *)
(***************************************************************************)
OverrideInv ==
  /\ level \in [Flags -> Levels]
  /\ frozen \in [Flags -> BOOLEAN]
  /\ DOMAIN override = Flags /\ DOMAIN disk = Flags
  /\ handler => running
  /\ ClearedStaysCleared

\* What a release does, flag by flag.
LEMMA ReleaseOf ==
  ASSUME NEW fs, NEW upTo, Release(fs, upTo)
  PROVE  /\ frozen' = [f \in Flags |-> ~(f \in fs /\ upTo <= level[f]) /\ frozen[f]]
         /\ frozenValue' = [f \in Flags |-> IF f \in fs /\ upTo <= level[f]
                                             THEN NoValue ELSE frozenValue[f]]
         /\ shown' = [f \in Flags |-> IF f \in fs /\ upTo <= level[f]
                                       THEN {} ELSE shown[f]]
         /\ reported' = [f \in Flags |-> IF f \in fs /\ upTo <= level[f]
                                          THEN <<>> ELSE reported[f]]
  BY DEF Release

\* A release leaves the types of what it changes, and frees all the flags it is
\* called for from UntilLaunch on.
LEMMA ReleaseFrees ==
  ASSUME NEW fs, NEW upTo, Release(fs, upTo),
         level \in [Flags -> Levels], frozen \in [Flags -> BOOLEAN]
  PROVE  /\ frozen' \in [Flags -> BOOLEAN]
         /\ \A f \in Flags : frozen'[f] => frozen[f]
         /\ upTo = UntilLaunch => \A f \in Flags \cap fs : ~frozen'[f]
  <1>1. frozen' = [f \in Flags |-> ~(f \in fs /\ upTo <= level[f]) /\ frozen[f]]
    BY ReleaseOf
  <1>2. \A f \in Flags : frozen'[f] = (~(f \in fs /\ upTo <= level[f]) /\ frozen[f])
    BY <1>1
  <1>3. \A f \in Flags : UntilLaunch <= level[f]
    BY DEF Levels, UntilLaunch, UntilForeground, None
  <1>4. frozen' \in [Flags -> BOOLEAN]
    BY <1>1
  <1> QED
    BY <1>2, <1>3, <1>4

\* The types of the freeze contexts and of the overrides, and that the storage has no
\* override that was cleared, if it can delete entries.
THEOREM OverrideInvHolds == Spec => []OverrideInv
<1> USE FlagValuesAssumption DEF Levels, UntilLaunch, UntilForeground, None, OverrideInv,
        ClearedStaysCleared, Nothing, FreshLevels
<1>1. Init => OverrideInv
  BY DEF Init
<1>2. OverrideInv /\ [Next]_vars => OverrideInv'
  <2> SUFFICES ASSUME OverrideInv, [Next]_vars
               PROVE  OverrideInv'
    OBVIOUS
  <2>1. ASSUME NEW t \in Threads, Evaluation(t)
        PROVE  OverrideInv'
    <3>1. ASSUME NEW r, NEW m, Evaluate(t, r, m)
          PROVE  OverrideInv'
      BY <3>1 DEF Evaluate, stateVars, freezeVars
    <3>2. CASE AnswerOverride(t)
      BY <3>2 DEF AnswerOverride, stateVars, freezeVars
    <3>3. CASE AnswerFrozen(t)
      BY <3>3 DEF AnswerFrozen, stateVars, freezeVars
    <3>4. CASE PassOverride(t) \/ EnterOriginal(t)
      <4>1. frozen' \in [Flags -> BOOLEAN]
        BY <3>4 DEF PassOverride, EnterOriginal, freezeVars
      <4> QED
        BY <3>4, <4>1 DEF PassOverride, EnterOriginal, stateVars, freezeVars
    <3>5. CASE EvaluateCondition(t)
      BY <3>5 DEF EvaluateCondition, stateVars
    <3>6. CASE EvaluateDependency(t)
      BY <3>6 DEF EvaluateDependency, stateVars, freezeVars
    <3>7. CASE ReturnDependency(t)
      BY <3>7 DEF ReturnDependency, stateVars
    <3>8. CASE AnswerStored(t)
      BY <3>8 DEF AnswerStored, stateVars, freezeVars
    <3>9. CASE Return(t)
      BY <3>9 DEF Return, stateVars, freezeVars
    <3> QED
      BY <2>1, <3>1, <3>2, <3>3, <3>4, <3>5, <3>6, <3>7, <3>8, <3>9 DEF Evaluation
  <2>2. ASSUME NEW f \in Flags, NEW l \in Levels, UnfreezeFlag(f, l) \/ FreezeFlag(f, l)
        PROVE  OverrideInv'
    BY <2>2, ReleaseFrees DEF UnfreezeFlag, FreezeFlag, stateVars
  <2>3. ASSUME NEW fs \in SUBSET Flags, Unfreeze(fs)
        PROVE  OverrideInv'
    BY <2>3, ReleaseFrees DEF Unfreeze, stateVars
  <2>4. ASSUME NEW f \in Flags, NEW v \in Texts, SetOverride(f, v)
        PROVE  OverrideInv'
    BY <2>4, ReleaseFrees DEF SetOverride, stateVars
  <2>5. ASSUME NEW f \in Flags, ClearOverride(f)
        PROVE  OverrideInv'
    BY <2>5, ReleaseFrees DEF ClearOverride, stateVars
  <2>6. CASE ClearOverrides
    BY <2>6, ReleaseFrees DEF ClearOverrides, stateVars
  <2>7. CASE Setup
    BY <2>7 DEF Setup
  <2>8. CASE Shutdown
    BY <2>8 DEF Shutdown
  <2>9. ASSUME NEW c \in Configurations, Fetched(c)
        PROVE  OverrideInv'
    BY <2>9, ReleaseFrees DEF Fetched
  <2>10. CASE UNCHANGED vars
    BY <2>10 DEF vars, stateVars, freezeVars
  <2> QED
    BY <2>1, <2>2, <2>3, <2>4, <2>5, <2>6, <2>7, <2>8, <2>9, <2>10 DEF Next
<1> QED
  BY <1>1, <1>2, PTL DEF Spec

\* With an entry_delete, overrides_set and rox_clear_override never leave more on the
\* disk than there is in memory.
THEOREM ClearedIsGone == Spec => []ClearedStaysCleared
<1>1. OverrideInv => ClearedStaysCleared
  BY DEF OverrideInv
<1> QED
  BY OverrideInvHolds, <1>1, PTL

EveryThread == DOMAIN frames = Threads

\* Each thread has its evaluations, and no step gives it those of another.
LEMMA EveryThreadHolds == Spec => []EveryThread
<1>1. Init => EveryThread
  BY DEF Init, EveryThread
<1>2. EveryThread /\ [Next]_vars => EveryThread'
  <2> USE DEF EveryThread, evalVars
  <2>1. ASSUME EveryThread, NEW t \in Threads, Evaluation(t)
        PROVE  EveryThread'
    <3>1. ASSUME NEW reading, NEW m, Evaluate(t, reading, m)
          PROVE  EveryThread'
      BY <2>1, <3>1 DEF Evaluate
    <3>2. CASE AnswerOverride(t) \/ PassOverride(t) \/ AnswerFrozen(t) \/ EnterOriginal(t)
      BY <2>1, <3>2 DEF AnswerOverride, PassOverride, AnswerFrozen, EnterOriginal, Convert,
         SetTop
    <3>3. CASE EvaluateCondition(t) \/ EvaluateDependency(t) \/ ReturnDependency(t)
      BY <2>1, <3>3 DEF EvaluateCondition, EvaluateDependency, ReturnDependency, Evaluated,
         SetTop
    <3>4. CASE AnswerStored(t) \/ Return(t)
      BY <2>1, <3>4 DEF AnswerStored, Return, Convert, SetTop
    <3> QED
      BY <2>1, <3>1, <3>2, <3>3, <3>4 DEF Evaluation
  <2>2. EveryThread /\ UNCHANGED frames => EveryThread'
    OBVIOUS
  <2>3. ASSUME Next, \A t \in Threads : ~Evaluation(t)
        PROVE  UNCHANGED frames
    BY <2>3 DEF Next, UnfreezeFlag, FreezeFlag, Unfreeze, SetOverride, ClearOverride,
       ClearOverrides, Setup, Shutdown, Fetched
  <2> QED
    BY <2>1, <2>2, <2>3 DEF vars
<1> QED
  BY <1>1, <1>2, PTL DEF Spec

\* No step of an evaluation that rox_peek_current_value or rox_peek_original_value has
\* begun freezes a flag, whatever flags its conditions ask for.
THEOREM PeeksFreezeNothing == Spec => PeekFreezesNothing
<1>1. ASSUME OverrideInv, EveryThread, Next, NEW t \in Threads, NEW f \in Flags,
             mode[t] # "get", frames'[t] # frames[t], ~Idle(t), frozen'[f]
      PROVE  frozen[f]
  <2> USE <1>1 DEF OverrideInv, EveryThread, stateVars, freezeVars, evalVars
  <2>1. ASSUME NEW u \in Threads, Evaluation(u)
        PROVE  frozen[f]
    <3>1. CASE EnterOriginal(u)
      <4>1. u = t
        BY <3>1 DEF EnterOriginal, SetTop
      <4> QED
        BY <3>1, <4>1 DEF EnterOriginal
    <3>2. CASE ~EnterOriginal(u)
      <4>1. frozen' = frozen
        BY <2>1, <3>2 DEF Evaluation, Evaluate, AnswerOverride, PassOverride,
           AnswerFrozen, EvaluateCondition, EvaluateDependency, ReturnDependency, AnswerStored, Return
      <4> QED
        BY <4>1
    <3> QED
      BY <3>1, <3>2
  <2>2. CASE ~\E u \in Threads : Evaluation(u)
    BY <1>1, <2>2 DEF Next, UnfreezeFlag, FreezeFlag, Unfreeze, SetOverride,
       ClearOverride,
       ClearOverrides, Setup, Shutdown, Fetched
  <2> QED
    BY <2>1, <2>2
<1>2. OverrideInv /\ EveryThread /\ [Next]_vars =>
        [\A t \in Threads :
           mode[t] # "get" /\ frames'[t] # frames[t] /\ ~Idle(t) =>
             \A f \in Flags : frozen'[f] => frozen[f]]_vars
  BY <1>1
<1> QED
  BY OverrideInvHolds, EveryThreadHolds, <1>2, PTL DEF Spec, PeekFreezesNothing

-----------------------------------------------------------------------------
(***************************************************************************)
(* What a read answers.                                                    *)
(***************************************************************************)
\* One thread, on which the fetches run as well: a second one finds a flag marked as
\* frozen before it has a frozen value, and freezes a flag that the first one has
\* overridden since it looked for an override.
OneReader == ~Background /\ \A a, b \in Threads : a = b

\* No condition asks for its own flag, however indirectly: every set of flags has one
\* that asks for no other of them.
Acyclic == \A S \in SUBSET Flags : S # {} => \E f \in S : DependsOn[f] \notin S

\* NULL is no text and no value.
NullIsNothing ==
  \A x, y : /\ NoValue # Word(x) /\ NoValue # Number(x, y)
            /\ NoValue # [string |-> x] /\ NoValue # [int |-> x]
            /\ NoValue # [double |-> x] /\ NoValue # [bool |-> x]

DefaultTexts == {ToString(r.as, r.default) : r \in Reads}

Frames ==
  [flag : Flags, as : Types, default : DefaultTexts \cup {NoValue}, at : Stages,
   freezes : BOOLEAN]

TypeOK ==
  /\ config \in [Flags -> Results \cup {NoValue}]
  /\ level \in [Flags -> Levels] /\ frozen \in [Flags -> BOOLEAN]
  /\ DOMAIN frozenValue = Flags /\ DOMAIN override = Flags
  /\ DOMAIN shown = Flags /\ DOMAIN reported = Flags
  /\ frames \in [Threads -> Seq(Frames)]
  /\ mode \in [Threads -> Modes]
  /\ DOMAIN answer = Threads

\* A frame falls back to a text of its own type.
FallsBack(fr) ==
  IF fr.default = NoValue
  THEN fr.as \in {"string", Type[fr.flag]}
  ELSE \E r \in Reads : r.as = fr.as /\ fr.default = ToString(r.as, r.default)

\* The frames below the last one wait for the flag that the next one reads.
Chained(s) ==
  \A i \in 1 .. Len(s) - 1 :
    s[i].at = "original" /\ s[i + 1].flag = DependsOn[s[i].flag] /\ s[i + 1].as = "string"

\* A flag about to freeze has reported nothing yet, and is marked as frozen unless
\* it is peeked at; nobody releases it before its value is stored.
FrameInv(t, fr) ==
  LET f == fr.flag IN
  /\ FallsBack(fr)
  /\ fr.at # "aborted"
  /\ fr.at = "freezable" => mode[t] = "original" \/ override[f] = NoValue
  /\ fr.at = "original" /\ fr.freezes =>
       IF mode[t] = "get" THEN frozen[f] /\ reported[f] = <<>> /\ shown[f] = {}
                          ELSE ~frozen[f]
  /\ fr.at = "stored" => frozenValue[f] # NoValue /\ (mode[t] = "get" => frozen[f])
  /\ fr.at = "done" => IsValue(fr.as, answer[t])

Awaits(s, f) ==
  \E i \in 1 .. Len(s) : s[i].flag = f /\ s[i].at = "original" /\ s[i].freezes

Pending(f) == \E t \in Threads : mode[t] = "get" /\ Awaits(frames[t], f)

FlagInv(f) ==
  /\ ~frozen[f] => reported[f] = <<>> /\ shown[f] = {}
  /\ frozen[f] /\ ~Pending(f) =>
       /\ frozenValue[f] # NoValue
       /\ reported[f] = <<frozenValue[f]>>
       /\ shown[f] \subseteq {frozenValue[f]}

ReadInv ==
  /\ TypeOK
  /\ \A t \in Threads : Chained(frames[t])
  /\ \A t \in Threads : \A i \in 1 .. Len(frames[t]) : FrameInv(t, frames[t][i])
  /\ \A f \in Flags : FlagInv(f)

-----------------------------------------------------------------------------
(***************************************************************************)
(* The conversions.                                                        *)
(***************************************************************************)

\* What a converter reads is a value of its type; a string and a boolean are read
\* from whatever there is.
LEMMA FromStringIs ==
  ASSUME NullIsNothing, NEW type \in Types, NEW text
  PROVE  /\ text # NoValue /\ FromString(type, text) # NoValue =>
              IsValue(type, FromString(type, text))
         /\ type = "bool" => IsValue(type, FromString(type, text))
         /\ type \in {"string", "bool"} => FromString(type, text) # NoValue
  BY DEF NullIsNothing, Types, FromString, StrToInt, StrToDouble, IsValue, Is

\* The value without a number is a number.
LEMMA ZeroIs ==
  ASSUME NullIsNothing, NEW type \in {"int", "double"}
  PROVE  IsValue(type, Zero(type))
  BY DEF NullIsNothing, Zero, IsValue, Is

\* What is taken from a condition's result is a value of the type asked for.
LEMMA FromResultIs ==
  ASSUME NullIsNothing, NEW type \in Types, NEW result,
         Is("string", result) => result.string # NoValue,
         FromResult(type, result) # NoValue
  PROVE  IsValue(type, FromResult(type, result))
  <1> USE DEF NullIsNothing, FromResult, IsValue, Is
  <1>1. CASE type = "string"
    BY <1>1 DEF ResultString, Word
  <1>2. CASE type = "int"
    BY <1>2 DEF ResultInt, StrToInt
  <1>3. CASE type = "double"
    BY <1>3 DEF ResultDouble, StrToDouble
  <1>4. CASE type = "bool"
    BY <1>4 DEF ResultBool
  <1> QED
    BY <1>1, <1>2, <1>3, <1>4 DEF Types

\* Every value has a text, ...
LEMMA ToStringIsText ==
  ASSUME NullIsNothing, NEW type \in Types, NEW value, IsValue(type, value)
  PROVE  ToString(type, value) # NoValue
  <1> USE DEF NullIsNothing, ToString, IsValue
  <1>1. CASE type = "string"
    BY <1>1
  <1>2. CASE type = "int"
    BY <1>2 DEF IntToStr
  <1>3. CASE type = "double"
    BY <1>3 DEF DoubleToStr
  <1>4. CASE type = "bool"
    BY <1>4
  <1> QED
    BY <1>1, <1>2, <1>3, <1>4 DEF Types

\* ... from which its own type reads a value again.
LEMMA ToStringIsRead ==
  ASSUME NullIsNothing, NEW type \in Types, NEW value, IsValue(type, value)
  PROVE  FromString(type, ToString(type, value)) # NoValue
  <1> USE DEF NullIsNothing, ToString, FromString
  <1>1. CASE type \in {"string", "bool"}
    BY <1>1
  <1>2. CASE type = "int"
    BY <1>2 DEF IntToStr, StrToInt, Number, IsNumber
  <1>3. CASE type = "double"
    BY <1>3 DEF DoubleToStr, StrToDouble, Number, IsNumber
  <1> QED
    BY <1>1, <1>2, <1>3 DEF Types

\* The default of the call or of the flag stands in for what does not convert.
LEMMA DefaultIsValue ==
  ASSUME NullIsNothing, NEW fr \in Frames, FallsBack(fr), NEW result,
         Is("string", result) => result.string # NoValue
  PROVE  IsValue(fr.as, ConvertedOrDefault(fr, result))
  <1> DEFINE default == IF fr.default = NoValue THEN DefaultText(fr.flag) ELSE fr.default
             converted == IF result = NoValue THEN NoValue ELSE FromResult(fr.as, result)
  <1>1. fr.as \in Types /\ fr.flag \in Flags /\ Type[fr.flag] \in Types
    BY FlagValuesAssumption DEF Frames
  <1>2. IsValue(Type[fr.flag], Added[fr.flag])
    BY <1>1, FlagValuesAssumption
  <1>3. default # NoValue /\ FromString(fr.as, default) # NoValue
    <2>1. CASE fr.default = NoValue
      <3>1. default = ToString(Type[fr.flag], Added[fr.flag])
        BY <2>1 DEF DefaultText
      <3>2. default # NoValue
        BY <3>1, <1>1, <1>2, ToStringIsText
      <3>3. CASE fr.as = "string"
        BY <3>2, <3>3, <1>1, FromStringIs
      <3>4. CASE fr.as = Type[fr.flag]
        BY <3>1, <3>2, <3>4, <1>1, <1>2, ToStringIsRead
      <3> QED
        BY <2>1, <3>2, <3>3, <3>4 DEF FallsBack
    <2>2. CASE fr.default # NoValue
      <3>1. PICK r \in Reads : r.as = fr.as /\ fr.default = ToString(r.as, r.default)
        BY <2>2 DEF FallsBack
      <3>2. IsValue(fr.as, r.default)
        BY <3>1, FlagValuesAssumption
      <3> QED
        BY <2>2, <3>1, <3>2, <1>1, ToStringIsRead
    <2> QED
      BY <2>1, <2>2
  <1>4. IsValue(fr.as, FromString(fr.as, default))
    BY <1>1, <1>3, FromStringIs
  <1>5. converted # NoValue => IsValue(fr.as, converted)
    BY <1>1, FromResultIs
  <1>6. ConvertedOrDefault(fr, result) =
          IF converted = NoValue THEN FromString(fr.as, default) ELSE converted
    BY DEF ConvertedOrDefault
  <1> QED
    BY <1>4, <1>5, <1>6

-----------------------------------------------------------------------------
(***************************************************************************)
(* Stacks of frames.                                                       *)
(***************************************************************************)
Last(s) == s[Len(s)]

\* No flag is evaluated twice in the same read, ...
LEMMA DistinctFlags ==
  ASSUME Acyclic, NEW s \in Seq(Frames), Chained(s),
         NEW i \in 1 .. Len(s), NEW j \in 1 .. Len(s), i < j
  PROVE  s[i].flag # s[j].flag
<1> SUFFICES ASSUME s[i].flag = s[j].flag
             PROVE  FALSE
  OBVIOUS
<1> DEFINE S == {s[k].flag : k \in i .. j}
<1>0. \A k \in 1 .. Len(s) : s[k].flag \in Flags
  <2>1. \A k \in 1 .. Len(s) : s[k] \in Frames
    OBVIOUS
  <2> QED
    BY <2>1 DEF Frames
<1>1. S \in SUBSET Flags /\ S # {}
  BY <1>0
<1>2. PICK f \in S : DependsOn[f] \notin S
  BY <1>1 DEF Acyclic
<1>3. PICK k \in i .. j : f = s[k].flag
  BY <1>2
<1>4. CASE k < j
  <2>1. k \in 1 .. Len(s) - 1 /\ k + 1 \in i .. j
    BY <1>3, <1>4
  <2> QED
    BY <1>2, <1>3, <2>1 DEF Chained
<1>5. CASE k = j
  <2>1. i \in 1 .. Len(s) - 1 /\ i + 1 \in i .. j
    OBVIOUS
  <2> QED
    BY <1>2, <1>3, <1>5, <2>1 DEF Chained
<1> QED
  BY <1>3, <1>4, <1>5

\* ... and neither is the next one it asks for.
LEMMA NextFlagIsNew ==
  ASSUME Acyclic, NEW s \in Seq(Frames), Chained(s), NEW i \in 1 .. Len(s)
  PROVE  s[i].flag # DependsOn[Last(s).flag]
<1> SUFFICES ASSUME s[i].flag = DependsOn[Last(s).flag]
             PROVE  FALSE
  OBVIOUS
<1> DEFINE S == {s[k].flag : k \in i .. Len(s)}
<1>0. \A k \in 1 .. Len(s) : s[k].flag \in Flags
  <2>1. \A k \in 1 .. Len(s) : s[k] \in Frames
    OBVIOUS
  <2> QED
    BY <2>1 DEF Frames
<1>1. S \in SUBSET Flags /\ S # {}
  BY <1>0
<1>2. PICK f \in S : DependsOn[f] \notin S
  BY <1>1 DEF Acyclic
<1>3. PICK k \in i .. Len(s) : f = s[k].flag
  BY <1>2
<1>4. CASE k < Len(s)
  <2>1. k \in 1 .. Len(s) - 1 /\ k + 1 \in i .. Len(s)
    BY <1>3, <1>4
  <2> QED
    BY <1>2, <1>3, <2>1 DEF Chained
<1>5. CASE k = Len(s)
  BY <1>2, <1>3, <1>5 DEF Last
<1> QED
  BY <1>3, <1>4, <1>5

\* The last frame moves on, with its flag and type.
LEMMA LastReplaced ==
  ASSUME NEW s \in Seq(Frames), s # <<>>, Chained(s), NEW fr \in Frames,
         fr.flag = Last(s).flag, fr.as = Last(s).as,
         NEW r, r = [s EXCEPT ![Len(s)] = fr]
  PROVE  /\ r \in Seq(Frames) /\ r # <<>> /\ Len(r) = Len(s)
         /\ Last(r) = fr
         /\ \A i \in 1 .. Len(s) - 1 : r[i] = s[i]
         /\ Chained(r)
<1>1. Len(s) \in Nat \ {0} /\ Len(s) \in 1 .. Len(s)
  OBVIOUS
<1>2. r \in Seq(Frames) /\ Len(r) = Len(s) /\ r[Len(s)] = fr
  BY <1>1
<1>3. \A i \in 1 .. Len(s) - 1 : r[i] = s[i]
  BY <1>1
<1>4. ASSUME NEW i \in 1 .. Len(s) - 1
      PROVE  r[i + 1].flag = s[i + 1].flag /\ r[i + 1].as = s[i + 1].as
  <2>1. CASE i + 1 = Len(s)
    BY <1>2, <2>1 DEF Last
  <2>2. CASE i + 1 # Len(s)
    <3>1. i + 1 \in 1 .. Len(s) - 1
      BY <2>2
    <3> QED
      BY <1>3, <3>1
  <2> QED
    BY <2>1, <2>2
<1>5. Chained(r)
  <2> SUFFICES ASSUME NEW i \in 1 .. Len(s) - 1
               PROVE  /\ r[i].at = "original" /\ r[i + 1].flag = DependsOn[r[i].flag]
                      /\ r[i + 1].as = "string"
    BY <1>2 DEF Chained
  <2>1. s[i].at = "original" /\ s[i + 1].flag = DependsOn[s[i].flag] /\ s[i + 1].as = "string"
    BY DEF Chained
  <2>2. r[i] = s[i]
    BY <1>3
  <2> QED
    BY <1>4, <2>1, <2>2
<1> QED
  BY <1>1, <1>2, <1>3, <1>5 DEF Last

\* What is left when the last frame has returned.
LEMMA LastReturned ==
  ASSUME NEW s \in Seq(Frames), Len(s) > 1, Chained(s),
         NEW r, r = SubSeq(s, 1, Len(s) - 1)
  PROVE  /\ r \in Seq(Frames) /\ r # <<>> /\ Len(r) = Len(s) - 1
         /\ \A i \in 1 .. Len(r) : r[i] = s[i]
         /\ Chained(r) /\ Last(r).at = "original" /\ Last(s).as = "string"
<1>1. r \in Seq(Frames) /\ Len(r) = Len(s) - 1
  OBVIOUS
<1>2. \A i \in 1 .. Len(r) : r[i] = s[i]
  BY <1>1
<1>3. Chained(r)
  <2>1. \A i \in 1 .. Len(r) - 1 :
          i \in 1 .. Len(s) - 1 /\ i \in 1 .. Len(r) /\ i + 1 \in 1 .. Len(r)
    BY <1>1
  <2> QED
    BY <1>2, <2>1 DEF Chained
<1>4. Last(r).at = "original" /\ Last(s).as = "string"
  <2>1. Len(r) \in 1 .. Len(r) /\ Len(r) \in 1 .. Len(s) - 1 /\ Len(r) + 1 = Len(s)
    BY <1>1
  <2> QED
    BY <1>2, <2>1 DEF Chained, Last
<1>5. r # <<>>
  <2>1. Len(r) > 0
    BY <1>1
  <2>2. Len(<<>>) = 0 /\ ~(0 > 0)
    OBVIOUS
  <2> QED
    BY <2>1, <2>2, Zenon
<1> QED
  BY <1>1, <1>2, <1>3, <1>4, <1>5

\* A flag that asks for another waits for it.
LEMMA NextRead ==
  ASSUME NEW s \in Seq(Frames), s # <<>>, Chained(s), Last(s).at = "original",
         NEW fr \in Frames, fr.flag = DependsOn[Last(s).flag], fr.as = "string",
         NEW r, r = Append(s, fr)
  PROVE  /\ r \in Seq(Frames) /\ Len(r) = Len(s) + 1
         /\ Last(r) = fr
         /\ \A i \in 1 .. Len(s) : r[i] = s[i]
         /\ Chained(r)
<1>1. r \in Seq(Frames) /\ Len(r) = Len(s) + 1 /\ Last(r) = fr
  BY DEF Last
<1>2. \A i \in 1 .. Len(s) : r[i] = s[i]
  OBVIOUS
<1>3. Chained(r)
  BY <1>1, <1>2 DEF Chained, Last
<1> QED
  BY <1>1, <1>2, <1>3

-----------------------------------------------------------------------------
(***************************************************************************)
(* The steps of a read.                                                    *)
(***************************************************************************)

\* What one thread's read and every flag satisfy is all there is.
LEMMA OneReaderIsAll ==
  ASSUME OneReader, NEW t \in Threads,
         TypeOK', Chained(frames'[t]),
         \A i \in 1 .. Len(frames'[t]) : FrameInv(t, frames[t][i])',
         \A f \in Flags : FlagInv(f)'
  PROVE  ReadInv'
  <1>1. \A u \in Threads : u = t
    BY DEF OneReader
  <1> QED
    BY <1>1 DEF ReadInv

\* What the invariant says of the last frame and of those below it.
LEMMA TopOf ==
  ASSUME Acyclic, ReadInv, NEW t \in Threads, ~Idle(t)
  PROVE  /\ frames[t] \in Seq(Frames) /\ frames[t] # <<>> /\ Chained(frames[t])
         /\ Top(t) = Last(frames[t]) /\ Top(t) \in Frames /\ Top(t).flag \in Flags
         /\ FrameInv(t, Top(t))
         /\ \A i \in 1 .. Len(frames[t]) - 1 :
              /\ frames[t][i] \in Frames /\ FrameInv(t, frames[t][i])
              /\ frames[t][i].at = "original"
              /\ frames[t][i].flag # Top(t).flag
         /\ Top(t).at # "original" \/ ~Top(t).freezes => ~Awaits(frames[t], Top(t).flag)
  <1> DEFINE s == frames[t]
  <1>1. s \in Seq(Frames) /\ s # <<>> /\ Chained(s)
    BY DEF ReadInv, TypeOK, Idle
  <1>2. Len(s) \in 1 .. Len(s) /\ Len(s) \in Nat
    BY <1>1
  <1>3. Top(t) = s[Len(s)] /\ Top(t) = Last(s) /\ Top(t) \in Frames
    BY <1>1, <1>2 DEF Top, Last
  <1>4. \A i \in 1 .. Len(s) : FrameInv(t, s[i])
    BY DEF ReadInv
  <1>5. ASSUME NEW i \in 1 .. Len(s) - 1
        PROVE  /\ s[i] \in Frames /\ FrameInv(t, s[i])
               /\ s[i].at = "original" /\ s[i].flag # Top(t).flag
    <2>1. i \in 1 .. Len(s) /\ i < Len(s)
      BY <1>2
    <2>2. s[i].flag # s[Len(s)].flag
      BY <1>1, <1>2, <2>1, DistinctFlags
    <2> QED
      BY <1>1, <1>3, <1>4, <2>1, <2>2 DEF Chained
  <1>6. Top(t).at # "original" \/ ~Top(t).freezes => ~Awaits(s, Top(t).flag)
    <2> SUFFICES ASSUME NEW i \in 1 .. Len(s), s[i].flag = Top(t).flag
                 PROVE  s[i] = Top(t)
      BY DEF Awaits
    <2>1. i = Len(s) \/ i \in 1 .. Len(s) - 1
      BY <1>2
    <2> QED
      BY <1>3, <1>5, <2>1
  <1>7. Top(t).flag \in Flags
    BY <1>3 DEF Frames
  <1> QED
    BY <1>1, <1>2, <1>3, <1>4, <1>5, <1>6, <1>7

\* A text there is can be answered with, as every type.
LEMMA ConvertAnswers ==
  ASSUME NullIsNothing, TypeOK, NEW t \in Threads, Top(t) \in Frames,
         NEW text, text # NoValue, Convert(t, text)
  PROVE  /\ SetTop(t, [Top(t) EXCEPT !.at = "done"])
         /\ DOMAIN answer' = Threads
         /\ IsValue(Top(t).as, answer'[t])
  <1> DEFINE type == Top(t).as
             value == FromString(type, text)
  <1>1. type \in Types
    BY DEF Frames
  <1>2. /\ SetTop(t, [Top(t) EXCEPT !.at = "done"])
        /\ answer' = [answer EXCEPT ![t] = IF value = NoValue THEN Zero(type) ELSE value]
    BY DEF Convert
  <1>3. IsValue(type, IF value = NoValue THEN Zero(type) ELSE value)
    <2>1. CASE value = NoValue
      <3>1. type \in {"int", "double"}
        BY <1>1, <2>1, FromStringIs DEF Types
      <3> QED
        BY <2>1, <3>1, ZeroIs
    <2>2. CASE value # NoValue
      BY <1>1, <2>2, FromStringIs
    <2> QED
      BY <2>1, <2>2
  <1> QED
    BY <1>2, <1>3 DEF TypeOK

\* A read that has its text answers: nothing is frozen or released by that.
LEMMA AnswerKeeps ==
  ASSUME OneReader, Acyclic, NullIsNothing, ReadInv,
         NEW t \in Threads, ~Idle(t), Top(t).at \in {"enter", "freezable", "stored"},
         NEW text, text # NoValue, Convert(t, text),
         UNCHANGED <<config, level, frozen, frozenValue, override, mode, reported>>,
         DOMAIN shown' = Flags,
         \A f \in Flags :
           \/ shown'[f] = shown[f]
           \/ /\ f = Top(t).flag /\ frozen[f]
              /\ shown'[f] = shown[f] \cup {frozenValue[f]}
  PROVE  ReadInv'
  <1> DEFINE s  == frames[t]
             r  == frames'[t]
             f  == Top(t).flag
             fr == [Top(t) EXCEPT !.at = "done"]
  <1>1. /\ s \in Seq(Frames) /\ s # <<>> /\ Chained(s)
        /\ Top(t) = Last(s) /\ Top(t) \in Frames /\ f \in Flags
        /\ FrameInv(t, Top(t))
        /\ \A i \in 1 .. Len(s) - 1 :
             /\ s[i] \in Frames /\ FrameInv(t, s[i])
             /\ s[i].at = "original" /\ s[i].flag # f
        /\ ~Awaits(s, f)
    BY TopOf
  <1>2. TypeOK /\ \A g \in Flags : FlagInv(g)
    BY DEF ReadInv
  <1>3. /\ fr \in Frames /\ fr.flag = f /\ fr.as = Top(t).as /\ fr.default = Top(t).default
        /\ fr.at = "done" /\ fr.freezes = Top(t).freezes
    BY <1>1 DEF Frames, Stages
  <1>4. /\ frames' = [frames EXCEPT ![t] = [s EXCEPT ![Len(s)] = fr]]
        /\ DOMAIN answer' = Threads
        /\ IsValue(Top(t).as, answer'[t])
    BY <1>1, <1>2, ConvertAnswers DEF SetTop
  <1>5. r = [s EXCEPT ![Len(s)] = fr]
    BY <1>2, <1>4 DEF TypeOK
  <1> HIDE DEF fr
  <1>6. /\ r \in Seq(Frames) /\ Len(r) = Len(s) /\ Last(r) = fr /\ Chained(r)
        /\ \A i \in 1 .. Len(s) - 1 : r[i] = s[i]
    BY <1>1, <1>3, <1>5, LastReplaced
  <1>7. TypeOK'
    BY <1>2, <1>4, <1>5, <1>6 DEF TypeOK
  <1> HIDE DEF r, s
  <1>8. ASSUME NEW i \in 1 .. Len(r)
        PROVE  FrameInv(t, frames[t][i])'
    <2>1. CASE i = Len(r)
      <3>1. frames'[t][i] = fr
        BY <1>6, <2>1 DEF r, Last
      <3>2. FallsBack(fr)
        BY <1>1, <1>3 DEF FrameInv, FallsBack
      <3> QED
        BY <1>3, <1>4, <3>1, <3>2 DEF FrameInv
    <2>2. CASE i # Len(r)
      <3>1. i \in 1 .. Len(s) - 1 /\ frames'[t][i] = s[i]
        BY <1>1, <1>6, <2>2 DEF r
      <3>2. FrameInv(t, s[i]) /\ s[i].at = "original" /\ s[i].flag # f
        BY <1>1, <3>1
      <3>3. s[i].flag \in Flags
        BY <1>1, <3>1 DEF Frames
      <3> QED
        BY <3>1, <3>2, <3>3 DEF FrameInv
    <2> QED
      BY <2>1, <2>2
  <1>9. ASSUME NEW g \in Flags
        PROVE  FlagInv(g)'
    <2>1. Awaits(r, g) <=> Awaits(s, g)
      <3>1. Len(s) \in 1 .. Len(s) /\ Len(s) \in Nat
        BY <1>1
      <3>2. s[Len(s)].at # "original" /\ r[Len(s)].at # "original"
        BY <1>1, <1>3, <1>6 DEF Last
      <3> QED
        BY <1>6, <3>1, <3>2 DEF Awaits
    <2>2. Pending(g) <=> (mode[t] = "get" /\ Awaits(s, g))
      BY DEF Pending, OneReader, s
    <2>3. Pending(g)' <=> (mode'[t] = "get" /\ Awaits(r, g))
      BY DEF Pending, OneReader, r
    <2> QED
      BY <1>1, <1>2, <2>1, <2>2, <2>3 DEF FlagInv
  <1> QED
    BY <1>6, <1>7, <1>8, <1>9, OneReaderIsAll DEF r

\* A value has been found for the last frame of a stack: it does not fail, and a
\* flag that freezes stores what its impression reports, the first one since it
\* was released.
LEMMA EvaluatedKeeps ==
  ASSUME OneReader, Acyclic, NullIsNothing, ReadInv, NEW t \in Threads,
         NEW s \in Seq(Frames), s # <<>>, Chained(s), Last(s).at = "original",
         \A i \in 1 .. Len(s) : FrameInv(t, s[i]),
         \A f \in Flags : (Awaits(s, f) <=> Awaits(frames[t], f)),
         NEW result, Is("string", result) => result.string # NoValue,
         Evaluated(t, s, result),
         UNCHANGED <<config, level, frozen, override, mode, shown>>
  PROVE  ReadInv'
  <1> DEFINE n     == Len(s)
             top   == Last(s)
             f     == top.flag
             value == ConvertedOrDefault(top, result)
             text  == ToString(top.as, value)
             fr    == [top EXCEPT !.at = IF top.freezes THEN "stored" ELSE "done"]
             r     == frames'[t]
             reports == mode[t] = "get" /\ top.freezes
  <1>1. n \in 1 .. n /\ n \in Nat /\ top = s[n] /\ top \in Frames /\ FrameInv(t, top)
    BY DEF Last
  <1>2. f \in Flags /\ top.as \in Types /\ top.freezes \in BOOLEAN
    BY <1>1 DEF Frames
  <1>3. TypeOK /\ \A g \in Flags : FlagInv(g)
    BY DEF ReadInv
  <1>4. IsValue(top.as, value) /\ value # NoValue
    BY <1>1, DefaultIsValue DEF FrameInv, IsValue, Is
  <1>5. text # NoValue
    BY <1>2, <1>4, ToStringIsText
  <1>6. /\ fr \in Frames /\ fr.flag = f /\ fr.as = top.as /\ fr.default = top.default
        /\ fr.at = (IF top.freezes THEN "stored" ELSE "done") /\ fr.freezes = top.freezes
    BY <1>1 DEF Frames, Stages
  <1>7. /\ frames' = [frames EXCEPT ![t] = [s EXCEPT ![n] = fr]]
        /\ frozenValue' = IF top.freezes THEN [frozenValue EXCEPT ![f] = text] ELSE frozenValue
        /\ answer' = IF top.freezes THEN answer ELSE [answer EXCEPT ![t] = value]
        /\ reported' = IF reports THEN [reported EXCEPT ![f] = Append(@, text)] ELSE reported
    <2>1. CASE top.freezes
      BY <1>1, <1>4, <2>1 DEF Evaluated, Report
    <2>2. CASE ~top.freezes
      BY <1>1, <1>4, <2>2 DEF Evaluated, Report
    <2> QED
      BY <2>1, <2>2
  <1>8. r = [s EXCEPT ![n] = fr]
    BY <1>3, <1>7 DEF TypeOK
  <1> HIDE DEF fr, value, text
  <1>9. /\ r \in Seq(Frames) /\ Len(r) = n /\ Last(r) = fr /\ Chained(r)
        /\ \A i \in 1 .. n - 1 : r[i] = s[i]
    BY <1>6, <1>8, LastReplaced
  <1>10. TypeOK'
    BY <1>2, <1>3, <1>7, <1>8, <1>9 DEF TypeOK
  <1>11. ASSUME NEW i \in 1 .. n - 1
         PROVE  s[i] \in Frames /\ FrameInv(t, s[i]) /\ s[i].at = "original" /\ s[i].flag # f
    <2>1. i \in 1 .. n /\ i < n
      BY <1>1
    <2>2. s[i].flag # s[n].flag
      BY <1>1, <2>1, DistinctFlags
    <2> QED
      BY <1>1, <2>1, <2>2 DEF Chained
  <1> HIDE DEF r, top
  <1>12. /\ frozen' = frozen /\ shown' = shown /\ mode' = mode
         /\ \A g \in Flags \ {f} : frozenValue'[g] = frozenValue[g] /\ reported'[g] = reported[g]
         /\ top.freezes => frozenValue'[f] = text
         /\ ~top.freezes => frozenValue' = frozenValue /\ answer'[t] = value
         /\ reports => reported'[f] = Append(reported[f], text)
         /\ ~reports => reported' = reported
    BY <1>2, <1>3, <1>7 DEF TypeOK
  <1>13. ASSUME NEW i \in 1 .. Len(r)
         PROVE  FrameInv(t, frames[t][i])'
    <2>1. CASE i = Len(r)
      <3>1. frames'[t][i] = fr
        BY <1>9, <2>1 DEF r, Last
      <3>2. FallsBack(fr)
        BY <1>1, <1>6 DEF FrameInv, FallsBack
      <3>3. top.at = "original" /\ (reports => frozen[f])
        BY <1>1 DEF FrameInv, top
      <3> QED
        BY <1>4, <1>5, <1>6, <1>12, <3>1, <3>2, <3>3 DEF FrameInv
    <2>2. CASE i # Len(r)
      <3>1. i \in 1 .. n - 1 /\ frames'[t][i] = s[i]
        BY <1>1, <1>9, <2>2 DEF r
      <3>2. FrameInv(t, s[i]) /\ s[i].at = "original" /\ s[i].flag \in Flags \ {f}
        BY <1>11, <3>1 DEF Frames
      <3> QED
        BY <1>12, <3>1, <3>2 DEF FrameInv
    <2> QED
      BY <2>1, <2>2
  <1>14. ASSUME NEW g \in Flags
         PROVE  FlagInv(g)'
    <2>1. Awaits(r, g) <=> (Awaits(s, g) /\ ~(g = f /\ top.freezes))
      <3>1. r[n] = fr /\ r[n].at # "original"
        BY <1>6, <1>9 DEF Last
      <3>2. \A i \in 1 .. n - 1 : r[i] = s[i] /\ s[i].flag # f
        BY <1>9, <1>11
      <3>3. s[n].flag = f /\ s[n].at = "original" /\ s[n].freezes = top.freezes
        BY <1>1 DEF top
      <3>4. \A i \in 1 .. n : i = n \/ i \in 1 .. n - 1
        BY <1>1
      <3>5. ASSUME Awaits(r, g)
            PROVE  Awaits(s, g) /\ ~(g = f /\ top.freezes)
        BY <1>1, <1>9, <3>1, <3>2, <3>4, <3>5 DEF Awaits
      <3>6. ASSUME Awaits(s, g), ~(g = f /\ top.freezes)
            PROVE  Awaits(r, g)
        BY <1>1, <1>9, <3>2, <3>3, <3>4, <3>6 DEF Awaits
      <3> QED
        BY <3>5, <3>6
    <2>2. Pending(g) <=> (mode[t] = "get" /\ Awaits(s, g))
      BY DEF Pending, OneReader
    <2>3. Pending(g)' <=> (mode'[t] = "get" /\ Awaits(r, g))
      BY DEF Pending, OneReader, r
    <2>4. CASE g # f \/ ~top.freezes
      <3>1. reported'[g] = reported[g] /\ frozenValue'[g] = frozenValue[g]
        BY <1>12, <2>4
      <3> QED
        BY <1>3, <1>12, <2>1, <2>2, <2>3, <2>4, <3>1 DEF FlagInv
    <2>5. CASE g = f /\ top.freezes
      <3>1. /\ ~reports => ~frozen[f]
            /\ reports => frozen[f] /\ reported[f] = <<>> /\ shown[f] = {}
        BY <1>1, <2>5 DEF FrameInv, top
      <3>2. reports => reported'[f] = <<text>>
        BY <1>12, <3>1
      <3> QED
        BY <1>3, <1>5, <1>12, <2>5, <3>1, <3>2 DEF FlagInv
    <2> QED
      BY <2>4, <2>5
  <1> QED
    BY <1>9, <1>10, <1>13, <1>14, OneReaderIsAll DEF r

\* An evaluation begins with a frame of its own.
LEMMA EvaluateKeeps ==
  ASSUME OneReader, ReadInv, NEW t \in Threads, NEW m \in Modes,
         NEW fr \in Frames, FallsBack(fr), fr.at = "enter", Evaluate(t, fr, m)
  PROVE  ReadInv'
  <1>1. TypeOK /\ \A g \in Flags : FlagInv(g)
    BY DEF ReadInv
  <1>2. /\ frames[t] = <<>> /\ frames'[t] = <<fr>> /\ mode'[t] = m
        /\ UNCHANGED <<config, level, frozen, frozenValue, override, answer, shown, reported>>
    BY <1>1 DEF Evaluate, Idle, TypeOK, stateVars, freezeVars, history
  <1>3. <<fr>> \in Seq(Frames) /\ Len(<<fr>>) = 1 /\ <<fr>>[1] = fr /\ Chained(<<fr>>)
    BY DEF Chained
  <1>4. TypeOK'
    BY <1>1, <1>2, <1>3 DEF TypeOK, Evaluate
  <1>5. ASSUME NEW i \in 1 .. Len(frames'[t])
        PROVE  FrameInv(t, frames[t][i])'
    BY <1>2, <1>3 DEF FrameInv, FallsBack
  <1>6. ASSUME NEW g \in Flags
        PROVE  FlagInv(g)'
    <2>1. ~Pending(g) /\ ~Pending(g)'
      BY <1>2, <1>3 DEF Pending, Awaits, OneReader
    <2> QED
      BY <1>1, <1>2, <2>1 DEF FlagInv
  <1> QED
    BY <1>2, <1>3, <1>4, <1>5, <1>6, OneReaderIsAll

\* A flag without an override is asked for a frozen value.
LEMMA PassKeeps ==
  ASSUME OneReader, Acyclic, ReadInv, NEW t \in Threads, PassOverride(t)
  PROVE  ReadInv'
  <1> DEFINE s  == frames[t]
             r  == frames'[t]
             f  == Top(t).flag
             fr == [Top(t) EXCEPT !.at = "freezable"]
  <1>1. /\ s \in Seq(Frames) /\ s # <<>> /\ Chained(s)
        /\ Top(t) = Last(s) /\ Top(t) \in Frames /\ f \in Flags
        /\ FrameInv(t, Top(t))
        /\ \A i \in 1 .. Len(s) - 1 : FrameInv(t, s[i]) /\ s[i].at = "original"
        /\ Top(t).at = "enter"
    BY TopOf DEF PassOverride, At
  <1>2. TypeOK /\ \A g \in Flags : FlagInv(g)
    BY DEF ReadInv
  <1>3. /\ fr \in Frames /\ fr.flag = f /\ fr.as = Top(t).as /\ fr.default = Top(t).default
        /\ fr.at = "freezable"
    BY <1>1 DEF Frames, Stages
  <1>4. /\ frames' = [frames EXCEPT ![t] = [s EXCEPT ![Len(s)] = fr]]
        /\ mode[t] = "original" \/ override[f] = NoValue
        /\ UNCHANGED <<config, level, frozen, frozenValue, override, mode, answer, shown, reported>>
    BY DEF PassOverride, SetTop, stateVars, freezeVars, history
  <1>5. r = [s EXCEPT ![Len(s)] = fr]
    BY <1>2, <1>4 DEF TypeOK
  <1> HIDE DEF fr
  <1>6. /\ r \in Seq(Frames) /\ Len(r) = Len(s) /\ Last(r) = fr /\ Chained(r)
        /\ \A i \in 1 .. Len(s) - 1 : r[i] = s[i]
    BY <1>1, <1>3, <1>5, LastReplaced
  <1>7. TypeOK'
    BY <1>2, <1>4, <1>5, <1>6 DEF TypeOK
  <1> HIDE DEF r, s
  <1>8. ASSUME NEW i \in 1 .. Len(r)
        PROVE  FrameInv(t, frames[t][i])'
    <2>1. CASE i = Len(r)
      <3>1. frames'[t][i] = fr
        BY <1>6, <2>1 DEF r, Last
      <3>2. FallsBack(fr)
        BY <1>1, <1>3 DEF FrameInv, FallsBack
      <3> QED
        BY <1>3, <1>4, <3>1, <3>2 DEF FrameInv
    <2>2. CASE i # Len(r)
      <3>1. i \in 1 .. Len(s) - 1 /\ frames'[t][i] = s[i]
        BY <1>1, <1>6, <2>2 DEF r
      <3>2. FrameInv(t, s[i]) /\ s[i].at = "original"
        BY <1>1, <3>1
      <3> QED
        BY <1>4, <3>1, <3>2 DEF FrameInv
    <2> QED
      BY <2>1, <2>2
  <1>9. ASSUME NEW g \in Flags
        PROVE  FlagInv(g)'
    <2>1. Awaits(r, g) <=> Awaits(s, g)
      <3>1. Len(s) \in 1 .. Len(s) /\ Len(s) \in Nat
        BY <1>1
      <3>2. s[Len(s)].at # "original" /\ r[Len(s)].at # "original"
        BY <1>1, <1>3, <1>6 DEF Last
      <3> QED
        BY <1>6, <3>1, <3>2 DEF Awaits
    <2>2. Pending(g) <=> (mode[t] = "get" /\ Awaits(s, g))
      BY DEF Pending, OneReader, s
    <2>3. Pending(g)' <=> (mode'[t] = "get" /\ Awaits(r, g))
      BY DEF Pending, OneReader, r
    <2> QED
      BY <1>2, <1>4, <2>1, <2>2, <2>3 DEF FlagInv
  <1> QED
    BY <1>6, <1>7, <1>8, <1>9, OneReaderIsAll DEF r

\* A flag that is neither overridden nor frozen is marked as frozen, if it may
\* freeze and is not peeked at, before its condition is looked at.
LEMMA EnterKeeps ==
  ASSUME OneReader, Acyclic, ReadInv, NEW t \in Threads, EnterOriginal(t)
  PROVE  ReadInv'
  <1> DEFINE s  == frames[t]
             r  == frames'[t]
             f  == Top(t).flag
             fr == [Top(t) EXCEPT !.at = "original", !.freezes = level[f] # None]
  <1>1. /\ s \in Seq(Frames) /\ s # <<>> /\ Chained(s)
        /\ Top(t) = Last(s) /\ Top(t) \in Frames /\ f \in Flags
        /\ FrameInv(t, Top(t))
        /\ \A i \in 1 .. Len(s) - 1 :
             /\ s[i] \in Frames /\ FrameInv(t, s[i])
             /\ s[i].at = "original" /\ s[i].flag # f
        /\ ~Awaits(s, f)
    BY TopOf DEF EnterOriginal, At
  <1>2. TypeOK /\ \A g \in Flags : FlagInv(g)
    BY DEF ReadInv
  <1>3. /\ fr \in Frames /\ fr.flag = f /\ fr.as = Top(t).as /\ fr.default = Top(t).default
        /\ fr.at = "original" /\ fr.freezes = (level[f] # None)
    BY <1>1 DEF Frames, Stages
  <1>4. /\ frames' = [frames EXCEPT ![t] = [s EXCEPT ![Len(s)] = fr]]
        /\ frozen' = [frozen EXCEPT ![f] = @ \/ (level[f] # None /\ mode[t] = "get")]
        /\ UNCHANGED <<config, level, frozenValue, override, mode, answer, shown, reported>>
    BY DEF EnterOriginal, SetTop, stateVars, history
  <1>5. r = [s EXCEPT ![Len(s)] = fr]
    BY <1>2, <1>4 DEF TypeOK
  <1>6. level[f] # None => ~frozen[f]
    BY DEF EnterOriginal
  <1> HIDE DEF fr
  <1>7. /\ r \in Seq(Frames) /\ Len(r) = Len(s) /\ Last(r) = fr /\ Chained(r)
        /\ \A i \in 1 .. Len(s) - 1 : r[i] = s[i]
    BY <1>1, <1>3, <1>5, LastReplaced
  <1>8. frozen' \in [Flags -> BOOLEAN]
    BY <1>2, <1>4 DEF TypeOK
  <1>9. TypeOK'
    BY <1>2, <1>4, <1>5, <1>7, <1>8 DEF TypeOK
  <1> HIDE DEF r, s
  <1>10. /\ \A g \in Flags \ {f} : frozen'[g] = frozen[g]
         /\ level[f] = None \/ mode[t] # "get" => (frozen'[f] <=> frozen[f])
         /\ level[f] # None /\ mode[t] = "get" => frozen'[f]
    BY <1>1, <1>2, <1>4, <1>8 DEF TypeOK
  <1>11. ASSUME NEW i \in 1 .. Len(r)
         PROVE  FrameInv(t, frames[t][i])'
    <2>1. CASE i = Len(r)
      <3>1. frames'[t][i] = fr
        BY <1>7, <2>1 DEF r, Last
      <3>2. FallsBack(fr)
        BY <1>1, <1>3 DEF FrameInv, FallsBack
      <3>3. level[f] # None => reported[f] = <<>> /\ shown[f] = {}
        BY <1>1, <1>2, <1>6 DEF FlagInv
      <3> QED
        BY <1>3, <1>4, <1>6, <1>10, <3>1, <3>2, <3>3 DEF FrameInv
    <2>2. CASE i # Len(r)
      <3>1. i \in 1 .. Len(s) - 1 /\ frames'[t][i] = s[i]
        BY <1>1, <1>7, <2>2 DEF r
      <3>2. FrameInv(t, s[i]) /\ s[i].at = "original" /\ s[i].flag \in Flags \ {f}
        BY <1>1, <3>1 DEF Frames
      <3> QED
        BY <1>4, <1>10, <3>1, <3>2 DEF FrameInv
    <2> QED
      BY <2>1, <2>2
  <1>12. ASSUME NEW g \in Flags
         PROVE  FlagInv(g)'
    <2>1. Pending(g) <=> (mode[t] = "get" /\ Awaits(s, g))
      BY DEF Pending, OneReader, s
    <2>2. Pending(g)' <=> (mode'[t] = "get" /\ Awaits(r, g))
      BY DEF Pending, OneReader, r
    <2>3. Awaits(s, g) => Awaits(r, g)
      <3>1. Top(t).at = "freezable" /\ Top(t) = s[Len(s)] /\ Len(s) \in Nat
        BY <1>1 DEF EnterOriginal, At, Last
      <3> QED
        BY <1>7, <3>1 DEF Awaits
    <2>4. g = f /\ level[f] # None => Awaits(r, g)
      <3>1. Len(r) \in 1 .. Len(r) /\ r[Len(r)] = fr
        BY <1>1, <1>7 DEF Last
      <3> QED
        BY <1>3, <3>1 DEF Awaits
    <2> QED
      BY <1>2, <1>4, <1>10, <2>1, <2>2, <2>3, <2>4 DEF FlagInv
  <1> QED
    BY <1>7, <1>9, <1>11, <1>12, OneReaderIsAll DEF r

\* A condition that asks for another flag goes on with a read of that one.
LEMMA DependencyKeeps ==
  ASSUME OneReader, Acyclic, ReadInv, NEW t \in Threads, EvaluateDependency(t)
  PROVE  ReadInv'
  <1> DEFINE s  == frames[t]
             r  == frames'[t]
             fr == Reading(DependsOn[Top(t).flag], "string", NoValue)
  <1>1. /\ s \in Seq(Frames) /\ s # <<>> /\ Chained(s)
        /\ Top(t) = Last(s) /\ Top(t).flag \in Flags /\ Last(s).at = "original"
    BY TopOf DEF EvaluateDependency, At
  <1>2. TypeOK /\ \A g \in Flags : FlagInv(g)
    BY DEF ReadInv
  <1>3. \A i \in 1 .. Len(s) : FrameInv(t, s[i])
    BY DEF ReadInv
  <1>4. DependsOn[Top(t).flag] \in Flags
    BY <1>1, FlagValuesAssumption DEF EvaluateDependency
  <1>5. /\ fr \in Frames /\ fr.flag = DependsOn[Last(s).flag] /\ fr.as = "string"
        /\ fr.at = "enter" /\ FallsBack(fr) /\ ~fr.freezes
    BY <1>1, <1>4 DEF Frames, Stages, Types, Reading, FallsBack
  <1> HIDE DEF fr
  <1>6. /\ frames' = [frames EXCEPT ![t] = Append(s, fr)]
        /\ UNCHANGED <<config, level, frozen, frozenValue, override, mode, answer, shown, reported>>
    BY DEF EvaluateDependency, stateVars, freezeVars, history, fr
  <1>7. r = Append(s, fr)
    BY <1>2, <1>6 DEF TypeOK
  <1>8. /\ r \in Seq(Frames) /\ Len(r) = Len(s) + 1 /\ Last(r) = fr /\ Chained(r)
        /\ \A i \in 1 .. Len(s) : r[i] = s[i]
    BY <1>1, <1>5, <1>7, NextRead
  <1>9. TypeOK'
    BY <1>2, <1>6, <1>7, <1>8 DEF TypeOK
  <1> HIDE DEF r, s
  <1>10. \A i \in 1 .. Len(r) : (i = Len(r) /\ r[i] = fr) \/ (i \in 1 .. Len(s) /\ r[i] = s[i])
    BY <1>1, <1>8 DEF Last
  <1>11. ASSUME NEW i \in 1 .. Len(r)
         PROVE  FrameInv(t, frames[t][i])'
    <2>1. CASE r[i] = fr
      BY <1>5, <1>6, <2>1 DEF r, FrameInv, FallsBack
    <2>2. CASE i \in 1 .. Len(s) /\ r[i] = s[i]
      <3>1. FrameInv(t, s[i])
        BY <1>3, <2>2
      <3> QED
        BY <1>6, <2>2, <3>1 DEF r, FrameInv, FallsBack
    <2> QED
      BY <1>10, <2>1, <2>2
  <1>12. ASSUME NEW g \in Flags
         PROVE  FlagInv(g)'
    <2>1. Pending(g) <=> (mode[t] = "get" /\ Awaits(s, g))
      BY DEF Pending, OneReader, s
    <2>2. Pending(g)' <=> (mode'[t] = "get" /\ Awaits(r, g))
      BY DEF Pending, OneReader, r
    <2>3. Awaits(s, g) => Awaits(r, g)
      BY <1>1, <1>8 DEF Awaits
    <2> QED
      BY <1>2, <1>6, <2>1, <2>2, <2>3 DEF FlagInv
  <1> QED
    BY <1>8, <1>9, <1>11, <1>12, OneReaderIsAll DEF r

\* Every step of a read keeps the invariant.
LEMMA EvaluationKeeps ==
  ASSUME OneReader, Acyclic, NullIsNothing, ReadInv, NEW t \in Threads, Evaluation(t)
  PROVE  ReadInv'
  <1>1. TypeOK /\ \A g \in Flags : FlagInv(g)
    BY DEF ReadInv
  <1>2. ASSUME NEW f \in Flags, NEW m \in Modes, Evaluate(t, Own(f), m)
        PROVE  ReadInv'
    <2>1. Own(f) \in Frames /\ FallsBack(Own(f)) /\ Own(f).at = "enter"
      BY FlagValuesAssumption DEF Own, Reading, Frames, Stages, FallsBack
    <2> QED
      BY <1>2, <2>1, EvaluateKeeps
  <1>3. ASSUME NEW rd \in Reads, Evaluate(t, Dynamic(rd), "get")
        PROVE  ReadInv'
    <2>1. rd.flag \in Flags /\ rd.as \in Types /\ IsValue(rd.as, rd.default)
      BY FlagValuesAssumption
    <2>2. ToString(rd.as, rd.default) # NoValue
      BY <2>1, ToStringIsText
    <2>3. Dynamic(rd) \in Frames /\ Dynamic(rd).at = "enter"
      BY <2>1 DEF Dynamic, Reading, Frames, Stages, DefaultTexts
    <2>4. FallsBack(Dynamic(rd))
      BY <2>2 DEF Dynamic, Reading, FallsBack
    <2> QED
      BY <1>3, <2>3, <2>4, EvaluateKeeps DEF Modes
  <1>4. CASE AnswerOverride(t)
    <2>1. Convert(t, override[Top(t).flag]) /\ override[Top(t).flag] # NoValue
      BY <1>4 DEF AnswerOverride
    <2> QED
      BY <1>1, <1>4, <2>1, AnswerKeeps
         DEF AnswerOverride, At, TypeOK, stateVars, freezeVars, history
  <1>5. ASSUME AnswerFrozen(t) \/ AnswerStored(t)
        PROVE  ReadInv'
    <2> DEFINE f == Top(t).flag
    <2>1. /\ ~Idle(t) /\ Top(t).at \in {"freezable", "stored"}
          /\ Convert(t, frozenValue[f])
          /\ shown' = IF mode[t] = "get" THEN [shown EXCEPT ![f] = @ \cup {frozenValue[f]}]
                                         ELSE shown
          /\ UNCHANGED <<config, level, frozen, frozenValue, override, mode, reported>>
      BY <1>5 DEF AnswerFrozen, AnswerStored, At, stateVars, freezeVars
    <2>2. f \in Flags /\ FrameInv(t, Top(t)) /\ ~Awaits(frames[t], f)
      BY <2>1, TopOf
    <2>3. ~Pending(f)
      BY <2>2 DEF Pending, OneReader
    <2>4. frozenValue[f] # NoValue /\ (mode[t] = "get" => frozen[f])
      <3>1. CASE AnswerFrozen(t)
        BY <1>1, <2>2, <2>3, <3>1 DEF AnswerFrozen, FlagInv
      <3>2. CASE AnswerStored(t)
        BY <2>2, <3>2 DEF AnswerStored, At, FrameInv
      <3> QED
        BY <1>5, <3>1, <3>2
    <2>5. /\ DOMAIN shown' = Flags
          /\ \A g \in Flags : \/ shown'[g] = shown[g]
                              \/ /\ g = f /\ frozen[f]
                                 /\ shown'[g] = shown[g] \cup {frozenValue[f]}
      BY <1>1, <2>1, <2>4 DEF TypeOK
    <2> QED
      BY <2>1, <2>4, <2>5, AnswerKeeps
  <1>6. CASE PassOverride(t) \/ EnterOriginal(t)
    BY <1>6, PassKeeps, EnterKeeps
  <1>7. CASE EvaluateCondition(t)
    <2> DEFINE result == config[Top(t).flag]
    <2>1. /\ frames[t] \in Seq(Frames) /\ frames[t] # <<>> /\ Chained(frames[t])
          /\ Last(frames[t]).at = "original" /\ Top(t).flag \in Flags
      BY <1>7, TopOf DEF EvaluateCondition, At
    <2>2. \A i \in 1 .. Len(frames[t]) : FrameInv(t, frames[t][i])
      BY DEF ReadInv
    <2>3. Is("string", result) => result.string # NoValue
      <3>1. result \in Results \cup {NoValue}
        BY <1>1, <2>1 DEF TypeOK
      <3> QED
        BY <3>1, FlagValuesAssumption DEF Is
    <2>4. /\ Evaluated(t, frames[t], result)
          /\ UNCHANGED <<config, level, frozen, override, mode, shown>>
      BY <1>7 DEF EvaluateCondition, stateVars
    <2> HIDE DEF result
    <2> QED
      BY <2>1, <2>2, <2>3, <2>4, EvaluatedKeeps
  <1>8. CASE EvaluateDependency(t)
    BY <1>8, DependencyKeeps
  <1>9. CASE ReturnDependency(t)
    <2> DEFINE s == frames[t]
               r == SubSeq(s, 1, Len(s) - 1)
    <2>1. /\ s \in Seq(Frames) /\ s # <<>> /\ Chained(s) /\ Len(s) > 1
          /\ Top(t) = Last(s) /\ Top(t).at = "done" /\ FrameInv(t, Top(t))
      BY <1>9, TopOf DEF ReturnDependency, At
    <2>2. /\ r \in Seq(Frames) /\ r # <<>> /\ Len(r) = Len(s) - 1
          /\ \A i \in 1 .. Len(r) : r[i] = s[i]
          /\ Chained(r) /\ Last(r).at = "original" /\ Last(s).as = "string"
      BY <2>1, LastReturned
    <2>3. Is("string", answer[t]) => answer[t].string # NoValue
      BY <2>1, <2>2 DEF FrameInv, IsValue
    <2>4. /\ Evaluated(t, r, answer[t])
          /\ UNCHANGED <<config, level, frozen, override, mode, shown>>
      BY <1>9 DEF ReturnDependency, stateVars
    <2>5. Len(s) \in Nat /\ s[Len(s)].at = "done"
      BY <2>1 DEF Last
    <2> HIDE DEF r
    <2>6. \A i \in 1 .. Len(s) : i = Len(s) \/ i \in 1 .. Len(r)
      BY <2>2, <2>5
    <2>7. \A i \in 1 .. Len(r) : i \in 1 .. Len(s)
      BY <2>2, <2>5
    <2>8. \A i \in 1 .. Len(r) : FrameInv(t, r[i])
      <3>1. \A i \in 1 .. Len(s) : FrameInv(t, s[i])
        BY DEF ReadInv
      <3> QED
        BY <2>2, <2>7, <3>1
    <2>9. \A f \in Flags : Awaits(r, f) <=> Awaits(s, f)
      BY <2>2, <2>5, <2>6, <2>7 DEF Awaits
    <2> HIDE DEF s
    <2>10. \A f \in Flags : Awaits(r, f) <=> Awaits(frames[t], f)
      BY <2>9 DEF s
    <2> QED
      BY <2>2, <2>3, <2>4, <2>8, <2>10, EvaluatedKeeps
  <1>10. CASE Return(t)
    <2>1. /\ frames[t] \in Seq(Frames) /\ Len(frames[t]) = 1 /\ Top(t) = frames[t][1]
          /\ Top(t).at = "done"
          /\ frames' = [frames EXCEPT ![t] = <<>>]
          /\ DOMAIN answer' = DOMAIN answer
          /\ UNCHANGED <<config, level, frozen, frozenValue, override, mode, shown, reported>>
      BY <1>1, <1>10 DEF Return, At, Top, TypeOK, stateVars, freezeVars, history
    <2>2. frames'[t] = <<>> /\ Len(frames'[t]) = 0 /\ TypeOK'
      BY <1>1, <2>1 DEF TypeOK
    <2>3. ASSUME NEW g \in Flags
          PROVE  FlagInv(g)'
      <3>1. ~Pending(g)
        BY <2>1 DEF Pending, Awaits, OneReader
      <3> QED
        BY <1>1, <2>1, <3>1 DEF FlagInv
    <2>4. Chained(frames'[t])
      BY <2>2 DEF Chained
    <2>5. \A i \in 1 .. Len(frames'[t]) : FrameInv(t, frames[t][i])'
      BY <2>2
    <2> QED
      BY <2>2, <2>3, <2>4, <2>5, OneReaderIsAll
  <1> QED
    BY <1>2, <1>3, <1>4, <1>5, <1>6, <1>7, <1>8, <1>9, <1>10 DEF Evaluation, Modes

\* Between two reads the flags are released, or left as they are.
LEMMA BetweenReads ==
  ASSUME ReadInv, \A t \in Threads : Idle(t), UNCHANGED frames, TypeOK',
         \A f \in Flags :
           \/ ~frozen'[f] /\ reported'[f] = <<>> /\ shown'[f] = {}
           \/ /\ frozen'[f] = frozen[f] /\ frozenValue'[f] = frozenValue[f]
              /\ reported'[f] = reported[f] /\ shown'[f] = shown[f]
  PROVE  ReadInv'
  <1>1. \A t \in Threads : frames[t] = <<>> /\ frames'[t] = <<>>
    BY DEF Idle
  <1>2. Len(<<>>) = 0 /\ Chained(<<>>)
    BY DEF Chained
  <1>3. \A f \in Flags : ~Pending(f) /\ ~Pending(f)'
    BY <1>1, <1>2 DEF Pending, Awaits
  <1>4. \A f \in Flags : FlagInv(f)'
    BY <1>3 DEF ReadInv, FlagInv
  <1>5. \A t \in Threads : \A i \in 1 .. Len(frames'[t]) : FrameInv(t, frames[t][i])'
    BY <1>1, <1>2
  <1> QED
    BY <1>1, <1>2, <1>4, <1>5 DEF ReadInv

\* A release of a flag takes back what it has shown and reported.
LEMMA ReleaseKeeps ==
  ASSUME OverrideInv, ReadInv, \A t \in Threads : Idle(t), NEW fs, NEW upTo, Release(fs, upTo),
         UNCHANGED <<frames, mode, answer, level>>,
         DOMAIN override' = Flags, config' \in [Flags -> Results \cup {NoValue}]
  PROVE  ReadInv'
  <1>1. TypeOK
    BY DEF ReadInv
  <1>2. /\ frozen' = [f \in Flags |-> ~(f \in fs /\ upTo <= level[f]) /\ frozen[f]]
        /\ frozenValue' = [f \in Flags |-> IF f \in fs /\ upTo <= level[f]
                                            THEN NoValue ELSE frozenValue[f]]
        /\ shown' = [f \in Flags |-> IF f \in fs /\ upTo <= level[f] THEN {} ELSE shown[f]]
        /\ reported' = [f \in Flags |-> IF f \in fs /\ upTo <= level[f] THEN <<>> ELSE reported[f]]
    BY ReleaseOf
  <1>3. frozen' \in [Flags -> BOOLEAN]
    BY <1>2
  <1>4. TypeOK'
    BY <1>1, <1>2, <1>3 DEF TypeOK
  <1>5. ASSUME NEW f \in Flags
        PROVE  \/ ~frozen'[f] /\ reported'[f] = <<>> /\ shown'[f] = {}
               \/ /\ frozen'[f] = frozen[f] /\ frozenValue'[f] = frozenValue[f]
                  /\ reported'[f] = reported[f] /\ shown'[f] = shown[f]
    <2>1. CASE f \in fs /\ upTo <= level[f]
      BY <1>2, <2>1
    <2>2. CASE ~(f \in fs /\ upTo <= level[f])
      <3>1. frozen'[f] = frozen[f]
        BY <1>1, <1>2, <2>2 DEF TypeOK
      <3> QED
        BY <1>2, <2>2, <3>1
    <2> QED
      BY <2>1, <2>2
  <1> QED
    BY <1>4, <1>5, BetweenReads

\* The invariant of the reads, for one thread, conditions without cycles and a NULL
\* that is nothing else.  A flag that waits for its condition has to be known to have
\* reported nothing, and no frame below it to be of the same flag.
THEOREM ReadInvHolds ==
  OneReader /\ Acyclic /\ NullIsNothing => (Spec => []ReadInv)
<1> SUFFICES ASSUME OneReader, Acyclic, NullIsNothing
             PROVE  Spec => []ReadInv
  OBVIOUS
<1>1. Init => ReadInv
  <2> SUFFICES ASSUME Init
               PROVE  ReadInv
    OBVIOUS
  <2>1. \A t \in Threads : frames[t] = <<>>
    BY DEF Init
  <2>2. Len(<<>>) = 0 /\ Chained(<<>>) /\ <<>> \in Seq(Frames)
    BY DEF Chained
  <2>3. TypeOK
    BY <2>2, FlagValuesAssumption
       DEF Init, TypeOK, FreshLevels, Levels, None, Nothing, Modes
  <2>4. \A f \in Flags : FlagInv(f)
    BY DEF Init, FlagInv
  <2> QED
    BY <2>1, <2>2, <2>3, <2>4 DEF ReadInv
<1>2. OverrideInv /\ OverrideInv' /\ ReadInv /\ [Next]_vars => ReadInv'
  <2> SUFFICES ASSUME OverrideInv, OverrideInv', ReadInv, [Next]_vars
               PROVE  ReadInv'
    OBVIOUS
  <2>1. Calls => \A t \in Threads : Idle(t)
    BY DEF Calls, OneReader
  <2>2. DOMAIN override' = Flags /\ level' \in [Flags -> Levels] /\ TypeOK
    BY DEF OverrideInv, ReadInv
  <2> USE <2>1, <2>2 DEF TypeOK, stateVars, freezeVars, evalVars, history
  <2>3. ASSUME NEW t \in Threads, Evaluation(t)
        PROVE  ReadInv'
    BY <2>3, EvaluationKeeps
  <2>4. ASSUME NEW f \in Flags, NEW l \in Levels, UnfreezeFlag(f, l)
        PROVE  ReadInv'
    BY <2>4, ReleaseKeeps DEF UnfreezeFlag
  <2>5. ASSUME NEW f \in Flags, NEW l \in Levels, FreezeFlag(f, l)
        PROVE  ReadInv'
    BY <2>5, BetweenReads DEF FreezeFlag
  <2>6. ASSUME NEW fs \in SUBSET Flags, Unfreeze(fs)
        PROVE  ReadInv'
    BY <2>6, ReleaseKeeps DEF Unfreeze
  <2>7. ASSUME NEW f \in Flags, NEW v \in Texts, SetOverride(f, v)
        PROVE  ReadInv'
    BY <2>7, ReleaseKeeps DEF SetOverride
  <2>8. ASSUME NEW f \in Flags, ClearOverride(f)
        PROVE  ReadInv'
    BY <2>8, ReleaseKeeps DEF ClearOverride
  <2>9. CASE ClearOverrides
    BY <2>9, ReleaseKeeps DEF ClearOverrides
  <2>10. CASE Setup
    BY <2>10, BetweenReads DEF Setup
  <2>11. CASE Shutdown
    BY <2>11, BetweenReads DEF Shutdown, Nothing
  <2>12. ASSUME NEW c \in Configurations, Fetched(c)
         PROVE  ReadInv'
    <3>1. /\ \A t \in Threads : Idle(t)
          /\ config' \in [Flags -> Results \cup {NoValue}]
          /\ UNCHANGED <<level, override, frames, mode, answer>>
      BY <2>12 DEF Fetched, Configurations, OneReader
    <3>2. CASE handler
      BY <2>12, <3>1, <3>2, ReleaseKeeps DEF Fetched
    <3>3. CASE ~handler
      BY <2>12, <3>1, <3>3, BetweenReads DEF Fetched
    <3> QED
      BY <3>2, <3>3
  <2>13. CASE UNCHANGED vars
    <3>1. UNCHANGED <<config, level, frozen, frozenValue, override, frames, mode, answer,
                      shown, reported>>
      BY <2>13 DEF vars
    <3>2. TypeOK'
      BY <3>1
    <3>3. ASSUME NEW t \in Threads
          PROVE  /\ Chained(frames'[t])
                 /\ \A i \in 1 .. Len(frames'[t]) : FrameInv(t, frames[t][i])'
      <4>1. Chained(frames'[t])
        BY <3>1 DEF ReadInv
      <4>2. ASSUME NEW i \in 1 .. Len(frames[t])
            PROVE  FrameInv(t, frames[t][i])'
        <5>1. FrameInv(t, frames[t][i])
          BY DEF ReadInv
        <5> QED
          BY <3>1, <5>1 DEF FrameInv
      <4> QED
        BY <3>1, <4>1, <4>2
    <3>4. ASSUME NEW f \in Flags
          PROVE  FlagInv(f)'
      <4>1. Pending(f)' <=> Pending(f)
        BY <3>1 DEF Pending
      <4> QED
        BY <3>1, <4>1 DEF ReadInv, FlagInv
    <3> QED
      BY <3>2, <3>3, <3>4 DEF ReadInv
  <2> QED
    BY <2>3, <2>4, <2>5, <2>6, <2>7, <2>8, <2>9, <2>10, <2>11, <2>12, <2>13 DEF Next
<1> QED
  BY <1>1, <1>2, OverrideInvHolds, PTL DEF Spec

\* Once the first fetch has released all flags, rox_set_override and the evaluation
\* functions of one thread keep the overridden flags released: a flag is only frozen
\* after its override was looked for and not found.
THEOREM OverriddenReleased ==
  OneReader /\ Acyclic /\ NullIsNothing => (Spec => []OverriddenIsNotFrozen)
<1> SUFFICES ASSUME OneReader, Acyclic, NullIsNothing
             PROVE  Spec => []OverriddenIsNotFrozen
  OBVIOUS
<1>1. Init => OverriddenIsNotFrozen
  BY DEF Init, OverriddenIsNotFrozen
<1>2. OverrideInv /\ ReadInv /\ OverriddenIsNotFrozen /\ [Next]_vars => OverriddenIsNotFrozen'
  <2> SUFFICES ASSUME OverrideInv, ReadInv, OverriddenIsNotFrozen, [Next]_vars
               PROVE  OverriddenIsNotFrozen'
    OBVIOUS
  <2> USE FlagValuesAssumption DEF OverrideInv, OverriddenIsNotFrozen, Nothing, stateVars
  <2>1. ASSUME NEW t \in Threads, Evaluation(t)
        PROVE  OverriddenIsNotFrozen'
    <3>1. ASSUME NEW reading, NEW m, Evaluate(t, reading, m)
          PROVE  OverriddenIsNotFrozen'
      BY <3>1 DEF Evaluate, freezeVars
    <3>2. CASE AnswerOverride(t) \/ PassOverride(t) \/ AnswerFrozen(t)
      BY <3>2 DEF AnswerOverride, PassOverride, AnswerFrozen, freezeVars
    <3>3. CASE EnterOriginal(t)
      <4>1. mode[t] = "original" \/ override[Top(t).flag] = NoValue
        BY <3>3, TopOf DEF EnterOriginal, At, FrameInv
      <4>2. frozen' = [frozen EXCEPT ![Top(t).flag] =
                         @ \/ (level[Top(t).flag] # None /\ mode[t] = "get")]
            /\ UNCHANGED <<running, handler, override>>
        BY <3>3 DEF EnterOriginal
      <4> QED
        BY <4>1, <4>2
    <3>4. CASE EvaluateCondition(t) \/ EvaluateDependency(t) \/ ReturnDependency(t)
      BY <3>4 DEF EvaluateCondition, EvaluateDependency, ReturnDependency, freezeVars
    <3>5. CASE AnswerStored(t) \/ Return(t)
      BY <3>5 DEF AnswerStored, Return, freezeVars
    <3> QED
      BY <2>1, <3>1, <3>2, <3>3, <3>4, <3>5 DEF Evaluation
  <2>2. ASSUME NEW f \in Flags, NEW l \in Levels, UnfreezeFlag(f, l) \/ FreezeFlag(f, l)
        PROVE  OverriddenIsNotFrozen'
    BY <2>2, ReleaseFrees DEF UnfreezeFlag, FreezeFlag
  <2>3. ASSUME NEW fs \in SUBSET Flags, Unfreeze(fs)
        PROVE  OverriddenIsNotFrozen'
    BY <2>3, ReleaseFrees DEF Unfreeze
  <2>4. ASSUME NEW f \in Flags, NEW v \in Texts, SetOverride(f, v)
        PROVE  OverriddenIsNotFrozen'
    BY <2>4, ReleaseFrees DEF SetOverride
  <2>5. ASSUME NEW f \in Flags, ClearOverride(f)
        PROVE  OverriddenIsNotFrozen'
    BY <2>5, ReleaseFrees DEF ClearOverride
  <2>6. CASE ClearOverrides
    BY <2>6, ReleaseFrees DEF ClearOverrides
  <2>7. CASE Setup \/ Shutdown
    BY <2>7 DEF Setup, Shutdown
  <2>8. ASSUME NEW c \in Configurations, Fetched(c)
        PROVE  OverriddenIsNotFrozen'
    BY <2>8, ReleaseFrees DEF Fetched
  <2>9. CASE UNCHANGED vars
    BY <2>9 DEF vars, freezeVars
  <2> QED
    BY <2>1, <2>2, <2>3, <2>4, <2>5, <2>6, <2>7, <2>8, <2>9 DEF Next
<1> QED
  BY <1>1, <1>2, OverrideInvHolds, ReadInvHolds, PTL DEF Spec

\* What a flag that freezes answers is what its one impression has reported since
\* freeze.c last released it.
THEOREM AnswersAreReported ==
  OneReader /\ Acyclic /\ NullIsNothing => (Spec => []FrozenIsReported)
<1> SUFFICES ASSUME OneReader, Acyclic, NullIsNothing
             PROVE  Spec => []FrozenIsReported
  OBVIOUS
<1>1. ReadInv => FrozenIsReported
  <2> SUFFICES ASSUME ReadInv, NEW f \in Flags
               PROVE  /\ Len(reported[f]) <= 1
                      /\ \A text \in shown[f] : reported[f] = <<text>>
    BY DEF FrozenIsReported
  <2>1. Len(<<>>) = 0 /\ Len(<<frozenValue[f]>>) = 1
    OBVIOUS
  <2>2. FlagInv(f)
    BY DEF ReadInv
  <2>3. CASE Pending(f)
    <3>1. reported[f] = <<>> /\ shown[f] = {}
      <4>1. PICK t \in Threads : mode[t] = "get" /\ Awaits(frames[t], f)
        BY <2>3 DEF Pending
      <4>2. PICK i \in 1 .. Len(frames[t]) :
              LET fr == frames[t][i] IN fr.flag = f /\ fr.at = "original" /\ fr.freezes
        BY <4>1 DEF Awaits
      <4>3. FrameInv(t, frames[t][i])
        BY DEF ReadInv
      <4> QED
        BY <4>1, <4>2, <4>3 DEF FrameInv
    <3> QED
      BY <2>1, <3>1
  <2>4. CASE ~Pending(f)
    <3>1. CASE frozen[f]
      <4>1. reported[f] = <<frozenValue[f]>> /\ shown[f] \subseteq {frozenValue[f]}
        BY <2>2, <2>4, <3>1 DEF FlagInv
      <4> QED
        BY <2>1, <4>1
    <3>2. CASE ~frozen[f]
      <4>1. reported[f] = <<>> /\ shown[f] = {}
        BY <2>2, <3>2 DEF FlagInv
      <4> QED
        BY <2>1, <4>1
    <3> QED
      BY <3>1, <3>2
  <2> QED
    BY <2>3, <2>4
<1> QED
  BY <1>1, ReadInvHolds, PTL

\* No read by a getter or through the dynamic API fails an assertion of entities.c,
\* and each answers with a value of the type it was asked for.
THEOREM ReadsNeverAbort ==
  OneReader /\ Acyclic /\ NullIsNothing => (Spec => []NeverAborts)
<1> SUFFICES ASSUME OneReader, Acyclic, NullIsNothing
             PROVE  Spec => []NeverAborts
  OBVIOUS
<1>1. ReadInv => NeverAborts
  <2> SUFFICES ASSUME ReadInv, NEW t \in Threads, ~Idle(t)
               PROVE  /\ Top(t).at # "aborted"
                      /\ Top(t).at = "done" => Is(Top(t).as, answer[t])
    BY DEF NeverAborts, At
  <2> QED
    BY TopOf DEF FrameInv, IsValue
<1> QED
  BY <1>1, ReadInvHolds, PTL

=============================================================================
