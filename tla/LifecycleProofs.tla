--------------------------- MODULE LifecycleProofs ----------------------------
(***************************************************************************)
(* For any threads, flags and numbers of calls: rox_setup runs by itself,  *)
(* every flag in the repository is hung into freeze and overrides however  *)
(* it was added, no flag is frozen when the application's handler hears of *)
(* the first fetch, and memory is at any time what the SDK points to and   *)
(* what it is known to lose.                                               *)
(***************************************************************************)
EXTENDS Lifecycle, SequenceTheorems, TLAPS

Places  == {"out", "lock", "enter", "core", "notify", "handler", "unlock", "return", "refused"}
States  == {"none", "uninitialized", "settingUp", "initialized", "error"}
Up      == rox.state \in {"settingUp", "initialized", "error"}
Telling == {"notify", "handler"}

CoreOK(c) ==
  /\ DOMAIN c = {"flags", "callbacks", "handlers", "property", "context"}
  /\ DOMAIN c.flags = Names
  /\ \A n \in Names : c.flags[n] \in Nat

RoxOK(r) ==
  /\ DOMAIN r = {"life", "state", "options", "context"}
  /\ r.life \in Nat /\ r.state \in States
  /\ r.life = 0 <=> r.state = "none"

TypeOK ==
  /\ pc \in [Threads -> Places] /\ DOMAIN call = Threads /\ lock \in BOOLEAN
  /\ RoxOK(rox) /\ CoreOK(core)
  /\ rox.life = 0 => rox = NoRox /\ core = NewCore
  /\ lives \in Nat
  /\ DOMAIN freeze = {"repository", "invoker", "handle", "level"}
  /\ DOMAIN flag = 1 .. Bound["flag"]
  /\ \A f \in DOMAIN flag : DOMAIN flag[f] = DOMAIN NewFlag
  /\ created \in [Counted -> Nat]
  /\ \A n \in Names : core.flags[n] <= created["flag"]
  /\ created["flag"] <= Bound["flag"]

\* The threads that hold startup_shutdown_lock.
Locks(t) ==
  \/ pc[t] \in {"enter", "core", "unlock"}
  \/ rox.state = "settingUp" /\ pc[t] \in Telling

\* One thread sets up or tells the handlers of a fetch; a fetch of the application's
\* tells them when the setup is over.
LockInv ==
  /\ \A t \in Threads : Locks(t) => lock
  /\ \A t, u \in Threads : Locks(t) /\ Locks(u) => t = u
  /\ \A t, u \in Threads : pc[t] \in Telling /\ pc[u] \in Telling => t = u
  /\ rox.state = "settingUp" => \E t \in Threads : pc[t] \in {"core"} \cup Telling
  /\ \A t \in Threads :
       /\ pc[t] = "core" => rox.state = "settingUp"
       /\ pc[t] \in Telling => rox.state \in {"settingUp", "initialized"}

\* What a flag in the repository has been through, before a setup and from one on.
FlagReady(f) ==
  /\ Up => /\ flag[f].chain = <<"overrides", "freeze">>
           /\ flag[f].values = overrides.values
           /\ flag[f].level = IF flag[f].asked # "unset" THEN flag[f].asked ELSE freeze.level
  /\ ~Up => /\ flag[f].chain \in {<<>>, <<"freeze">>} /\ flag[f].values = 0
            /\ flag[f].asked # "unset" => flag[f].level = flag[f].asked
  /\ flag[f].context = rox.context

\* ... and what a flag to come will go through.
ReadyInv ==
  /\ Up => core.callbacks = <<"context", "freeze", "overrides">>
  /\ ~Up => core.callbacks = <<"context">> /\ freeze.level = "none" /\ rox.context = 0
  /\ core.context = rox.context
  /\ \A t \in Threads :
       pc[t] = "core" => freeze.level = IF call[t].level = "unset" THEN "none" ELSE call[t].level
  /\ \A f \in Registered(core) : FlagReady(f)

\* The first fetch tells the handler of freeze.c before the application's, and no
\* flag is evaluated between the two.
FetchInv ==
  rox.state = "settingUp" =>
    \A t \in Threads :
      /\ pc[t] = "core" => core.handlers = <<"unfreeze">>
      /\ pc[t] = "notify" =>
           \/ left \in {<<>>, <<"unfreeze", "application">>}
           \/ left = <<"application">> /\ \A f \in Registered(core) : ~flag[f].frozen
      /\ pc[t] = "handler" => left = <<>>

Inv == TypeOK /\ LockInv /\ ReadyInv /\ FetchInv


\* The calls of rox_setup that wait for the lock, and those that have got a Rox.
Waits(t)  == pc[t] \in {"lock", "enter"}
Inside(t) == (Locks(t) /\ pc[t] # "enter") \/ pc[t] = "return"

\* What is in memory for a reason: what the Rox owns, and the options of the calls
\* that wait.
RoxObjects    == IF Exists THEN {<<"rox", rox.life>>, <<"core", rox.life>>} ELSE {}
OwnObjects    == IF Up THEN {<<k, rox.life>> : k \in OwnKinds} ELSE {}
ContextObject == {<<"context", rox.context>>} \ {<<"context", 0>>}
FlagObjects   == {<<"flag", f>> : f \in Registered(core)}
Given         == {rox.options, core.property} \ {Null}
Asked         == {call[t].options : t \in {u \in Threads : Waits(u)}} \ {Null}
Live == RoxObjects \cup OwnObjects \cup ContextObject \cup FlagObjects \cup Given \cup Asked

\* The objects of a kind there have been.
Made(kind, counter) == {<<kind, k>> : k \in 1 .. created[counter]}

\* What rox_global and the statics name.
OwnInv ==
  /\ rox.life \in {0, lives}
  /\ rox.context \in 0 .. created["context"]
  /\ rox.options \in
       IF Up THEN Made("options", "setup") \cup {<<"own options", rox.life>>} ELSE {Null}
  /\ core.property \in {Null} \cup Made("property", "property")
                         \cup (IF Up THEN {<<"built-in", rox.life>>} ELSE {})
  /\ LET n == IF Up THEN rox.life ELSE 0
     IN /\ freeze.repository = n /\ freeze.invoker = n
        /\ overrides.values = n /\ overrides.repository = n

\* Every call has its own options until the Rox has them, and keeps its Rox until
\* it has returned.
CallOK(t) ==
  /\ DOMAIN call[t] = DOMAIN NoCall
  /\ call[t].options \in {Null} \cup Made("options", "setup")
  /\ Waits(t) /\ call[t].options # Null => call[t].options # rox.options
  /\ Inside(t) => call[t].rox = rox.life /\ Exists
  /\ pc[t] = "refused" => Exists
Apart(t, u) ==
  Waits(t) /\ Waits(u) /\ call[t].options = call[u].options /\ t # u => call[t].options = Null
CallInv == \A t \in Threads : CallOK(t) /\ \A u \in Threads : Apart(t, u)

\* What is lost was made, and is nobody's.
Losable ==
  Made("options", "setup") \cup Made("context", "context") \cup Made("flag", "flag")
    \cup {<<"built-in", l>> : l \in 1 .. lives}
LostInv ==
  /\ abandoned \subseteq Losable
  /\ ~Up => <<"built-in", rox.life>> \notin abandoned
  /\ abandoned \cap Live = {}

MemoryInv == allocated = Live \cup abandoned

HeapInv == OwnInv /\ CallInv /\ LostInv /\ MemoryInv

-----------------------------------------------------------------------------
(***************************************************************************)
(* What is hung into a flag.                                               *)
(***************************************************************************)

\* The chains a flag goes through.
LEMMA Chains ==
  /\ <<"freeze">> \o <<>> = <<"freeze">>
  /\ <<"overrides">> \o <<"freeze">> = <<"overrides", "freeze">>
  /\ ~Contains(<<>>, "freeze")
  /\ Contains(<<"freeze">>, "freeze")
  /\ Contains(<<"overrides", "freeze">>, "freeze")
<1>1. <<"freeze">> \o <<>> = <<"freeze">>
  OBVIOUS
<1>2. <<"overrides">> \o <<"freeze">> = <<"overrides", "freeze">>
  <2> DEFINE s == <<"overrides">> \o <<"freeze">>
             u == <<"overrides", "freeze">>
             Funcs == {"overrides", "freeze"}
  <2>1. /\ <<"overrides">> \in Seq(Funcs) /\ <<"freeze">> \in Seq(Funcs)
        /\ Len(<<"overrides">>) = 1 /\ Len(<<"freeze">>) = 1
        /\ u \in Seq(Funcs) /\ Len(u) = 2 /\ u[1] = "overrides" /\ u[2] = "freeze"
    OBVIOUS
  <2>2. s \in Seq(Funcs) /\ Len(s) = 2 /\ s[1] = "overrides" /\ s[2] = "freeze"
    BY <2>1, ConcatProperties
  <2> HIDE DEF s, u
  <2>3. \A i \in 1 .. 2 : s[i] = u[i]
    BY <2>1, <2>2
  <2>4. s = u
    BY <2>1, <2>2, <2>3, SeqEqual
  <2> QED
    BY <2>4 DEF s, u
<1>3. ~Contains(<<>>, "freeze")
  BY DEF Contains
<1>4. Contains(<<"freeze">>, "freeze")
  BY DEF Contains
<1>5. Contains(<<"overrides", "freeze">>, "freeze")
  BY DEF Contains
<1> QED
  BY <1>1, <1>2, <1>3, <1>4, <1>5

\* Freeze is hung in once, whether the flag was added with a level or not.
LEMMA FreezableIs ==
  ASSUME NEW f, DOMAIN f = DOMAIN NewFlag
  PROVE  /\ f.chain = <<>> => Freezable(f) = [f EXCEPT !.chain = <<"freeze">>]
         /\ f.chain \in {<<"freeze">>, <<"overrides", "freeze">>} => Freezable(f) = f
<1>1. f.chain = <<>> => Freezable(f) = [f EXCEPT !.chain = <<"freeze">>]
  BY Chains DEF Freezable, Wrapped, NewFlag
<1>2. f.chain \in {<<"freeze">>, <<"overrides", "freeze">>} => Freezable(f) = f
  BY Chains DEF Freezable
<1> QED
  BY <1>1, <1>2

\* What rox_setup makes of a flag added before it.
LEMMA FreezeFirstIs ==
  ASSUME NEW f, DOMAIN f = DOMAIN NewFlag, f.chain \in {<<>>, <<"freeze">>},
         NEW level, NEW life,
         NEW g, g = FreezeFirst(f, level, life)
  PROVE  /\ DOMAIN g = DOMAIN NewFlag
         /\ g.chain = <<"overrides", "freeze">> /\ g.values = life
         /\ g.level = IF f.asked # "unset" THEN f.level ELSE level
         /\ g.asked = f.asked /\ g.context = f.context /\ g.frozen = f.frozen
<1> DEFINE h == Freezable(f)
           k == FreezeFlag(f, level)
<1>1. /\ DOMAIN h = DOMAIN NewFlag /\ h.chain = <<"freeze">>
      /\ h.level = f.level /\ h.asked = f.asked /\ h.context = f.context /\ h.frozen = f.frozen
  BY FreezableIs DEF NewFlag
<1> HIDE DEF h
<1>2. /\ DOMAIN k = DOMAIN NewFlag /\ k.chain = <<"freeze">>
      /\ k.level = IF f.asked # "unset" THEN f.level ELSE level
      /\ k.asked = f.asked /\ k.context = f.context /\ k.frozen = f.frozen
  BY <1>1 DEF FreezeFlag, NewFlag, h
<1> HIDE DEF k
<1>3. g = [[k EXCEPT !.chain = <<"overrides">> \o @] EXCEPT !.values = life]
  BY DEF FreezeFirst, InitFlagOverrides, Wrapped, k
<1> QED
  BY <1>2, <1>3, Chains DEF NewFlag

\* The callbacks of a setup follow the one of the core.
LEMMA Callbacks ==
  <<"context">> \o <<"freeze", "overrides">> = <<"context", "freeze", "overrides">>
<1> DEFINE Names3 == {"context", "freeze", "overrides"}
           a == <<"context">>
           b == <<"freeze", "overrides">>
           s == a \o b
           u == <<"context", "freeze", "overrides">>
<1>1. /\ a \in Seq(Names3) /\ b \in Seq(Names3) /\ Len(a) = 1 /\ Len(b) = 2
      /\ a[1] = "context" /\ b[1] = "freeze" /\ b[2] = "overrides"
  OBVIOUS
<1>2. /\ u \in Seq(Names3) /\ Len(u) = 3
      /\ u[1] = "context" /\ u[2] = "freeze" /\ u[3] = "overrides"
  OBVIOUS
<1> HIDE DEF a, b, u, Names3
<1>3. /\ s \in Seq(Names3) /\ Len(s) = 3
      /\ s[1] = "context" /\ s[2] = "freeze" /\ s[3] = "overrides"
  <2>1. s \in Seq(Names3) /\ Len(s) = Len(a) + Len(b)
    BY <1>1, ConcatProperties
  <2>2. \A i \in 1 .. Len(a) + Len(b) : s[i] = IF i <= Len(a) THEN a[i] ELSE b[i - Len(a)]
    BY <1>1, ConcatProperties
  <2>3. 3 - 1 = 2 /\ 2 - 1 = 1 /\ Len(s) = 3
    BY <1>1, <2>1
  <2> QED
    BY <1>1, <2>1, <2>2, <2>3
<1> HIDE DEF s
<1>4. \A i \in 1 .. 3 : s[i] = u[i]
  BY <1>2, <1>3
<1>5. s = u
  BY <1>2, <1>3, <1>4, SeqEqual
<1> QED
  BY <1>5 DEF a, b, s, u

\* rox_get_or_create finds what there is, or makes it anew.
LEMMA GetOrCreate ==
  ASSUME TypeOK
  PROVE  /\ Core = core /\ RoxOK(Rox) /\ Rox.life # 0
         /\ Exists => Rox = rox
         /\ ~Exists => /\ Rox.state = "uninitialized" /\ rox.state = "none"
                       /\ Rox.context = 0 /\ rox.context = 0
<1> USE DEF TypeOK, RoxOK, Core, Rox, Exists, NoRox, States
<1>1. CASE Exists
  BY <1>1
<1>2. CASE ~Exists
  BY <1>2
<1> QED
  BY <1>1, <1>2

\* What the callbacks make of a new flag, before a setup and from one on.
LEMMA AnnouncedIs ==
  ASSUME TypeOK, ReadyInv, NEW f, f = Announced
  PROVE  /\ DOMAIN f = DOMAIN NewFlag
         /\ f.asked = "unset" /\ f.context = core.context /\ ~f.frozen
         /\ Up => /\ f.chain = <<"overrides", "freeze">> /\ f.values = overrides.values
                  /\ f.level = freeze.level
         /\ ~Up => f.chain = <<>> /\ f.values = 0
<1> DEFINE g == IF core.context # 0 THEN [NewFlag EXCEPT !.context = core.context] ELSE NewFlag
<1>1. Core = core
  BY GetOrCreate
<1>2. /\ DOMAIN g = DOMAIN NewFlag /\ g.chain = <<>> /\ g.asked = "unset"
      /\ g.context = core.context /\ ~g.frozen /\ g.values = 0
  BY DEF NewFlag
<1>3. "freeze" # "context" /\ "overrides" # "context" /\ "overrides" # "freeze"
  OBVIOUS
<1>4. /\ Called(NewFlag, "context") = g
      /\ Called(g, "freeze") = FreezeFlag(g, freeze.level)
      /\ \A h : Called(h, "overrides") = InitFlagOverrides(h, overrides.values)
  BY <1>1 DEF Called
<1> HIDE DEF g
<1>5. CASE Up
  <2>1. core.callbacks = <<"context", "freeze", "overrides">>
    BY <1>5 DEF ReadyInv
  <2>2. AfterCallback(NewFlag, 1) = g
    BY <1>1, <1>4, <2>1 DEF AfterCallback
  <2>3. AfterCallback(g, 2) = FreezeFlag(g, freeze.level)
    BY <1>1, <1>4, <2>1 DEF AfterCallback
  <2>4. \A h : AfterCallback(h, 3) = InitFlagOverrides(h, overrides.values)
    BY <1>1, <1>4, <2>1 DEF AfterCallback
  <2>5. f = FreezeFirst(g, freeze.level, overrides.values)
    BY <2>2, <2>3, <2>4 DEF Announced, FreezeFirst
  <2> QED
    BY <1>2, <1>5, <2>5, FreezeFirstIs
<1>6. CASE ~Up
  <2>1. core.callbacks = <<"context">>
    BY <1>6 DEF ReadyInv
  <2>2. DOMAIN core.callbacks = {1}
    BY <2>1
  <2>3. AfterCallback(NewFlag, 1) = g
    BY <1>1, <1>4, <2>1, <2>2 DEF AfterCallback
  <2>4. AfterCallback(g, 2) = g /\ AfterCallback(g, 3) = g
    BY <1>1, <2>2 DEF AfterCallback
  <2> QED
    BY <1>2, <1>6, <2>3, <2>4 DEF Announced
<1> QED
  BY <1>5, <1>6

\* A level a flag is added with stays, and so does the rest.
LEMMA AddFreezeIs ==
  ASSUME NEW f, DOMAIN f = DOMAIN NewFlag, f.chain \in {<<>>, <<"overrides", "freeze">>},
         NEW level, NEW g, g = AddFreeze(f, level)
  PROVE  /\ DOMAIN g = DOMAIN NewFlag
         /\ g.chain = (IF f.chain = <<>> THEN <<"freeze">> ELSE f.chain)
         /\ g.level = level /\ g.asked = level
         /\ g.values = f.values /\ g.context = f.context /\ g.frozen = f.frozen
<1> DEFINE h == Freezable(f)
<1>1. /\ DOMAIN h = DOMAIN NewFlag /\ h.chain = (IF f.chain = <<>> THEN <<"freeze">> ELSE f.chain)
      /\ h.values = f.values /\ h.context = f.context /\ h.frozen = f.frozen
  BY FreezableIs DEF NewFlag
<1> HIDE DEF h
<1> QED
  BY <1>1 DEF AddFreeze, NewFlag, h

-----------------------------------------------------------------------------
(***************************************************************************)
(* The steps.                                                              *)
(***************************************************************************)

\* The flags in the repository are those created so far.
LEMMA FlagNumbers ==
  ASSUME NEW c \in Nat, NEW g, DOMAIN g = Names,
         \A m \in Names : g[m] \in Nat /\ g[m] <= c,
         NEW n, NEW h, h = g \/ h = [g EXCEPT ![n] = c + 1]
  PROVE  DOMAIN h = Names /\ \A m \in Names : h[m] \in Nat /\ h[m] <= c + 1
<1>1. CASE h = g
  BY <1>1
<1>2. CASE h = [g EXCEPT ![n] = c + 1]
  BY <1>2
<1> QED
  BY <1>1, <1>2

\* Every variable keeps its type: what lies in the flags' and cores' fields.
LEMMA TypeKept ==
  ASSUME Inv, [Next]_vars
  PROVE  TypeOK'
<1> USE LifecycleAssumption, GetOrCreate
    DEF Inv, TypeOK, RoxOK, CoreOK, States, Places, NoRox, NewCore, NoFreeze, Exists,
        Counted, Creatable, Another, Number, threadVars, roxVars, heapVars
<1>1. ASSUME NEW t \in Threads, Lock(t)
      PROVE  TypeOK'
  BY <1>1 DEF Lock, Goto
<1>2. ASSUME NEW t \in Threads, Refuse(t)
      PROVE  TypeOK'
  BY <1>2 DEF Refuse, Goto
<1>3. ASSUME NEW t \in Threads, Retry(t)
      PROVE  TypeOK'
  BY <1>3 DEF Retry, Reset, ResetOf
<1>4. ASSUME NEW t \in Threads, Begin(t)
      PROVE  TypeOK'
  <2>1. /\ RoxOK(Rox) /\ Rox.life # 0 /\ Core = core /\ ~Up
    BY <1>4 DEF Begin, BeginWrapping, Up
  <2> DEFINE level == IF call[t].level = "unset" THEN freeze.level ELSE call[t].level
  <2>2. PICK opts :
          /\ rox' = [Rox EXCEPT !.state = "settingUp", !.options = opts]
          /\ lives' = Rox.life /\ Goto(t, "core") /\ DOMAIN call' = DOMAIN call
          /\ DOMAIN freeze' = {"repository", "invoker", "handle", "level"}
          /\ DOMAIN core' = DOMAIN core /\ core'.flags = core.flags
          /\ UNCHANGED <<lock, created>>
    BY <1>4, <2>1 DEF Begin, BeginWrapping
  <2>3. flag' = [f \in DOMAIN flag |->
                  IF f \in Registered(core) THEN FreezeFirst(flag[f], level, Rox.life) ELSE flag[f]]
    BY <1>4 DEF Begin, BeginWrapping
  <2>4. ASSUME NEW f \in DOMAIN flag
        PROVE  DOMAIN flag'[f] = DOMAIN NewFlag
    BY <2>1, <2>3, FreezeFirstIs DEF ReadyInv, FlagReady
  <2>5. RoxOK(rox') /\ rox'.life # 0
    BY <2>1, <2>2
  <2> QED
    BY <2>2, <2>3, <2>4, <2>5 DEF Goto
<1>5. ASSUME NEW t \in Threads, CoreFails(t)
      PROVE  TypeOK'
  BY <1>5 DEF CoreFails, CoreFailsTo, Goto, LockInv
<1>6. ASSUME NEW t \in Threads, CoreSetup(t)
      PROVE  TypeOK'
  BY <1>6 DEF CoreSetup, Goto, LockInv
<1>7. ASSUME NEW t \in Threads, Unfreeze(t)
      PROVE  TypeOK'
  BY <1>7 DEF Unfreeze, LockInv, Telling
<1>8. ASSUME NEW t \in Threads, Notify(t)
      PROVE  TypeOK'
  BY <1>8 DEF Notify, Goto
<1>9. ASSUME NEW t \in Threads, HandlerReturns(t)
      PROVE  TypeOK'
  BY <1>9 DEF HandlerReturns, Goto
<1>10. ASSUME NEW t \in Threads, Fetched(t)
      PROVE  TypeOK'
  BY <1>10 DEF Fetched, Goto
<1>11. ASSUME NEW t \in Threads, Unlock(t)
      PROVE  TypeOK'
  BY <1>11 DEF Unlock, Goto
<1>12. ASSUME NEW t \in Threads, Return(t)
      PROVE  TypeOK'
  BY <1>12 DEF Return, Goto
<1>13. ASSUME NEW t \in Threads, NEW v \in BOOLEAN, CallSetupPlain(t, v)
      PROVE  TypeOK'
  BY <1>13 DEF CallSetupPlain, Goto
<1>14. ASSUME NEW t \in Threads, NEW v \in BOOLEAN, NEW l \in DefaultFreezes,
             CallSetup(t, v, l)
      PROVE  TypeOK'
  BY <1>14 DEF CallSetup, Goto
<1>15. ASSUME NEW t \in Threads, NEW n \in Names, DynamicRead(t, n)
      PROVE  TypeOK'
  <2> DEFINE k == Number("flag")
  <2>1. /\ k \in Nat /\ k <= Bound["flag"] /\ k = created'["flag"]
        /\ k = created["flag"] + 1 /\ created["flag"] \in Nat
        /\ created' \in [Counted -> Nat]
    BY <1>15 DEF DynamicRead
  <2>2. /\ flag' = [flag EXCEPT ![k] = Announced] /\ core' = [core EXCEPT !.flags[n] = k]
        /\ rox.life # 0 /\ UNCHANGED <<threadVars, roxVars, freeze>>
    BY <1>15 DEF DynamicRead
  <2>3. DOMAIN Announced = DOMAIN NewFlag
    BY AnnouncedIs
  <2> HIDE DEF k
  <2>4. core'.flags = [core.flags EXCEPT ![n] = k] /\ DOMAIN core' = DOMAIN core
    BY <2>2
  <2>5. \A m \in Names : core'.flags[m] \in Nat /\ core'.flags[m] <= created'["flag"]
    <3> DEFINE g == core.flags
               h == core'.flags
               c == created["flag"]
    <3>1. DOMAIN g = Names /\ \A m \in Names : g[m] \in Nat /\ g[m] <= c
      OBVIOUS
    <3>2. h = [g EXCEPT ![n] = c + 1] /\ created'["flag"] = c + 1 /\ c \in Nat
      BY <2>1, <2>4
    <3> HIDE DEF g, h, c
    <3>3. \A m \in Names : h[m] \in Nat /\ h[m] <= c + 1
      BY <3>1, <3>2, FlagNumbers
    <3> QED
      BY <3>2, <3>3 DEF h
  <2>6. DOMAIN flag' = DOMAIN flag /\ \A f \in DOMAIN flag : DOMAIN flag'[f] = DOMAIN NewFlag
    BY <2>2, <2>3
  <2> QED
    BY <2>1, <2>2, <2>4, <2>5, <2>6
<1>16. ASSUME NEW t \in Threads, NEW n \in Names, NEW l \in Levels, AddFlag(t, n, l)
      PROVE  TypeOK'
  <2> DEFINE k   == Number("flag")
             new == IF l = "unset" THEN Announced ELSE AddFreeze(Announced, l)
  <2>1. /\ k \in Nat /\ k <= Bound["flag"] /\ k = created'["flag"]
        /\ k = created["flag"] + 1 /\ created["flag"] \in Nat
        /\ created' \in [Counted -> Nat]
    BY <1>16 DEF AddFlag
  <2>2. /\ flag' = IF Taken(n) THEN flag ELSE [flag EXCEPT ![k] = new]
        /\ core' = IF Taken(n) THEN core ELSE [core EXCEPT !.flags[n] = k]
        /\ rox' = Rox /\ lives' = Rox.life /\ UNCHANGED <<threadVars, freeze>>
    BY <1>16 DEF AddFlag
  <2>3. DOMAIN new = DOMAIN NewFlag
    <3>1. /\ DOMAIN Announced = DOMAIN NewFlag
          /\ Announced.chain \in {<<>>, <<"overrides", "freeze">>}
      BY AnnouncedIs
    <3> QED
      BY <3>1, AddFreezeIs
  <2>4. RoxOK(rox') /\ rox'.life # 0
    BY <2>2
  <2> HIDE DEF k, new
  <2>5. /\ core'.flags = IF Taken(n) THEN core.flags ELSE [core.flags EXCEPT ![n] = k]
        /\ DOMAIN core' = DOMAIN core
    BY <2>2
  <2>6. \A m \in Names : core'.flags[m] \in Nat /\ core'.flags[m] <= created'["flag"]
    <3> DEFINE g == core.flags
               h == core'.flags
               c == created["flag"]
    <3>1. DOMAIN g = Names /\ \A m \in Names : g[m] \in Nat /\ g[m] <= c
      OBVIOUS
    <3>2. /\ h = g \/ h = [g EXCEPT ![n] = c + 1]
          /\ created'["flag"] = c + 1 /\ c \in Nat
      BY <2>1, <2>5
    <3> HIDE DEF g, h, c
    <3>3. \A m \in Names : h[m] \in Nat /\ h[m] <= c + 1
      BY <3>1, <3>2, FlagNumbers
    <3> QED
      BY <3>2, <3>3 DEF h
  <2>7. DOMAIN flag' = DOMAIN flag /\ \A f \in DOMAIN flag : DOMAIN flag'[f] = DOMAIN NewFlag
    BY <2>2, <2>3
  <2> QED
    BY <2>1, <2>2, <2>4, <2>5, <2>6, <2>7
<1>17. ASSUME NEW t \in Threads, NEW f \in DOMAIN flag, Evaluate(t, f)
      PROVE  TypeOK'
  BY <1>17 DEF Evaluate
<1>18. ASSUME NEW t \in Threads, SetProperty(t)
      PROVE  TypeOK'
  BY <1>18 DEF SetProperty, AddCustomProperty
<1>19. ASSUME NEW t \in Threads, SetContext(t)
      PROVE  TypeOK'
  <2>1. CASE rox.state = "initialized"
    <3>1. /\ rox' = [rox EXCEPT !.context = Number("context")]
          /\ core' = [core EXCEPT !.context = Number("context")]
          /\ flag' = [f \in DOMAIN flag |->
                        IF f \in Registered(core)
                        THEN [flag[f] EXCEPT !.context = Number("context")] ELSE flag[f]]
          /\ created' = Another("context") /\ Number("context") \in Nat
          /\ UNCHANGED <<threadVars, lives, freeze, overrides, left>>
      BY <1>19, <2>1 DEF SetContext, SetCoreContext
    <3> QED
      BY <2>1, <3>1
  <2>2. CASE rox.state # "initialized"
    BY <1>19, <2>2 DEF SetContext
  <2> QED
    BY <2>1, <2>2
<1>20. ASSUME NEW t \in Threads, ClearContext(t)
      PROVE  TypeOK'
  BY <1>20 DEF ClearContext, SetCoreContext
<1>21. ASSUME NEW t \in Threads, Fetch(t)
      PROVE  TypeOK'
  BY <1>21 DEF Fetch, Goto
<1>22. ASSUME NEW t \in Threads, Shutdown(t)
      PROVE  TypeOK'
  BY <1>22 DEF Shutdown, Reset, ResetOf
<1>23. CASE UNCHANGED vars
  BY <1>23 DEF vars
<1> HIDE DEF Inv, TypeOK, RoxOK, CoreOK, States, Places, NoRox, NewCore, NoFreeze, Exists,
        Counted, Creatable, Another, Number, threadVars, roxVars, heapVars
<1> QED
  <2>1. ASSUME NEW t \in Threads, SetupStep(t)
        PROVE  TypeOK'
    BY <2>1, <1>1, <1>2, <1>3, <1>4, <1>5, <1>6, <1>7, <1>8, <1>9, <1>10, <1>11, <1>12
       DEF SetupStep
  <2>2. ASSUME NEW t \in Threads, NEW v \in BOOLEAN,
               CallSetupPlain(t, v) \/ \E l \in DefaultFreezes : CallSetup(t, v, l)
        PROVE  TypeOK'
    BY <2>2, <1>13, <1>14
  <2>3. ASSUME NEW t \in Threads, NEW n \in Names,
               DynamicRead(t, n) \/ \E l \in Levels : AddFlag(t, n, l)
        PROVE  TypeOK'
    BY <2>3, <1>15, <1>16
  <2> QED
    BY <2>1, <2>2, <2>3, <1>17, <1>18, <1>19, <1>20, <1>21, <1>22, <1>23 DEF Next

\* rox_setup runs by itself, and a fetch tells its handlers by itself.
LEMMA LockKept ==
  ASSUME Inv, [Next]_vars
  PROVE  LockInv'
<1> USE GetOrCreate
    DEF Inv, TypeOK, RoxOK, Places, LockInv, Locks, Telling, MayCall, NoRox, States, Exists,
        Counted, threadVars, roxVars, heapVars
<1>1. ASSUME NEW t \in Threads, Lock(t)
      PROVE  LockInv'
  BY <1>1 DEF Lock, Goto
<1>2. ASSUME NEW t \in Threads, Refuse(t)
      PROVE  LockInv'
  BY <1>2 DEF Refuse, Goto
<1>3. ASSUME NEW t \in Threads, Retry(t)
      PROVE  LockInv'
  BY <1>3 DEF Retry, Reset, ResetOf
<1>4. ASSUME NEW t \in Threads, Begin(t)
      PROVE  LockInv'
  <2>1. PICK opts : rox' = [Rox EXCEPT !.state = "settingUp", !.options = opts]
    BY <1>4 DEF Begin, BeginWrapping
  <2>2. rox'.state = "settingUp"
    BY <2>1
  <2>3. /\ pc[t] = "enter" /\ rox.state \in {"none", "uninitialized"}
        /\ pc' = [pc EXCEPT ![t] = "core"] /\ lock' = lock
    BY <1>4 DEF Begin, BeginWrapping, Goto
  <2> QED
    BY <2>2, <2>3
<1>5. ASSUME NEW t \in Threads, CoreFails(t)
      PROVE  LockInv'
  BY <1>5 DEF CoreFails, CoreFailsTo, Goto
<1>6. ASSUME NEW t \in Threads, CoreSetup(t)
      PROVE  LockInv'
  BY <1>6 DEF CoreSetup, Goto
<1>7. ASSUME NEW t \in Threads, Unfreeze(t)
      PROVE  LockInv'
  BY <1>7 DEF Unfreeze
<1>8. ASSUME NEW t \in Threads, Notify(t)
      PROVE  LockInv'
  BY <1>8 DEF Notify, Goto
<1>9. ASSUME NEW t \in Threads, HandlerReturns(t)
      PROVE  LockInv'
  BY <1>9 DEF HandlerReturns, Goto
<1>10. ASSUME NEW t \in Threads, Fetched(t)
      PROVE  LockInv'
  BY <1>10 DEF Fetched, Goto
<1>11. ASSUME NEW t \in Threads, Unlock(t)
      PROVE  LockInv'
  BY <1>11 DEF Unlock, Goto
<1>12. ASSUME NEW t \in Threads, Return(t)
      PROVE  LockInv'
  BY <1>12 DEF Return, Goto
<1>13. ASSUME NEW t \in Threads, NEW v \in BOOLEAN, CallSetupPlain(t, v)
      PROVE  LockInv'
  BY <1>13 DEF CallSetupPlain, Goto
<1>14. ASSUME NEW t \in Threads, NEW v \in BOOLEAN, NEW l \in DefaultFreezes,
             CallSetup(t, v, l)
      PROVE  LockInv'
  BY <1>14 DEF CallSetup, Goto
<1>15. ASSUME NEW t \in Threads, NEW n \in Names, DynamicRead(t, n)
      PROVE  LockInv'
  BY <1>15 DEF DynamicRead
<1>16. ASSUME NEW t \in Threads, NEW n \in Names, NEW l \in Levels, AddFlag(t, n, l)
      PROVE  LockInv'
  BY <1>16 DEF AddFlag
<1>17. ASSUME NEW t \in Threads, NEW f \in DOMAIN flag, Evaluate(t, f)
      PROVE  LockInv'
  BY <1>17 DEF Evaluate
<1>18. ASSUME NEW t \in Threads, SetProperty(t)
      PROVE  LockInv'
  BY <1>18 DEF SetProperty, AddCustomProperty
<1>19. ASSUME NEW t \in Threads, SetContext(t)
      PROVE  LockInv'
  BY <1>19 DEF SetContext, SetCoreContext
<1>20. ASSUME NEW t \in Threads, ClearContext(t)
      PROVE  LockInv'
  BY <1>20 DEF ClearContext, SetCoreContext
<1>21. ASSUME NEW t \in Threads, Fetch(t)
      PROVE  LockInv'
  BY <1>21 DEF Fetch, Goto
<1>22. ASSUME NEW t \in Threads, Shutdown(t)
      PROVE  LockInv'
  BY <1>22 DEF Shutdown, Reset, ResetOf
<1>23. CASE UNCHANGED vars
  BY <1>23 DEF vars
<1> HIDE DEF Inv, TypeOK, RoxOK, Places, LockInv, Locks, Telling, MayCall, NoRox, States,
        Exists, Counted, threadVars, roxVars, heapVars
<1> QED
  <2>1. ASSUME NEW t \in Threads, SetupStep(t)
        PROVE  LockInv'
    BY <2>1, <1>1, <1>2, <1>3, <1>4, <1>5, <1>6, <1>7, <1>8, <1>9, <1>10, <1>11, <1>12
       DEF SetupStep
  <2>2. ASSUME NEW t \in Threads, NEW v \in BOOLEAN,
               CallSetupPlain(t, v) \/ \E l \in DefaultFreezes : CallSetup(t, v, l)
        PROVE  LockInv'
    BY <2>2, <1>13, <1>14
  <2>3. ASSUME NEW t \in Threads, NEW n \in Names,
               DynamicRead(t, n) \/ \E l \in Levels : AddFlag(t, n, l)
        PROVE  LockInv'
    BY <2>3, <1>15, <1>16
  <2> QED
    BY <2>1, <2>2, <2>3, <1>17, <1>18, <1>19, <1>20, <1>21, <1>22, <1>23 DEF Next

\* The flags in the repository are flags that have been created.
LEMMA RegisteredExist ==
  ASSUME TypeOK
  PROVE  /\ \A f \in Registered(core) : f \in DOMAIN flag /\ f <= created["flag"]
         /\ created["flag"] \in Nat
<1> QED
  BY LifecycleAssumption DEF TypeOK, CoreOK, Registered, Counted

\* What a reset leaves: nothing that has to be ready.
LEMMA ResetReady ==
  ASSUME rox' = NoRox, core' = NewCore, freeze' = NoFreeze, \A t \in Threads : pc'[t] # "core"
  PROVE  ReadyInv'
<1>1. Registered(core') = {}
  BY DEF Registered, NewCore
<1>2. rox'.state = "none" /\ rox'.context = 0 /\ freeze'.level = "none"
  BY DEF NoRox, NoFreeze
<1>3. core'.callbacks = <<"context">> /\ core'.context = 0
  BY DEF NewCore
<1> QED
  BY <1>1, <1>2, <1>3 DEF ReadyInv, Up

\* A step that leaves what the flags are hung into, and the context.
LEMMA ReadyStays ==
  ASSUME ReadyInv, Up' <=> Up, rox'.context = rox.context,
         core'.flags = core.flags, core'.callbacks = core.callbacks,
         core'.context = core.context,
         freeze'.level = freeze.level, UNCHANGED overrides,
         \A t \in Threads : pc'[t] = "core" => pc[t] = "core" /\ call'[t] = call[t],
         \A f \in Registered(core) :
           /\ flag'[f].chain = flag[f].chain /\ flag'[f].values = flag[f].values
           /\ flag'[f].level = flag[f].level /\ flag'[f].asked = flag[f].asked
           /\ flag'[f].context = flag[f].context
  PROVE  ReadyInv'
<1>1. Registered(core') = Registered(core)
  BY DEF Registered
<1>2. ASSUME NEW f \in Registered(core)
      PROVE  FlagReady(f)'
  <2>1. FlagReady(f)
    BY DEF ReadyInv
  <2> QED
    BY <2>1 DEF FlagReady
<1> QED
  BY <1>1, <1>2 DEF ReadyInv

\* A context reaches the flags there are and, through the core, those to come.
LEMMA ContextReaches ==
  ASSUME TypeOK, ReadyInv, NEW c, rox.state = "initialized",
         SetCoreContext(c), rox' = [rox EXCEPT !.context = c],
         UNCHANGED <<freeze, overrides, pc, call>>
  PROVE  ReadyInv'
<1>1. rox'.context = c /\ rox'.state = rox.state /\ Up /\ Up'
  BY DEF TypeOK, RoxOK, Up
<1>2. /\ core'.context = c /\ core'.flags = core.flags /\ core'.callbacks = core.callbacks
      /\ Registered(core') = Registered(core)
  BY DEF SetCoreContext, TypeOK, CoreOK, Registered
<1>3. ASSUME NEW f \in Registered(core)
      PROVE  FlagReady(f)'
  <2>1. f \in DOMAIN flag /\ DOMAIN flag[f] = DOMAIN NewFlag /\ FlagReady(f)
    BY RegisteredExist DEF TypeOK, ReadyInv
  <2>2. flag'[f] = [flag[f] EXCEPT !.context = c]
    BY <2>1 DEF SetCoreContext
  <2>3. /\ flag'[f].context = c
        /\ flag'[f].chain = flag[f].chain /\ flag'[f].values = flag[f].values
        /\ flag'[f].level = flag[f].level /\ flag'[f].asked = flag[f].asked
    BY <2>1, <2>2 DEF NewFlag
  <2> QED
    BY <1>1, <2>1, <2>3 DEF FlagReady
<1> QED
  BY <1>1, <1>2, <1>3 DEF ReadyInv

\* A new flag is ready, with a level of its own or without.
ReadyFlag(new) ==
  /\ new.context = rox.context
  /\ Up => /\ new.chain = <<"overrides", "freeze">> /\ new.values = overrides.values
           /\ new.level = IF new.asked # "unset" THEN new.asked ELSE freeze.level
  /\ ~Up => /\ new.chain \in {<<>>, <<"freeze">>} /\ new.values = 0
            /\ new.asked # "unset" => new.level = new.asked

\* What the callbacks make of a new flag is ready, and so is it with a level added.
LEMMA AnnouncedReady ==
  ASSUME TypeOK, ReadyInv
  PROVE  ReadyFlag(Announced) /\ \A l : l # "unset" => ReadyFlag(AddFreeze(Announced, l))
<1> DEFINE f == Announced
<1>1. /\ DOMAIN f = DOMAIN NewFlag
      /\ f.asked = "unset" /\ f.context = rox.context
      /\ Up => /\ f.chain = <<"overrides", "freeze">> /\ f.values = overrides.values
               /\ f.level = freeze.level
      /\ ~Up => f.chain = <<>> /\ f.values = 0
  BY AnnouncedIs DEF ReadyInv
<1> HIDE DEF f
<1>2. ReadyFlag(f)
  BY <1>1 DEF ReadyFlag
<1>3. ASSUME NEW l, l # "unset"
      PROVE  ReadyFlag(AddFreeze(f, l))
  <2> DEFINE g == AddFreeze(f, l)
  <2>0. /\ DOMAIN f = DOMAIN NewFlag /\ f.chain \in {<<>>, <<"overrides", "freeze">>}
        /\ g = AddFreeze(f, l)
    BY <1>1
  <2> HIDE DEF g
  <2>1. /\ g.chain = (IF f.chain = <<>> THEN <<"freeze">> ELSE f.chain)
        /\ g.level = l /\ g.asked = l /\ g.values = f.values /\ g.context = f.context
    BY <2>0, AddFreezeIs
  <2>2. <<"overrides", "freeze">> # <<>>
    OBVIOUS
  <2>3. ReadyFlag(g)
    <3>1. CASE Up
      BY <1>1, <1>3, <2>1, <2>2, <3>1 DEF ReadyFlag
    <3>2. CASE ~Up
      BY <1>1, <1>3, <2>1, <3>2 DEF ReadyFlag
    <3> QED
      BY <3>1, <3>2
  <2> QED
    BY <2>3 DEF g
<1> QED
  BY <1>2, <1>3 DEF f

\* The repository gets a flag that is ready, with a number of its own.
LEMMA AdditionReady ==
  ASSUME TypeOK, ReadyInv, NEW n \in Names, NEW new, ReadyFlag(new),
         Creatable("flag"),
         rox'.context = rox.context, Up' <=> Up, UNCHANGED <<freeze, overrides, pc, call>>,
         flag' = [flag EXCEPT ![Number("flag")] = new],
         core' = [core EXCEPT !.flags[n] = Number("flag")]
  PROVE  ReadyInv'
<1> DEFINE k == Number("flag")
<1>1. /\ core'.flags = [core.flags EXCEPT ![n] = k] /\ core'.callbacks = core.callbacks
      /\ core'.context = core.context
  BY DEF TypeOK, CoreOK
<1>2. Registered(core') \subseteq Registered(core) \cup {k}
  BY <1>1 DEF Registered, TypeOK, CoreOK
<1>3. \A f \in Registered(core) : f # k /\ f \in DOMAIN flag
  BY RegisteredExist DEF Number
<1> HIDE DEF k
<1>4. ASSUME NEW f \in Registered(core')
      PROVE  FlagReady(f)'
  <2>1. CASE f = k
    <3>1. flag'[f] = new
      <4>1. k \in DOMAIN flag
        BY RegisteredExist, LifecycleAssumption DEF k, TypeOK, Number, Creatable, Counted
      <4> QED
        BY <2>1, <4>1 DEF k
    <3> QED
      BY <3>1 DEF FlagReady, ReadyFlag
  <2>2. CASE f # k
    <3>1. flag'[f] = flag[f] /\ FlagReady(f)
      BY <1>2, <1>3, <2>2 DEF k, ReadyInv
    <3> QED
      BY <3>1 DEF FlagReady
  <2> QED
    BY <2>1, <2>2
<1> QED
  BY <1>1, <1>4 DEF ReadyInv

\* Every flag in the repository has been through what its time asks for.
LEMMA ReadyKept ==
  ASSUME Inv, [Next]_vars
  PROVE  ReadyInv'
<1> USE GetOrCreate, TypeKept
    DEF Inv, TypeOK, RoxOK, CoreOK, Places, LockInv, Locks, Telling, MayCall, NoRox, NewCore,
        States, Exists, Counted, ReadyInv, FlagReady, Registered, Up, threadVars, roxVars,
        heapVars
<1>1. ASSUME NEW t \in Threads, Lock(t)
      PROVE  ReadyInv'
  BY <1>1 DEF Lock, Goto
<1>2. ASSUME NEW t \in Threads, Refuse(t)
      PROVE  ReadyInv'
  BY <1>2 DEF Refuse, Goto
<1>3. ASSUME NEW t \in Threads, Retry(t)
      PROVE  ReadyInv'
  <2>1. rox' = NoRox /\ core' = NewCore /\ freeze' = NoFreeze /\ pc' = pc
    BY <1>3 DEF Retry, Reset, ResetOf
  <2>2. \A u \in Threads : pc'[u] # "core"
    BY <1>3, <2>1 DEF Retry
  <2> QED
    BY <2>1, <2>2, ResetReady
<1>4. ASSUME NEW t \in Threads, Begin(t)
      PROVE  ReadyInv'
  <2> DEFINE level == IF call[t].level = "unset" THEN freeze.level ELSE call[t].level
             life  == Rox.life
  <2>1. PICK opts : rox' = [Rox EXCEPT !.state = "settingUp", !.options = opts]
    BY <1>4 DEF Begin, BeginWrapping
  <2>2. /\ pc[t] = "enter" /\ ~Up /\ RoxOK(Rox) /\ Rox.context = rox.context
    BY <1>4 DEF Begin, BeginWrapping
  <2>3. rox'.state = "settingUp" /\ rox'.context = rox.context
    BY <2>1, <2>2
  <2>4. /\ freeze'.level = level /\ overrides'.values = life
        /\ pc' = [pc EXCEPT ![t] = "core"] /\ call' = [call EXCEPT ![t].rox = life]
    BY <1>4 DEF Begin, BeginWrapping, Goto
  <2>5. /\ core'.flags = core.flags /\ core'.context = core.context
        /\ core'.callbacks = core.callbacks \o <<"freeze", "overrides">>
    BY <1>4 DEF Begin, BeginWrapping
  <2>6. core'.callbacks = <<"context", "freeze", "overrides">>
    BY <2>2, <2>5, Callbacks
  <2>7. flag' = [f \in DOMAIN flag |->
                  IF f \in Registered(core) THEN FreezeFirst(flag[f], level, life) ELSE flag[f]]
    BY <1>4 DEF Begin, BeginWrapping
  <2>8. Registered(core') = Registered(core)
    BY <2>5
  <2> HIDE DEF level, life
  <2>9. ASSUME NEW f \in Registered(core)
        PROVE  FlagReady(f)'
    <3>1. f \in DOMAIN flag
      BY RegisteredExist
    <3>2. /\ DOMAIN flag[f] = DOMAIN NewFlag /\ flag[f].chain \in {<<>>, <<"freeze">>}
          /\ flag[f].asked # "unset" => flag[f].level = flag[f].asked
          /\ flag[f].context = rox.context
      BY <2>2, <3>1
    <3>3. flag'[f] = FreezeFirst(flag[f], level, life)
      BY <2>7, <3>1
    <3>4. /\ flag'[f].chain = <<"overrides", "freeze">> /\ flag'[f].values = life
          /\ flag'[f].level = IF flag[f].asked # "unset" THEN flag[f].level ELSE level
          /\ flag'[f].asked = flag[f].asked /\ flag'[f].context = flag[f].context
      <4> DEFINE old == flag[f]
                 new == flag'[f]
      <4>1. /\ DOMAIN old = DOMAIN NewFlag /\ old.chain \in {<<>>, <<"freeze">>}
            /\ new = FreezeFirst(old, level, life)
        BY <3>2, <3>3
      <4> HIDE DEF old, new, Inv, TypeOK, LockInv, ReadyInv, FlagReady
      <4>2. /\ new.chain = <<"overrides", "freeze">> /\ new.values = life
            /\ new.level = IF old.asked # "unset" THEN old.level ELSE level
            /\ new.asked = old.asked /\ new.context = old.context
        BY <4>1, FreezeFirstIs
      <4> QED
        BY <4>2 DEF old, new
    <3> QED
      BY <2>3, <2>4, <3>2, <3>4
  <2>10. ASSUME NEW u \in Threads, pc'[u] = "core"
         PROVE  freeze'.level = IF call'[u].level = "unset" THEN "none" ELSE call'[u].level
    <3>1. u = t
      BY <2>2, <2>4, <2>10
    <3>2. call'[t].level = call[t].level
      BY <2>4
    <3>3. freeze.level = "none"
      BY <2>2
    <3> QED
      BY <2>4, <3>1, <3>2, <3>3 DEF level
  <2> QED
    BY <2>3, <2>5, <2>6, <2>8, <2>9, <2>10
<1>5. ASSUME NEW t \in Threads, CoreFails(t)
      PROVE  ReadyInv'
  BY <1>5 DEF CoreFails, CoreFailsTo, Goto
<1>6. ASSUME NEW t \in Threads, CoreSetup(t)
      PROVE  ReadyInv'
  BY <1>6 DEF CoreSetup, Goto
<1>7. ASSUME NEW t \in Threads, Unfreeze(t)
      PROVE  ReadyInv'
  <2>1. /\ core'.flags = core.flags /\ core'.callbacks = core.callbacks
        /\ core'.context = core.context /\ freeze'.level = freeze.level
        /\ UNCHANGED <<rox, pc, call, overrides>>
    BY <1>7 DEF Unfreeze
  <2>2. ASSUME NEW f \in Registered(core)
        PROVE  /\ flag'[f].chain = flag[f].chain /\ flag'[f].values = flag[f].values
               /\ flag'[f].level = flag[f].level /\ flag'[f].asked = flag[f].asked
               /\ flag'[f].context = flag[f].context
    <3>1. f \in DOMAIN flag /\ DOMAIN flag[f] = DOMAIN NewFlag
      BY RegisteredExist
    <3>2. flag'[f] = [flag[f] EXCEPT !.frozen = FALSE]
      BY <1>7, <3>1 DEF Unfreeze
    <3> QED
      BY <3>1, <3>2 DEF NewFlag
  <2>3. ReadyInv
    OBVIOUS
  <2> HIDE DEF ReadyInv, Registered
  <2> QED
    BY <2>1, <2>2, <2>3, ReadyStays
<1>8. ASSUME NEW t \in Threads, Notify(t)
      PROVE  ReadyInv'
  BY <1>8 DEF Notify, Goto
<1>9. ASSUME NEW t \in Threads, HandlerReturns(t)
      PROVE  ReadyInv'
  BY <1>9 DEF HandlerReturns, Goto
<1>10. ASSUME NEW t \in Threads, Fetched(t)
      PROVE  ReadyInv'
  <2>1. /\ UNCHANGED <<core, freeze, overrides, flag, call>> /\ ReadyInv
        /\ rox'.context = rox.context /\ (Up' <=> Up)
    BY <1>10 DEF Fetched
  <2>2. \A u \in Threads : pc'[u] = "core" => pc[u] = "core" /\ call'[u] = call[u]
    BY <1>10 DEF Fetched, Goto
  <2> HIDE DEF ReadyInv, Registered, Up
  <2> QED
    BY <2>1, <2>2, ReadyStays
<1>11. ASSUME NEW t \in Threads, Unlock(t)
      PROVE  ReadyInv'
  BY <1>11 DEF Unlock, Goto
<1>12. ASSUME NEW t \in Threads, Return(t)
      PROVE  ReadyInv'
  BY <1>12 DEF Return, Goto
<1>13. ASSUME NEW t \in Threads, NEW v \in BOOLEAN, CallSetupPlain(t, v)
      PROVE  ReadyInv'
  <2>1. UNCHANGED <<rox, core, freeze, overrides, flag>> /\ ReadyInv
    BY <1>13 DEF CallSetupPlain
  <2>2. \A u \in Threads : pc'[u] = "core" => pc[u] = "core" /\ call'[u] = call[u]
    BY <1>13 DEF CallSetupPlain, Goto
  <2>3. Up' <=> Up
    BY <2>1
  <2> HIDE DEF ReadyInv, Registered, Up
  <2> QED
    BY <2>1, <2>2, <2>3, ReadyStays
<1>14. ASSUME NEW t \in Threads, NEW v \in BOOLEAN, NEW l \in DefaultFreezes,
             CallSetup(t, v, l)
      PROVE  ReadyInv'
  <2>1. UNCHANGED <<rox, core, freeze, overrides, flag>> /\ ReadyInv
    BY <1>14 DEF CallSetup
  <2>2. \A u \in Threads : pc'[u] = "core" => pc[u] = "core" /\ call'[u] = call[u]
    BY <1>14 DEF CallSetup, Goto
  <2>3. Up' <=> Up
    BY <2>1
  <2> HIDE DEF ReadyInv, Registered, Up
  <2> QED
    BY <2>1, <2>2, <2>3, ReadyStays
<1>15. ASSUME NEW t \in Threads, NEW n \in Names, DynamicRead(t, n)
      PROVE  ReadyInv'
  <2>1. /\ flag' = [flag EXCEPT ![Number("flag")] = Announced]
        /\ core' = [core EXCEPT !.flags[n] = Number("flag")]
        /\ UNCHANGED <<rox, freeze, overrides, pc, call>> /\ Creatable("flag")
    BY <1>15 DEF DynamicRead
  <2>2. Up' <=> Up
    BY <2>1
  <2> HIDE DEF ReadyInv, TypeOK, LockInv, Up
  <2> QED
    BY <2>1, <2>2, AdditionReady, AnnouncedReady
<1>16. ASSUME NEW t \in Threads, NEW n \in Names, NEW l \in Levels, AddFlag(t, n, l)
      PROVE  ReadyInv'
  <2> DEFINE new == IF l = "unset" THEN Announced ELSE AddFreeze(Announced, l)
  <2>1. /\ rox'.context = rox.context /\ (Up' <=> Up)
        /\ UNCHANGED <<freeze, overrides, pc, call>> /\ Creatable("flag")
    BY <1>16 DEF AddFlag
  <2>2. CASE Taken(n)
    <3>1. core' = core /\ flag' = flag
      BY <1>16, <2>2 DEF AddFlag
    <3> HIDE DEF ReadyInv, Up
    <3> QED
      BY <2>1, <3>1, ReadyStays DEF Inv
  <2>3. CASE ~Taken(n)
    <3>1. /\ flag' = [flag EXCEPT ![Number("flag")] = new]
          /\ core' = [core EXCEPT !.flags[n] = Number("flag")]
      BY <1>16, <2>3 DEF AddFlag
    <3> HIDE DEF ReadyInv, TypeOK, LockInv, Up
    <3> QED
      BY <2>1, <3>1, AdditionReady, AnnouncedReady
  <2> QED
    BY <2>2, <2>3
<1>17. ASSUME NEW t \in Threads, NEW f \in DOMAIN flag, Evaluate(t, f)
      PROVE  ReadyInv'
  <2>1. \A g \in Registered(core) :
          /\ flag'[g].chain = flag[g].chain /\ flag'[g].values = flag[g].values
          /\ flag'[g].level = flag[g].level /\ flag'[g].asked = flag[g].asked
          /\ flag'[g].context = flag[g].context
    BY <1>17, RegisteredExist DEF Evaluate, NewFlag
  <2>2. UNCHANGED <<rox, core, freeze, overrides, pc, call>> /\ ReadyInv
    BY <1>17 DEF Evaluate
  <2>3. Up' <=> Up
    BY <2>2
  <2> HIDE DEF ReadyInv, Registered, Up
  <2> QED
    BY <2>1, <2>2, <2>3, ReadyStays
<1>18. ASSUME NEW t \in Threads, SetProperty(t)
      PROVE  ReadyInv'
  <2>1. /\ core'.flags = core.flags /\ core'.callbacks = core.callbacks
        /\ core'.context = core.context
        /\ UNCHANGED <<freeze, pc, call, overrides, flag>>
    BY <1>18 DEF SetProperty, AddCustomProperty
  <2>2. rox'.context = rox.context /\ (Up' <=> Up)
    BY <1>18 DEF SetProperty
  <2>3. ReadyInv
    OBVIOUS
  <2> HIDE DEF ReadyInv, Registered, Up
  <2> QED
    BY <2>1, <2>2, <2>3, ReadyStays
<1>19. ASSUME NEW t \in Threads, SetContext(t)
      PROVE  ReadyInv'
  <2>1. CASE rox.state = "initialized"
    <3>1. SetCoreContext(Number("context")) /\ rox' = [rox EXCEPT !.context = Number("context")]
      BY <1>19, <2>1 DEF SetContext
    <3>2. UNCHANGED <<freeze, overrides, pc, call>>
      BY <1>19 DEF SetContext
    <3> HIDE DEF ReadyInv, TypeOK, LockInv
    <3> QED
      BY <2>1, <3>1, <3>2, ContextReaches
  <2>2. CASE rox.state # "initialized"
    <3>1. UNCHANGED <<rox, core, freeze, overrides, flag, pc, call>> /\ ReadyInv
      BY <1>19, <2>2 DEF SetContext
    <3>2. Up' <=> Up
      BY <3>1
    <3> HIDE DEF ReadyInv, Registered, Up
    <3> QED
      BY <3>1, <3>2, ReadyStays
  <2> QED
    BY <2>1, <2>2
<1>20. ASSUME NEW t \in Threads, ClearContext(t)
      PROVE  ReadyInv'
  <2>1. /\ SetCoreContext(0) /\ rox' = [rox EXCEPT !.context = 0]
        /\ rox.state = "initialized" /\ UNCHANGED <<freeze, overrides, pc, call>>
    BY <1>20 DEF ClearContext
  <2> HIDE DEF ReadyInv, TypeOK, LockInv
  <2> QED
    BY <2>1, ContextReaches
<1>21. ASSUME NEW t \in Threads, Fetch(t)
      PROVE  ReadyInv'
  BY <1>21 DEF Fetch, Goto
<1>22. ASSUME NEW t \in Threads, Shutdown(t)
      PROVE  ReadyInv'
  <2>1. rox' = NoRox /\ core' = NewCore /\ freeze' = NoFreeze /\ pc' = pc
    BY <1>22 DEF Shutdown, Reset, ResetOf
  <2>2. \A u \in Threads : pc'[u] # "core"
    BY <1>22, <2>1 DEF Shutdown
  <2> QED
    BY <2>1, <2>2, ResetReady
<1>23. CASE UNCHANGED vars
  BY <1>23 DEF vars
<1> HIDE DEF Inv, TypeOK, RoxOK, CoreOK, Places, LockInv, Locks, Telling, MayCall, NoRox,
        NewCore, States, Exists, Counted, ReadyInv, FlagReady, Registered, Up, threadVars,
        roxVars, heapVars
<1> QED
  <2>1. ASSUME NEW t \in Threads, SetupStep(t)
        PROVE  ReadyInv'
    BY <2>1, <1>1, <1>2, <1>3, <1>4, <1>5, <1>6, <1>7, <1>8, <1>9, <1>10, <1>11, <1>12
       DEF SetupStep
  <2>2. ASSUME NEW t \in Threads, NEW v \in BOOLEAN,
               CallSetupPlain(t, v) \/ \E l \in DefaultFreezes : CallSetup(t, v, l)
        PROVE  ReadyInv'
    BY <2>2, <1>13, <1>14
  <2>3. ASSUME NEW t \in Threads, NEW n \in Names,
               DynamicRead(t, n) \/ \E l \in Levels : AddFlag(t, n, l)
        PROVE  ReadyInv'
    BY <2>3, <1>15, <1>16
  <2> QED
    BY <2>1, <2>2, <2>3, <1>17, <1>18, <1>19, <1>20, <1>21, <1>22, <1>23 DEF Next

\* The handlers of the first fetch, in their turn.
LEMMA FirstHandlers ==
  /\ Append(<<"unfreeze">>, "application") = <<"unfreeze", "application">>
  /\ \A s \in {<<"unfreeze", "application">>, <<"application">>} :
       /\ s # <<>>
       /\ Head(s) = "unfreeze" => s = <<"unfreeze", "application">> /\ Tail(s) = <<"application">>
       /\ Head(s) = "application" => s = <<"application">> /\ Tail(s) = <<>>
<1>1. Append(<<"unfreeze">>, "application") = <<"unfreeze", "application">>
  <2> DEFINE s == Append(<<"unfreeze">>, "application")
             u == <<"unfreeze", "application">>
             Handlers == {"unfreeze", "application"}
  <2>1. s \in Seq(Handlers) /\ Len(s) = 2 /\ s[1] = "unfreeze" /\ s[2] = "application"
    OBVIOUS
  <2>2. u \in Seq(Handlers) /\ Len(u) = 2 /\ u[1] = "unfreeze" /\ u[2] = "application"
    OBVIOUS
  <2> HIDE DEF s, u
  <2>3. \A i \in 1 .. 2 : s[i] = u[i]
    BY <2>1, <2>2
  <2>4. s = u
    BY <2>1, <2>2, <2>3, SeqEqual
  <2> QED
    BY <2>4 DEF s, u
<1>2. /\ <<"unfreeze", "application">> # <<>> /\ Head(<<"unfreeze", "application">>) = "unfreeze"
      /\ Tail(<<"unfreeze", "application">>) = <<"application">>
  OBVIOUS
<1>3. /\ <<"application">> # <<>> /\ Head(<<"application">>) = "application"
      /\ Tail(<<"application">>) = <<>>
  OBVIOUS
<1>4. "unfreeze" # "application"
  OBVIOUS
<1> QED
  BY <1>1, <1>2, <1>3, <1>4

\* No flag is evaluated between the two handlers of the first fetch.
LEMMA FetchKept ==
  ASSUME Inv, [Next]_vars
  PROVE  FetchInv'
<1> USE GetOrCreate
    DEF Inv, TypeOK, RoxOK, CoreOK, Places, LockInv, Locks, Telling, MayCall, NoRox, NewCore,
        States, Exists, Counted, FetchInv, Registered, threadVars, roxVars, heapVars
<1>1. ASSUME NEW t \in Threads, Lock(t)
      PROVE  FetchInv'
  BY <1>1 DEF Lock, Goto
<1>2. ASSUME NEW t \in Threads, Refuse(t)
      PROVE  FetchInv'
  BY <1>2 DEF Refuse, Goto
<1>3. ASSUME NEW t \in Threads, Retry(t)
      PROVE  FetchInv'
  BY <1>3 DEF Retry, Reset, ResetOf
<1>4. ASSUME NEW t \in Threads, Begin(t)
      PROVE  FetchInv'
  <2>1. /\ pc[t] = "enter" /\ rox.state \in {"none", "uninitialized"}
        /\ pc' = [pc EXCEPT ![t] = "core"]
    BY <1>4 DEF Begin, BeginWrapping, Goto
  <2>2. core'.handlers = <<"unfreeze">>
    BY <1>4 DEF Begin, BeginWrapping
  <2>3. \A u \in Threads : pc'[u] \notin {"notify", "handler"}
    BY <2>1
  <2> QED
    BY <2>2, <2>3
<1>5. ASSUME NEW t \in Threads, CoreFails(t)
      PROVE  FetchInv'
  BY <1>5 DEF CoreFails, CoreFailsTo, Goto
<1>6. ASSUME NEW t \in Threads, CoreSetup(t)
      PROVE  FetchInv'
  <2>1. /\ pc[t] = "core" /\ pc' = [pc EXCEPT ![t] = "notify"]
        /\ left' = Append(core.handlers, "application") /\ rox' = rox
    BY <1>6 DEF CoreSetup, Goto
  <2>2. rox.state = "settingUp" /\ core.handlers = <<"unfreeze">>
    BY <2>1
  <2>3. left' = <<"unfreeze", "application">>
    BY <2>1, <2>2, FirstHandlers
  <2>4. ASSUME NEW u \in Threads
        PROVE  pc'[u] \in {"core", "notify", "handler"} => u = t
    BY <2>1, <2>2
  <2> QED
    BY <2>1, <2>3, <2>4
<1>7. ASSUME NEW t \in Threads, Unfreeze(t)
      PROVE  FetchInv'
  <2>1. SUFFICES ASSUME rox.state = "settingUp"
        PROVE  FetchInv'
    BY <1>7 DEF Unfreeze
  <2>2. /\ pc[t] = "notify" /\ left # <<>> /\ Head(left) = "unfreeze" /\ left' = Tail(left)
        /\ pc' = pc /\ core'.flags = core.flags
    BY <1>7 DEF Unfreeze
  <2>3. left' = <<"application">>
    BY <2>1, <2>2, FirstHandlers
  <2>4. \A f \in Registered(core) : ~flag'[f].frozen
    BY <1>7, RegisteredExist DEF Unfreeze, NewFlag
  <2>5. \A u \in Threads : pc[u] \in {"core", "notify", "handler"} => u = t
    BY <2>1, <2>2
  <2>6. \A f \in Registered(core') : ~flag'[f].frozen
    BY <2>2, <2>4
  <2> HIDE DEF Registered
  <2> QED
    BY <2>2, <2>3, <2>5, <2>6
<1>8. ASSUME NEW t \in Threads, Notify(t)
      PROVE  FetchInv'
  <2>1. SUFFICES ASSUME rox.state = "settingUp"
        PROVE  FetchInv'
    BY <1>8 DEF Notify
  <2>2. /\ pc[t] = "notify" /\ left # <<>> /\ Head(left) = "application"
        /\ left' = Tail(left) /\ pc' = [pc EXCEPT ![t] = "handler"]
    BY <1>8 DEF Notify, Goto
  <2>3. left' = <<>>
    BY <2>1, <2>2, FirstHandlers
  <2>4. \A u \in Threads : pc'[u] \in {"core", "notify", "handler"} => u = t
    BY <2>1, <2>2
  <2> QED
    BY <2>2, <2>3, <2>4
<1>9. ASSUME NEW t \in Threads, HandlerReturns(t)
      PROVE  FetchInv'
  BY <1>9 DEF HandlerReturns, Goto
<1>10. ASSUME NEW t \in Threads, Fetched(t)
      PROVE  FetchInv'
  BY <1>10 DEF Fetched, Goto
<1>11. ASSUME NEW t \in Threads, Unlock(t)
      PROVE  FetchInv'
  BY <1>11 DEF Unlock, Goto
<1>12. ASSUME NEW t \in Threads, Return(t)
      PROVE  FetchInv'
  BY <1>12 DEF Return, Goto
<1>13. ASSUME NEW t \in Threads, NEW v \in BOOLEAN, CallSetupPlain(t, v)
      PROVE  FetchInv'
  BY <1>13 DEF CallSetupPlain, Goto
<1>14. ASSUME NEW t \in Threads, NEW v \in BOOLEAN, NEW l \in DefaultFreezes,
             CallSetup(t, v, l)
      PROVE  FetchInv'
  BY <1>14 DEF CallSetup, Goto
<1>15. ASSUME NEW t \in Threads, NEW n \in Names, DynamicRead(t, n)
      PROVE  FetchInv'
  BY <1>15 DEF DynamicRead
<1>16. ASSUME NEW t \in Threads, NEW n \in Names, NEW l \in Levels, AddFlag(t, n, l)
      PROVE  FetchInv'
  BY <1>16 DEF AddFlag
<1>17. ASSUME NEW t \in Threads, NEW f \in DOMAIN flag, Evaluate(t, f)
      PROVE  FetchInv'
  BY <1>17 DEF Evaluate
<1>18. ASSUME NEW t \in Threads, SetProperty(t)
      PROVE  FetchInv'
  BY <1>18 DEF SetProperty, AddCustomProperty
<1>19. ASSUME NEW t \in Threads, SetContext(t)
      PROVE  FetchInv'
  BY <1>19 DEF SetContext, SetCoreContext
<1>20. ASSUME NEW t \in Threads, ClearContext(t)
      PROVE  FetchInv'
  BY <1>20 DEF ClearContext, SetCoreContext
<1>21. ASSUME NEW t \in Threads, Fetch(t)
      PROVE  FetchInv'
  BY <1>21 DEF Fetch, Goto
<1>22. ASSUME NEW t \in Threads, Shutdown(t)
      PROVE  FetchInv'
  BY <1>22 DEF Shutdown, Reset, ResetOf
<1>23. CASE UNCHANGED vars
  BY <1>23 DEF vars
<1> HIDE DEF Inv, TypeOK, RoxOK, CoreOK, Places, LockInv, Locks, Telling, MayCall, NoRox,
        NewCore, States, Exists, Counted, FetchInv, Registered, threadVars, roxVars, heapVars
<1> QED
  <2>1. ASSUME NEW t \in Threads, SetupStep(t)
        PROVE  FetchInv'
    BY <2>1, <1>1, <1>2, <1>3, <1>4, <1>5, <1>6, <1>7, <1>8, <1>9, <1>10, <1>11, <1>12
       DEF SetupStep
  <2>2. ASSUME NEW t \in Threads, NEW v \in BOOLEAN,
               CallSetupPlain(t, v) \/ \E l \in DefaultFreezes : CallSetup(t, v, l)
        PROVE  FetchInv'
    BY <2>2, <1>13, <1>14
  <2>3. ASSUME NEW t \in Threads, NEW n \in Names,
               DynamicRead(t, n) \/ \E l \in Levels : AddFlag(t, n, l)
        PROVE  FetchInv'
    BY <2>3, <1>15, <1>16
  <2> QED
    BY <2>1, <2>2, <2>3, <1>17, <1>18, <1>19, <1>20, <1>21, <1>22, <1>23 DEF Next

\* The application's handler is called where its turn comes.
HandlerIsTold == \A u \in Threads : pc[u] = "notify" /\ pc'[u] = "handler" => Notify(u)

\* No other step calls it.
LEMMA OnlyNotify ==
  ASSUME Inv, [Next]_vars
  PROVE  HandlerIsTold
<1> USE DEF Inv, TypeOK, HandlerIsTold, threadVars
<1>1. ASSUME NEW t \in Threads, Lock(t)
      PROVE  HandlerIsTold
  BY <1>1 DEF Lock, Goto
<1>2. ASSUME NEW t \in Threads, Refuse(t)
      PROVE  HandlerIsTold
  BY <1>2 DEF Refuse, Goto
<1>3. ASSUME NEW t \in Threads, Retry(t)
      PROVE  HandlerIsTold
  BY <1>3 DEF Retry, Reset, ResetOf
<1>4. ASSUME NEW t \in Threads, Begin(t)
      PROVE  HandlerIsTold
  BY <1>4 DEF Begin, BeginWrapping, Goto
<1>5. ASSUME NEW t \in Threads, CoreFails(t)
      PROVE  HandlerIsTold
  BY <1>5 DEF CoreFails, CoreFailsTo, Goto
<1>6. ASSUME NEW t \in Threads, CoreSetup(t)
      PROVE  HandlerIsTold
  BY <1>6 DEF CoreSetup, Goto
<1>7. ASSUME NEW t \in Threads, Unfreeze(t)
      PROVE  HandlerIsTold
  BY <1>7 DEF Unfreeze
<1>8. ASSUME NEW t \in Threads, Notify(t)
      PROVE  HandlerIsTold
  BY <1>8 DEF Notify, Goto
<1>9. ASSUME NEW t \in Threads, HandlerReturns(t)
      PROVE  HandlerIsTold
  BY <1>9 DEF HandlerReturns, Goto
<1>10. ASSUME NEW t \in Threads, Fetched(t)
      PROVE  HandlerIsTold
  BY <1>10 DEF Fetched, Goto
<1>11. ASSUME NEW t \in Threads, Unlock(t)
      PROVE  HandlerIsTold
  BY <1>11 DEF Unlock, Goto
<1>12. ASSUME NEW t \in Threads, Return(t)
      PROVE  HandlerIsTold
  BY <1>12 DEF Return, Goto
<1>13. ASSUME NEW t \in Threads, NEW v \in BOOLEAN, CallSetupPlain(t, v)
      PROVE  HandlerIsTold
  BY <1>13 DEF CallSetupPlain, Goto
<1>14. ASSUME NEW t \in Threads, NEW v \in BOOLEAN, NEW l \in DefaultFreezes,
             CallSetup(t, v, l)
      PROVE  HandlerIsTold
  BY <1>14 DEF CallSetup, Goto
<1>15. ASSUME NEW t \in Threads, NEW n \in Names, DynamicRead(t, n)
      PROVE  HandlerIsTold
  BY <1>15 DEF DynamicRead
<1>16. ASSUME NEW t \in Threads, NEW n \in Names, NEW l \in Levels, AddFlag(t, n, l)
      PROVE  HandlerIsTold
  BY <1>16 DEF AddFlag
<1>17. ASSUME NEW t \in Threads, NEW f \in DOMAIN flag, Evaluate(t, f)
      PROVE  HandlerIsTold
  BY <1>17 DEF Evaluate
<1>18. ASSUME NEW t \in Threads, SetProperty(t)
      PROVE  HandlerIsTold
  BY <1>18 DEF SetProperty, AddCustomProperty
<1>19. ASSUME NEW t \in Threads, SetContext(t)
      PROVE  HandlerIsTold
  BY <1>19 DEF SetContext, SetCoreContext
<1>20. ASSUME NEW t \in Threads, ClearContext(t)
      PROVE  HandlerIsTold
  BY <1>20 DEF ClearContext, SetCoreContext
<1>21. ASSUME NEW t \in Threads, Fetch(t)
      PROVE  HandlerIsTold
  BY <1>21 DEF Fetch, Goto
<1>22. ASSUME NEW t \in Threads, Shutdown(t)
      PROVE  HandlerIsTold
  BY <1>22 DEF Shutdown, Reset, ResetOf
<1>23. CASE UNCHANGED vars
  BY <1>23 DEF vars
<1> HIDE DEF Inv, TypeOK, HandlerIsTold, threadVars
<1> QED
  <2>1. ASSUME NEW t \in Threads, SetupStep(t)
        PROVE  HandlerIsTold
    BY <2>1, <1>1, <1>2, <1>3, <1>4, <1>5, <1>6, <1>7, <1>8, <1>9, <1>10, <1>11, <1>12
       DEF SetupStep
  <2>2. ASSUME NEW t \in Threads, NEW v \in BOOLEAN,
               CallSetupPlain(t, v) \/ \E l \in DefaultFreezes : CallSetup(t, v, l)
        PROVE  HandlerIsTold
    BY <2>2, <1>13, <1>14
  <2>3. ASSUME NEW t \in Threads, NEW n \in Names,
               DynamicRead(t, n) \/ \E l \in Levels : AddFlag(t, n, l)
        PROVE  HandlerIsTold
    BY <2>3, <1>15, <1>16
  <2> QED
    BY <2>1, <2>2, <2>3, <1>17, <1>18, <1>19, <1>20, <1>21, <1>22, <1>23 DEF Next

-----------------------------------------------------------------------------
(***************************************************************************)
(* Memory, when the SDK is not reset while a rox_setup is returning.       *)
(***************************************************************************)

\* Two objects are the same when their kinds and their numbers are.
LEMMA Pairs ==
  \A k, l, a, b : <<k, a>> = <<l, b>> <=> k = l /\ a = b
OBVIOUS

\* The options a rox_setup makes are not the application's.
LEMMA OwnOptions ==
  /\ \A a, b : <<"own options", a>> # <<"options", b>> /\ <<"own options", a>> # Null
  /\ \A a : <<"own options", a>> \notin Made("options", "setup")
<1>1. "own options" # "options" /\ "own options" # "null"
  OBVIOUS
<1>2. \A a, b : <<"own options", a>> # <<"options", b>> /\ <<"own options", a>> # Null
  BY <1>1, Pairs DEF Null
<1>3. \A o \in Made("options", "setup") : \E k : o = <<"options", k>>
  BY DEF Made
<1> QED
  BY <1>2, <1>3

\* The options a Rox gets are not those of another call that waits.
LEMMA NotTheirs ==
  ASSUME NEW t, NEW u, u # t, CallOK(u), Apart(u, t), Waits(t),
         NEW life, NEW opts, opts = call[t].options \/ opts = <<"own options", life>>
  PROVE  Waits(u) /\ call[u].options # Null => call[u].options # opts
<1>1. CASE opts = call[t].options
  BY <1>1 DEF Apart
<1>2. CASE opts = <<"own options", life>>
  BY <1>2, OwnOptions, Zenon DEF CallOK
<1> QED
  BY <1>1, <1>2

\* The Rox a call gets, against the one there was.
LEMMA GotKeeps ==
  ASSUME TypeOK
  PROVE  /\ Rox.options = rox.options /\ Rox.context = rox.context
         /\ Exists => Rox = rox
         /\ Rox.state \in {rox.state, "uninitialized"}
         /\ Rox.state = "settingUp" <=> rox.state = "settingUp"
         /\ Rox.state \in {"settingUp", "initialized", "error"} <=> Up
<1> USE DEF TypeOK, RoxOK, Rox, Exists, NoRox, States, Up
<1>1. CASE Exists
  BY <1>1
<1>2. CASE ~Exists
  BY <1>2
<1> QED
  BY <1>1, <1>2

\* A step that leaves the Rox's own fields and the statics as they are.
Quiet ==
  /\ rox'.life = rox.life /\ rox'.context = rox.context /\ rox'.options = rox.options
  /\ Up' <=> Up
  /\ core'.property = core.property /\ core'.flags = core.flags
  /\ freeze'.repository = freeze.repository /\ freeze'.invoker = freeze.invoker
  /\ UNCHANGED <<lives, overrides>>

\* No object more of any kind, or one.
Grown == \A k \in Counted : created'[k] \in {created[k], created[k] + 1}

\* What was made stays made.
LEMMA MadeStays ==
  ASSUME TypeOK, Grown, NEW kind, NEW counter \in Counted
  PROVE  Made(kind, counter) \subseteq Made(kind, counter)'
<1>1. created[counter] \in Nat /\ created'[counter] \in Nat /\ created[counter] <= created'[counter]
  BY DEF TypeOK, Grown
<1> QED
  BY <1>1 DEF Made

\* What such a step leaves alone.
LEMMA QuietOwn ==
  ASSUME TypeOK, OwnInv, Quiet, Grown
  PROVE  OwnInv'
<1>1. Registered(core') = Registered(core)
  BY DEF Quiet, Registered
<1>2. /\ "setup" \in Counted /\ "property" \in Counted /\ "context" \in Counted
      /\ created["context"] \in Nat /\ created'["context"] \in Nat
      /\ created["context"] <= created'["context"]
  BY DEF Counted, TypeOK, Grown
<1>3. /\ Made("options", "setup") \subseteq Made("options", "setup")'
      /\ Made("property", "property") \subseteq Made("property", "property")'
  BY <1>2, MadeStays
<1>4. rox'.context \in 0 .. created'["context"]
  <2>1. rox.context \in 0 .. created["context"] /\ rox'.context = rox.context
    BY DEF Quiet, OwnInv
  <2> QED
    BY <1>2, <2>1
<1> QED
  BY <1>1, <1>3, <1>4 DEF Quiet, OwnInv

\* What can be lost.
LEMMA LosableIs ==
  \A k, n : <<k, n>> \in Losable <=> \/ k = "options" /\ n \in 1 .. created["setup"]
                                     \/ k = "context" /\ n \in 1 .. created["context"]
                                     \/ k = "flag" /\ n \in 1 .. created["flag"]
                                     \/ k = "built-in" /\ n \in 1 .. lives
<1> SUFFICES ASSUME NEW k, NEW n
             PROVE  <<k, n>> \in Losable <=> \/ k = "options" /\ n \in 1 .. created["setup"]
                                             \/ k = "context" /\ n \in 1 .. created["context"]
                                             \/ k = "flag" /\ n \in 1 .. created["flag"]
                                             \/ k = "built-in" /\ n \in 1 .. lives
  OBVIOUS
<1>1. \A kind, counter :
        <<k, n>> \in Made(kind, counter) <=> k = kind /\ n \in 1 .. created[counter]
  BY Pairs DEF Made
<1>2. <<k, n>> \in {<<"built-in", l>> : l \in 1 .. lives} <=> k = "built-in" /\ n \in 1 .. lives
  BY Pairs
<1> QED
  BY <1>1, <1>2 DEF Losable

\* What could be lost still can.
LEMMA LosableStays ==
  ASSUME TypeOK, Grown, lives' \in Nat, lives <= lives'
  PROVE  Losable \subseteq Losable'
<1>1. /\ Made("options", "setup") \subseteq Made("options", "setup")'
      /\ Made("context", "context") \subseteq Made("context", "context")'
      /\ Made("flag", "flag") \subseteq Made("flag", "flag")'
  BY MadeStays DEF Counted
<1>2. 1 .. lives \subseteq 1 .. lives'
  BY DEF TypeOK
<1>3. {<<"built-in", l>> : l \in 1 .. lives} \subseteq {<<"built-in", l>> : l \in 1 .. lives'}
  BY <1>2
<1> QED
  BY <1>1, <1>3 DEF Losable

\* Objects are freed, made and lost.
LEMMA Exchanged ==
  ASSUME MemoryInv, abandoned \cap Live = {}, NEW gone, NEW new, NEW lost,
         gone \cap abandoned = {}, new \cap abandoned = {}, lost \subseteq Live \cup new,
         lost \cap gone = {},
         allocated' = (allocated \ gone) \cup new, abandoned' = abandoned \cup lost,
         Live' = ((Live \ gone) \cup new) \ lost
  PROVE  MemoryInv' /\ abandoned' \cap Live' = {}
<1> QED
  BY DEF MemoryInv

\* Nothing is made, freed or lost.
LEMMA QuietLive ==
  ASSUME TypeOK, LostInv, MemoryInv, Quiet, Grown, Asked' = Asked,
         UNCHANGED <<allocated, abandoned>>
  PROVE  LostInv' /\ MemoryInv'
<1>1. Registered(core') = Registered(core)
  BY DEF Quiet, Registered
<1>2. /\ RoxObjects' = RoxObjects /\ OwnObjects' = OwnObjects /\ Given' = Given
      /\ ContextObject' = ContextObject
  BY DEF Quiet, RoxObjects, OwnObjects, ContextObject, Given, Exists
<1>3. FlagObjects' = FlagObjects
  BY <1>1 DEF FlagObjects
<1>4. Live' = Live
  BY <1>2, <1>3 DEF Live
<1>5. Losable \subseteq Losable'
  BY LosableStays DEF Quiet, TypeOK
<1> QED
  BY <1>4, <1>5 DEF LostInv, MemoryInv, Quiet

\* No call of rox_setup begins or gets its Rox.
LEMMA CallStays ==
  ASSUME CallInv, Grown, TypeOK, call' = call, rox'.options = rox.options,
         Exists => rox'.life = rox.life,
         \A t \in Threads : /\ Waits(t)' => Waits(t)
                            /\ Inside(t)' => Inside(t)
                            /\ pc'[t] = "refused" => pc[t] = "refused" \/ Exists
  PROVE  CallInv'
<1>1. Made("options", "setup") \subseteq Made("options", "setup")'
  BY MadeStays DEF Counted
<1>2. Exists /\ rox'.life = rox.life => Exists'
  BY DEF Exists
<1>3. ASSUME NEW t \in Threads
      PROVE  CallOK(t)'
  <2>1. CallOK(t)
    BY DEF CallInv
  <2> QED
    BY <1>1, <1>2, <2>1 DEF CallOK
<1>4. ASSUME NEW t \in Threads, NEW u \in Threads
      PROVE  Apart(t, u)'
  <2>1. Apart(t, u)
    BY DEF CallInv
  <2> QED
    BY <2>1 DEF Apart
<1> QED
  BY <1>3, <1>4 DEF CallInv

\* A reset, when no call of rox_setup has its Rox or is refused it.
LEMMA CallReset ==
  ASSUME CallInv, call' = call, pc' = pc, created' = created, rox' = NoRox,
         \A t \in Threads : ~Inside(t)' /\ pc[t] # "refused"
  PROVE  CallInv'
<1>1. Made("options", "setup")' = Made("options", "setup")
  BY DEF Made
<1>2. rox'.options = Null
  BY DEF NoRox
<1>3. ASSUME NEW t \in Threads
      PROVE  CallOK(t)'
  <2>1. CallOK(t)
    BY DEF CallInv
  <2> QED
    BY <1>1, <1>2, <2>1 DEF CallOK
<1>4. ASSUME NEW t \in Threads, NEW u \in Threads
      PROVE  Apart(t, u)'
  <2>1. Apart(t, u)
    BY DEF CallInv
  <2> QED
    BY <2>1 DEF Apart, Waits
<1> QED
  BY <1>3, <1>4 DEF CallInv

\* A call that begins, with options nobody has or without, and one that ends.
LEMMA CallChanges ==
  ASSUME CallInv, OwnInv, Grown, TypeOK, rox' = rox, NEW t \in Threads, NEW new,
         call' = [call EXCEPT ![t] = new], DOMAIN new = DOMAIN NoCall,
         \A u \in Threads : u # t => pc'[u] = pc[u],
         pc'[t] \in {"out", "lock"},
         \/ new.options = Null
         \/ /\ new.options = <<"options", Number("setup")>>
            /\ created'["setup"] = Number("setup")
  PROVE  CallInv'
<1>1. Made("options", "setup") \subseteq Made("options", "setup")'
  BY MadeStays DEF Counted
<1>2. created["setup"] \in Nat
  BY DEF TypeOK, Counted
<1>3. /\ new.options \in {Null} \cup Made("options", "setup")'
      /\ new.options # Null => new.options \notin Made("options", "setup")
  <2>1. CASE new.options = Null
    BY <2>1
  <2>2. CASE new.options = <<"options", Number("setup")>> /\ created'["setup"] = Number("setup")
    BY <1>2, <2>2 DEF Made, Number
  <2> QED
    BY <2>1, <2>2
<1>4. new.options # Null => new.options # rox.options
  <2>1. rox.options \in {Null, <<"own options", rox.life>>} \cup Made("options", "setup")
    BY DEF OwnInv
  <2>2. new.options # Null => new.options # <<"own options", rox.life>>
    BY OwnOptions, Zenon
  <2> QED
    BY <1>3, <2>1, <2>2
<1>5. Exists' = Exists
  BY DEF Exists
<1>6. ASSUME NEW u \in Threads
      PROVE  /\ CallOK(u)
             /\ u # t => call'[u] = call[u] /\ Waits(u)' = Waits(u) /\ Inside(u)' = Inside(u)
             /\ u = t => call'[u] = new
  BY DEF CallInv, TypeOK, Waits, Inside, Locks
<1>7. ~Inside(t)' /\ pc'[t] # "refused"
  BY DEF Inside, Locks, Telling
<1>8. ASSUME NEW u \in Threads
      PROVE  CallOK(u)'
  BY <1>1, <1>3, <1>4, <1>5, <1>6, <1>7 DEF CallOK
<1>9. ASSUME NEW u \in Threads, NEW v \in Threads
      PROVE  Apart(u, v)'
  <2>1. Apart(u, v) /\ CallOK(u) /\ CallOK(v)
    BY DEF CallInv
  <2> QED
    BY <1>3, <1>6, <2>1 DEF Apart, CallOK
<1> QED
  BY <1>8, <1>9 DEF CallInv

\* Objects are made one by one.
LEMMA GrownBy ==
  ASSUME Inv, HeapInv, ~RacyRetries, [Next]_vars
  PROVE  Grown
<1> USE DEF Inv, TypeOK, Counted, Another, Grown, heapVars
<1>1. ASSUME NEW t \in Threads, Lock(t)
      PROVE  Grown
  BY <1>1 DEF Lock, Goto
<1>2. ASSUME NEW t \in Threads, Refuse(t)
      PROVE  Grown
  BY <1>2 DEF Refuse, Goto
<1>3. ASSUME NEW t \in Threads, Retry(t)
      PROVE  Grown
  BY <1>3 DEF Retry, Reset, ResetOf
<1>4. ASSUME NEW t \in Threads, Begin(t)
      PROVE  Grown
  BY <1>4 DEF Begin, BeginWrapping, Goto
<1>5. ASSUME NEW t \in Threads, CoreFails(t)
      PROVE  Grown
  BY <1>5 DEF CoreFails, CoreFailsTo, Goto
<1>6. ASSUME NEW t \in Threads, CoreSetup(t)
      PROVE  Grown
  BY <1>6 DEF CoreSetup, Goto
<1>7. ASSUME NEW t \in Threads, Unfreeze(t)
      PROVE  Grown
  BY <1>7 DEF Unfreeze
<1>8. ASSUME NEW t \in Threads, Notify(t)
      PROVE  Grown
  BY <1>8 DEF Notify, Goto
<1>9. ASSUME NEW t \in Threads, HandlerReturns(t)
      PROVE  Grown
  BY <1>9 DEF HandlerReturns, Goto
<1>10. ASSUME NEW t \in Threads, Fetched(t)
      PROVE  Grown
  BY <1>10 DEF Fetched, Goto
<1>11. ASSUME NEW t \in Threads, Unlock(t)
      PROVE  Grown
  BY <1>11 DEF Unlock, Goto
<1>12. ASSUME NEW t \in Threads, Return(t)
      PROVE  Grown
  BY <1>12 DEF Return, Goto
<1>13. ASSUME NEW t \in Threads, NEW v \in BOOLEAN, CallSetupPlain(t, v)
      PROVE  Grown
  BY <1>13 DEF CallSetupPlain, Goto
<1>14. ASSUME NEW t \in Threads, NEW v \in BOOLEAN, NEW l \in DefaultFreezes,
             CallSetup(t, v, l)
      PROVE  Grown
  BY <1>14 DEF CallSetup, Goto
<1>15. ASSUME NEW t \in Threads, NEW n \in Names, DynamicRead(t, n)
      PROVE  Grown
  BY <1>15 DEF DynamicRead
<1>16. ASSUME NEW t \in Threads, NEW n \in Names, NEW l \in Levels, AddFlag(t, n, l)
      PROVE  Grown
  BY <1>16 DEF AddFlag
<1>17. ASSUME NEW t \in Threads, NEW f \in DOMAIN flag, Evaluate(t, f)
      PROVE  Grown
  BY <1>17 DEF Evaluate
<1>18. ASSUME NEW t \in Threads, SetProperty(t)
      PROVE  Grown
  BY <1>18 DEF SetProperty, AddCustomProperty
<1>19. ASSUME NEW t \in Threads, SetContext(t)
      PROVE  Grown
  BY <1>19 DEF SetContext, SetCoreContext
<1>20. ASSUME NEW t \in Threads, ClearContext(t)
      PROVE  Grown
  BY <1>20 DEF ClearContext, SetCoreContext
<1>21. ASSUME NEW t \in Threads, Fetch(t)
      PROVE  Grown
  BY <1>21 DEF Fetch, Goto
<1>22. ASSUME NEW t \in Threads, Shutdown(t)
      PROVE  Grown
  BY <1>22 DEF Shutdown, Reset, ResetOf
<1>23. CASE UNCHANGED vars
  BY <1>23 DEF vars
<1> HIDE DEF Inv, TypeOK, Counted, Another, Grown, heapVars
<1> QED
  <2>1. ASSUME NEW t \in Threads, SetupStep(t)
        PROVE  Grown
    BY <2>1, <1>1, <1>2, <1>3, <1>4, <1>5, <1>6, <1>7, <1>8, <1>9, <1>10, <1>11, <1>12
       DEF SetupStep
  <2>2. ASSUME NEW t \in Threads, NEW v \in BOOLEAN,
               CallSetupPlain(t, v) \/ \E l \in DefaultFreezes : CallSetup(t, v, l)
        PROVE  Grown
    BY <2>2, <1>13, <1>14
  <2>3. ASSUME NEW t \in Threads, NEW n \in Names,
               DynamicRead(t, n) \/ \E l \in Levels : AddFlag(t, n, l)
        PROVE  Grown
    BY <2>3, <1>15, <1>16
  <2> QED
    BY <2>1, <2>2, <2>3, <1>17, <1>18, <1>19, <1>20, <1>21, <1>22, <1>23 DEF Next

\* The calls of rox_setup.
LEMMA CallKept ==
  ASSUME Inv, HeapInv, ~RacyRetries, [Next]_vars
  PROVE  CallInv'
<1> USE LifecycleAssumption, GetOrCreate, GrownBy
    DEF Inv, HeapInv, TypeOK, RoxOK, States, Places, Exists, NoRox, LockInv, CallInv, threadVars,
        roxVars, heapVars
<1>1. ASSUME NEW t \in Threads, Lock(t)
      PROVE  CallInv'
  <2>1. call' = call /\ rox'.options = rox.options /\ (Exists => rox'.life = rox.life)
    BY <1>1 DEF Lock, Goto
  <2>2. \A u \in Threads : /\ Waits(u)' => Waits(u)
                           /\ Inside(u)' => Inside(u)
                           /\ pc'[u] = "refused" => pc[u] = "refused" \/ Exists
    BY <1>1 DEF Lock, Goto, Waits, Inside, Locks, Telling
  <2>3. TypeOK /\ CallInv
    OBVIOUS
  <2> HIDE DEF TypeOK, CallInv, Exists
  <2> QED
    BY <2>1, <2>2, <2>3, CallStays
<1>2. ASSUME NEW t \in Threads, Refuse(t)
      PROVE  CallInv'
  <2>1. call' = call /\ rox'.options = rox.options /\ (Exists => rox'.life = rox.life)
    BY <1>2 DEF Refuse, Goto
  <2>2. \A u \in Threads : /\ Waits(u)' => Waits(u)
                           /\ Inside(u)' => Inside(u)
                           /\ pc'[u] = "refused" => pc[u] = "refused" \/ Exists
    BY <1>2 DEF Refuse, Goto, Waits, Inside, Locks, Telling
  <2>3. TypeOK /\ CallInv
    OBVIOUS
  <2> HIDE DEF TypeOK, CallInv, Exists
  <2> QED
    BY <2>1, <2>2, <2>3, CallStays
<1>3. ASSUME NEW t \in Threads, Retry(t)
      PROVE  CallInv'
  <2>1. call' = call /\ pc' = pc /\ created' = created /\ rox' = NoRox
    BY <1>3 DEF Retry, Reset, ResetOf
  <2>2. \A u \in Threads : ~Inside(u)' /\ pc[u] # "refused"
    BY <1>3, <2>1 DEF Retry, Reset, ResetOf, NobodyReturns, Inside, Locks, Telling
  <2>3. CallInv
    OBVIOUS
  <2> HIDE DEF CallInv
  <2> QED
    BY <2>1, <2>2, <2>3, CallReset
<1>4. ASSUME NEW t \in Threads, Begin(t)
      PROVE  CallInv'
  <2> DEFINE life == Rox.life
             opts == IF call[t].options = Null THEN <<"own options", life>> ELSE call[t].options
  <2>1. /\ pc[t] = "enter" /\ rox.state \in {"none", "uninitialized"}
        /\ rox' = [Rox EXCEPT !.state = "settingUp", !.options = opts]
        /\ call' = [call EXCEPT ![t].rox = life] /\ pc' = [pc EXCEPT ![t] = "core"]
        /\ created' = created
    BY <1>4 DEF Begin, BeginWrapping, Goto
  <2>2. /\ RoxOK(Rox) /\ life # 0 /\ (Exists => life = rox.life)
        /\ rox'.life = life /\ rox'.options = opts /\ Exists'
    BY <2>1
  <2>3. Made("options", "setup")' = Made("options", "setup")
    BY <2>1 DEF Made
  <2>4. ASSUME NEW u \in Threads
        PROVE  /\ CallOK(u)
               /\ u # t => call'[u] = call[u] /\ Waits(u)' = Waits(u) /\ (Inside(u)' => Inside(u))
               /\ u = t => /\ call'[u] = [call[u] EXCEPT !.rox = life]
                          /\ ~Waits(u)' /\ pc'[u] # "refused" /\ Waits(u)
    BY <2>1 DEF Waits, Inside, Locks, Telling
  <2>5. ASSUME NEW u \in Threads, NEW w \in Threads
        PROVE  Apart(u, w) /\ CallOK(u)
    OBVIOUS
  <2> HIDE DEF CallInv, life, opts, Inv, HeapInv, TypeOK, LockInv, RoxOK, Exists, NoRox
  <2>6. ASSUME NEW u \in Threads
        PROVE  CallOK(u)'
    <3>1. CASE u = t
      <4>1. DOMAIN call[u] = {"valid", "options", "level", "rox"} /\ DOMAIN NoCall = DOMAIN call[u]
        BY <2>4 DEF CallOK, NoCall
      <4>2. /\ DOMAIN call'[u] = DOMAIN NoCall /\ call'[u].options = call[u].options
            /\ call'[u].rox = life
        BY <2>4, <3>1, <4>1
      <4> QED
        BY <2>2, <2>3, <2>4, <3>1, <4>2 DEF CallOK
    <3>2. CASE u # t
      <4>1. Waits(u) /\ call[u].options # Null => call[u].options # opts
        <5>1. Apart(u, t) /\ Waits(t) /\ CallOK(u)
          BY <2>4, <2>5
        <5>2. opts = call[t].options \/ opts = <<"own options", life>>
          BY DEF opts
        <5> QED
          BY <3>2, <5>1, <5>2, NotTheirs
      <4>2. /\ call'[u] = call[u] /\ (Waits(u)' => Waits(u)) /\ (Inside(u)' => Inside(u))
            /\ CallOK(u)
        BY <2>4, <3>2
      <4>3. Inside(u)' => call'[u].rox = rox'.life
        BY <2>2, <4>2 DEF CallOK
      <4>4. Waits(u)' /\ call'[u].options # Null => call'[u].options # rox'.options
        BY <2>2, <4>1, <4>2
      <4>5. /\ DOMAIN call'[u] = DOMAIN NoCall
            /\ call'[u].options \in {Null} \cup Made("options", "setup")'
        BY <2>3, <4>2 DEF CallOK
      <4> QED
        BY <2>2, <4>3, <4>4, <4>5 DEF CallOK
    <3> QED
      BY <3>1, <3>2
  <2>7. ASSUME NEW u \in Threads, NEW w \in Threads
        PROVE  Apart(u, w)'
    <3>1. Apart(u, w)
      BY <2>5
    <3> QED
      BY <2>4, <3>1 DEF Apart
  <2> QED
    BY <2>6, <2>7 DEF CallInv
<1>5. ASSUME NEW t \in Threads, CoreFails(t)
      PROVE  CallInv'
  <2>1. call' = call /\ rox'.options = rox.options /\ (Exists => rox'.life = rox.life)
    BY <1>5 DEF CoreFails, CoreFailsTo, Goto
  <2>2. \A u \in Threads : /\ Waits(u)' => Waits(u)
                           /\ Inside(u)' => Inside(u)
                           /\ pc'[u] = "refused" => pc[u] = "refused" \/ Exists
    BY <1>5 DEF CoreFails, CoreFailsTo, Goto, Waits, Inside, Locks, Telling
  <2>3. TypeOK /\ CallInv
    OBVIOUS
  <2> HIDE DEF TypeOK, CallInv, Exists
  <2> QED
    BY <2>1, <2>2, <2>3, CallStays
<1>6. ASSUME NEW t \in Threads, CoreSetup(t)
      PROVE  CallInv'
  <2>1. call' = call /\ rox'.options = rox.options /\ (Exists => rox'.life = rox.life)
    BY <1>6 DEF CoreSetup, Goto
  <2>2. \A u \in Threads : /\ Waits(u)' => Waits(u)
                           /\ Inside(u)' => Inside(u)
                           /\ pc'[u] = "refused" => pc[u] = "refused" \/ Exists
    BY <1>6 DEF CoreSetup, Goto, Waits, Inside, Locks, Telling
  <2>3. TypeOK /\ CallInv
    OBVIOUS
  <2> HIDE DEF TypeOK, CallInv, Exists
  <2> QED
    BY <2>1, <2>2, <2>3, CallStays
<1>7. ASSUME NEW t \in Threads, Unfreeze(t)
      PROVE  CallInv'
  <2>1. call' = call /\ rox'.options = rox.options /\ (Exists => rox'.life = rox.life)
    BY <1>7 DEF Unfreeze
  <2>2. \A u \in Threads : /\ Waits(u)' => Waits(u)
                           /\ Inside(u)' => Inside(u)
                           /\ pc'[u] = "refused" => pc[u] = "refused" \/ Exists
    BY <1>7 DEF Unfreeze, Waits, Inside, Locks, Telling
  <2>3. TypeOK /\ CallInv
    OBVIOUS
  <2> HIDE DEF TypeOK, CallInv, Exists
  <2> QED
    BY <2>1, <2>2, <2>3, CallStays
<1>8. ASSUME NEW t \in Threads, Notify(t)
      PROVE  CallInv'
  <2>1. call' = call /\ rox'.options = rox.options /\ (Exists => rox'.life = rox.life)
    BY <1>8 DEF Notify, Goto
  <2>2. \A u \in Threads : /\ Waits(u)' => Waits(u)
                           /\ Inside(u)' => Inside(u)
                           /\ pc'[u] = "refused" => pc[u] = "refused" \/ Exists
    BY <1>8 DEF Notify, Goto, Waits, Inside, Locks, Telling
  <2>3. TypeOK /\ CallInv
    OBVIOUS
  <2> HIDE DEF TypeOK, CallInv, Exists
  <2> QED
    BY <2>1, <2>2, <2>3, CallStays
<1>9. ASSUME NEW t \in Threads, HandlerReturns(t)
      PROVE  CallInv'
  <2>1. call' = call /\ rox'.options = rox.options /\ (Exists => rox'.life = rox.life)
    BY <1>9 DEF HandlerReturns, Goto
  <2>2. \A u \in Threads : /\ Waits(u)' => Waits(u)
                           /\ Inside(u)' => Inside(u)
                           /\ pc'[u] = "refused" => pc[u] = "refused" \/ Exists
    BY <1>9 DEF HandlerReturns, Goto, Waits, Inside, Locks, Telling
  <2>3. TypeOK /\ CallInv
    OBVIOUS
  <2> HIDE DEF TypeOK, CallInv, Exists
  <2> QED
    BY <2>1, <2>2, <2>3, CallStays
<1>10. ASSUME NEW t \in Threads, Fetched(t)
      PROVE  CallInv'
  <2>1. call' = call /\ rox'.options = rox.options /\ (Exists => rox'.life = rox.life)
    BY <1>10 DEF Fetched, Goto
  <2>2. \A u \in Threads : /\ Waits(u)' => Waits(u)
                           /\ Inside(u)' => Inside(u)
                           /\ pc'[u] = "refused" => pc[u] = "refused" \/ Exists
    BY <1>10 DEF Fetched, Goto, Waits, Inside, Locks, Telling
  <2>3. TypeOK /\ CallInv
    OBVIOUS
  <2> HIDE DEF TypeOK, CallInv, Exists
  <2> QED
    BY <2>1, <2>2, <2>3, CallStays
<1>11. ASSUME NEW t \in Threads, Unlock(t)
      PROVE  CallInv'
  <2>1. call' = call /\ rox'.options = rox.options /\ (Exists => rox'.life = rox.life)
    BY <1>11 DEF Unlock, Goto
  <2>2. \A u \in Threads : /\ Waits(u)' => Waits(u)
                           /\ Inside(u)' => Inside(u)
                           /\ pc'[u] = "refused" => pc[u] = "refused" \/ Exists
    BY <1>11 DEF Unlock, Goto, Waits, Inside, Locks, Telling
  <2>3. TypeOK /\ CallInv
    OBVIOUS
  <2> HIDE DEF TypeOK, CallInv, Exists
  <2> QED
    BY <2>1, <2>2, <2>3, CallStays
<1>12. ASSUME NEW t \in Threads, Return(t)
      PROVE  CallInv'
  <2> DEFINE new == NoCall
  <2>1. /\ rox' = rox /\ call' = [call EXCEPT ![t] = new] /\ DOMAIN new = DOMAIN NoCall
        /\ \A u \in Threads : u # t => pc'[u] = pc[u]
        /\ pc'[t] \in {"out", "lock"}
        /\ new.options = Null
    BY <1>12 DEF Return, Goto, NoCall, Counted
  <2>2. TypeOK /\ OwnInv /\ CallInv
    OBVIOUS
  <2> HIDE DEF TypeOK, CallInv, new
  <2> QED
    BY <2>1, <2>2, CallChanges
<1>13. ASSUME NEW t \in Threads, NEW v \in BOOLEAN, CallSetupPlain(t, v)
      PROVE  CallInv'
  <2> DEFINE new == [NoCall EXCEPT !.valid = v]
  <2>1. /\ rox' = rox /\ call' = [call EXCEPT ![t] = new] /\ DOMAIN new = DOMAIN NoCall
        /\ \A u \in Threads : u # t => pc'[u] = pc[u]
        /\ pc'[t] \in {"out", "lock"}
        /\ new.options = Null
    BY <1>13 DEF CallSetupPlain, Goto, NoCall, Counted
  <2>2. TypeOK /\ OwnInv /\ CallInv
    OBVIOUS
  <2> HIDE DEF TypeOK, CallInv, new
  <2> QED
    BY <2>1, <2>2, CallChanges
<1>14. ASSUME NEW t \in Threads, NEW v \in BOOLEAN, NEW l \in DefaultFreezes,
             CallSetup(t, v, l)
      PROVE  CallInv'
  <2> DEFINE new == [valid |-> v, options |-> <<"options", Number("setup")>>,
                       level |-> l, rox |-> 0]
  <2>1. /\ rox' = rox /\ call' = [call EXCEPT ![t] = new] /\ DOMAIN new = DOMAIN NoCall
        /\ \A u \in Threads : u # t => pc'[u] = pc[u]
        /\ pc'[t] \in {"out", "lock"}
        /\ new.options = <<"options", Number("setup")>>
        /\ created'["setup"] = Number("setup")
    BY <1>14 DEF CallSetup, Goto, Another, Number, NoCall, Counted
  <2>2. TypeOK /\ OwnInv /\ CallInv
    OBVIOUS
  <2> HIDE DEF TypeOK, CallInv, new
  <2> QED
    BY <2>1, <2>2, CallChanges
<1>15. ASSUME NEW t \in Threads, NEW n \in Names, DynamicRead(t, n)
      PROVE  CallInv'
  <2>1. call' = call /\ rox'.options = rox.options /\ (Exists => rox'.life = rox.life)
    BY <1>15 DEF DynamicRead
  <2>2. \A u \in Threads : /\ Waits(u)' => Waits(u)
                           /\ Inside(u)' => Inside(u)
                           /\ pc'[u] = "refused" => pc[u] = "refused" \/ Exists
    BY <1>15 DEF DynamicRead, Waits, Inside, Locks, Telling
  <2>3. TypeOK /\ CallInv
    OBVIOUS
  <2> HIDE DEF TypeOK, CallInv, Exists
  <2> QED
    BY <2>1, <2>2, <2>3, CallStays
<1>16. ASSUME NEW t \in Threads, NEW n \in Names, NEW l \in Levels, AddFlag(t, n, l)
      PROVE  CallInv'
  <2>1. call' = call /\ rox'.options = rox.options /\ (Exists => rox'.life = rox.life)
    BY <1>16, GotKeeps DEF AddFlag
  <2>2. pc' = pc /\ (rox'.state = "settingUp" <=> rox.state = "settingUp")
    BY <1>16, GotKeeps DEF AddFlag
  <2>3. \A u \in Threads : (Waits(u)' <=> Waits(u)) /\ (Inside(u)' <=> Inside(u))
    BY <2>2 DEF Waits, Inside, Locks, Telling
  <2>4. TypeOK /\ CallInv
    OBVIOUS
  <2> HIDE DEF TypeOK, CallInv, Exists
  <2> QED
    BY <2>1, <2>2, <2>3, <2>4, CallStays
<1>17. ASSUME NEW t \in Threads, NEW f \in DOMAIN flag, Evaluate(t, f)
      PROVE  CallInv'
  <2>1. call' = call /\ rox'.options = rox.options /\ (Exists => rox'.life = rox.life)
    BY <1>17 DEF Evaluate
  <2>2. \A u \in Threads : /\ Waits(u)' => Waits(u)
                           /\ Inside(u)' => Inside(u)
                           /\ pc'[u] = "refused" => pc[u] = "refused" \/ Exists
    BY <1>17 DEF Evaluate, Waits, Inside, Locks, Telling
  <2>3. TypeOK /\ CallInv
    OBVIOUS
  <2> HIDE DEF TypeOK, CallInv, Exists
  <2> QED
    BY <2>1, <2>2, <2>3, CallStays
<1>18. ASSUME NEW t \in Threads, SetProperty(t)
      PROVE  CallInv'
  <2>1. call' = call /\ rox'.options = rox.options /\ (Exists => rox'.life = rox.life)
    BY <1>18, GotKeeps DEF SetProperty, AddCustomProperty
  <2>2. pc' = pc /\ (rox'.state = "settingUp" <=> rox.state = "settingUp")
    BY <1>18, GotKeeps DEF SetProperty, AddCustomProperty
  <2>3. \A u \in Threads : (Waits(u)' <=> Waits(u)) /\ (Inside(u)' <=> Inside(u))
    BY <2>2 DEF Waits, Inside, Locks, Telling
  <2>4. TypeOK /\ CallInv
    OBVIOUS
  <2> HIDE DEF TypeOK, CallInv, Exists
  <2> QED
    BY <2>1, <2>2, <2>3, <2>4, CallStays
<1>19. ASSUME NEW t \in Threads, SetContext(t)
      PROVE  CallInv'
  <2>1. call' = call /\ rox'.options = rox.options /\ (Exists => rox'.life = rox.life)
    BY <1>19 DEF SetContext, SetCoreContext
  <2>2. \A u \in Threads : /\ Waits(u)' => Waits(u)
                           /\ Inside(u)' => Inside(u)
                           /\ pc'[u] = "refused" => pc[u] = "refused" \/ Exists
    BY <1>19 DEF SetContext, SetCoreContext, Waits, Inside, Locks, Telling
  <2>3. TypeOK /\ CallInv
    OBVIOUS
  <2> HIDE DEF TypeOK, CallInv, Exists
  <2> QED
    BY <2>1, <2>2, <2>3, CallStays
<1>20. ASSUME NEW t \in Threads, ClearContext(t)
      PROVE  CallInv'
  <2>1. call' = call /\ rox'.options = rox.options /\ (Exists => rox'.life = rox.life)
    BY <1>20 DEF ClearContext, SetCoreContext
  <2>2. \A u \in Threads : /\ Waits(u)' => Waits(u)
                           /\ Inside(u)' => Inside(u)
                           /\ pc'[u] = "refused" => pc[u] = "refused" \/ Exists
    BY <1>20 DEF ClearContext, SetCoreContext, Waits, Inside, Locks, Telling
  <2>3. TypeOK /\ CallInv
    OBVIOUS
  <2> HIDE DEF TypeOK, CallInv, Exists
  <2> QED
    BY <2>1, <2>2, <2>3, CallStays
<1>21. ASSUME NEW t \in Threads, Fetch(t)
      PROVE  CallInv'
  <2>1. call' = call /\ rox'.options = rox.options /\ (Exists => rox'.life = rox.life)
    BY <1>21 DEF Fetch, Goto
  <2>2. \A u \in Threads : /\ Waits(u)' => Waits(u)
                           /\ Inside(u)' => Inside(u)
                           /\ pc'[u] = "refused" => pc[u] = "refused" \/ Exists
    BY <1>21 DEF Fetch, Goto, Waits, Inside, Locks, Telling
  <2>3. TypeOK /\ CallInv
    OBVIOUS
  <2> HIDE DEF TypeOK, CallInv, Exists
  <2> QED
    BY <2>1, <2>2, <2>3, CallStays
<1>22. ASSUME NEW t \in Threads, Shutdown(t)
      PROVE  CallInv'
  <2>1. call' = call /\ pc' = pc /\ created' = created /\ rox' = NoRox
    BY <1>22 DEF Shutdown, Reset, ResetOf
  <2>2. \A u \in Threads : ~Inside(u)' /\ pc[u] # "refused"
    BY <1>22, <2>1 DEF Shutdown, Reset, ResetOf, NobodyReturns, Inside, Locks, Telling
  <2>3. CallInv
    OBVIOUS
  <2> HIDE DEF CallInv
  <2> QED
    BY <2>1, <2>2, <2>3, CallReset
<1>23. CASE UNCHANGED vars
  <2>1. call' = call /\ rox'.options = rox.options /\ (Exists => rox'.life = rox.life)
    BY <1>23 DEF vars
  <2>2. \A u \in Threads : /\ Waits(u)' => Waits(u)
                           /\ Inside(u)' => Inside(u)
                           /\ pc'[u] = "refused" => pc[u] = "refused" \/ Exists
    BY <1>23 DEF vars, Waits, Inside, Locks, Telling
  <2>3. TypeOK /\ CallInv
    OBVIOUS
  <2> HIDE DEF TypeOK, CallInv, Exists
  <2> QED
    BY <2>1, <2>2, <2>3, CallStays
<1> HIDE DEF Inv, HeapInv, TypeOK, RoxOK, States, Places, Exists, NoRox, LockInv, CallInv, threadVars,
        roxVars, heapVars
<1> QED
  <2>1. ASSUME NEW t \in Threads, SetupStep(t)
        PROVE  CallInv'
    BY <2>1, <1>1, <1>2, <1>3, <1>4, <1>5, <1>6, <1>7, <1>8, <1>9, <1>10, <1>11, <1>12
       DEF SetupStep
  <2>2. ASSUME NEW t \in Threads, NEW v \in BOOLEAN,
               CallSetupPlain(t, v) \/ \E l \in DefaultFreezes : CallSetup(t, v, l)
        PROVE  CallInv'
    BY <2>2, <1>13, <1>14
  <2>3. ASSUME NEW t \in Threads, NEW n \in Names,
               DynamicRead(t, n) \/ \E l \in Levels : AddFlag(t, n, l)
        PROVE  CallInv'
    BY <2>3, <1>15, <1>16
  <2> QED
    BY <2>1, <2>2, <2>3, <1>17, <1>18, <1>19, <1>20, <1>21, <1>22, <1>23 DEF Next

\* The kinds of what is in memory for a reason.
LEMMA PartKinds ==
  ASSUME TypeOK, OwnInv, CallInv
  PROVE  /\ \A o \in RoxObjects : o[1] \in {"rox", "core"}
         /\ \A o \in OwnObjects : o[1] \in OwnKinds
         /\ \A o \in ContextObject : o[1] = "context"
         /\ \A o \in FlagObjects : o[1] = "flag"
         /\ \A o \in Given : o[1] \in {"options", "own options", "property", "built-in"}
         /\ \A o \in Asked : o[1] = "options" /\ o \in Made("options", "setup")
<1>1. \A kind, counter : \A o \in Made(kind, counter) : o[1] = kind
  BY DEF Made
<1>2. /\ \A o \in RoxObjects : o[1] \in {"rox", "core"}
      /\ \A o \in ContextObject : o[1] = "context"
  BY DEF RoxObjects, ContextObject
<1>3. \A o \in OwnObjects : o[1] \in OwnKinds
  BY DEF OwnObjects
<1>4. \A o \in FlagObjects : o[1] = "flag"
  BY DEF FlagObjects
<1>5. \A o \in Given : o[1] \in {"options", "own options", "property", "built-in"}
  <2>1. /\ rox.options \in Made("options", "setup") \cup {<<"own options", rox.life>>, Null}
        /\ core.property \in Made("property", "property") \cup {<<"built-in", rox.life>>, Null}
    BY DEF OwnInv
  <2>2. <<"own options", rox.life>>[1] = "own options" /\ <<"built-in", rox.life>>[1] = "built-in"
    OBVIOUS
  <2> QED
    BY <1>1, <2>1, <2>2 DEF Given
<1>6. \A o \in Asked : o \in Made("options", "setup")
  BY DEF Asked, CallInv, CallOK
<1> QED
  BY <1>1, <1>2, <1>3, <1>4, <1>5, <1>6

\* What is never lost: other kinds, no object, and what is not yet made.
LEMMA NeverLost ==
  ASSUME TypeOK, LostInv
  PROVE  /\ \A k, n : k \notin {"options", "context", "flag", "built-in"} =>
              <<k, n>> \notin abandoned
         /\ \A k : <<k, 0>> \notin abandoned
         /\ <<"options", Number("setup")>> \notin abandoned
         /\ <<"context", Number("context")>> \notin abandoned
         /\ <<"flag", Number("flag")>> \notin abandoned
         /\ <<"built-in", lives + 1>> \notin abandoned
<1>1. \A k, n : <<k, n>> \in abandoned => \/ k = "options" /\ n \in 1 .. created["setup"]
                                          \/ k = "context" /\ n \in 1 .. created["context"]
                                          \/ k = "flag" /\ n \in 1 .. created["flag"]
                                          \/ k = "built-in" /\ n \in 1 .. lives
  BY LosableIs DEF LostInv
<1>2. /\ created["setup"] \in Nat /\ created["context"] \in Nat /\ created["flag"] \in Nat
      /\ lives \in Nat
  BY DEF TypeOK, Counted
<1>3. /\ Number("setup") \notin 1 .. created["setup"] /\ Number("flag") \notin 1 .. created["flag"]
      /\ Number("context") \notin 1 .. created["context"] /\ lives + 1 \notin 1 .. lives
  BY <1>2 DEF Number
<1>4. \A k, n : k \notin {"options", "context", "flag", "built-in"} => <<k, n>> \notin abandoned
  BY <1>1
<1>5. \A k : <<k, 0>> \notin abandoned
  BY <1>1, <1>2
<1>6. <<"options", Number("setup")>> \notin abandoned
  BY <1>1, <1>3
<1>7. <<"context", Number("context")>> \notin abandoned
  BY <1>1, <1>3
<1>8. <<"flag", Number("flag")>> \notin abandoned
  BY <1>1, <1>3
<1>9. <<"built-in", lives + 1>> \notin abandoned
  BY <1>1, <1>3
<1> QED
  BY <1>4, <1>5, <1>6, <1>7, <1>8, <1>9

\* What a call that may have to make the Rox does to memory and the numbers.
LEMMA GotRox ==
  ASSUME TypeOK, OwnInv, rox' = Rox, lives' = Rox.life
  PROVE  /\ RoxObjects' = RoxObjects \cup {<<"rox", Rox.life>>, <<"core", Rox.life>>}
         /\ OwnObjects' = OwnObjects /\ ContextObject' = ContextObject
         /\ Up' <=> Up
         /\ lives' \in Nat /\ lives <= lives'
         /\ Rox.life = IF Exists THEN rox.life ELSE lives + 1
<1>1. /\ rox.life \in Nat /\ lives \in Nat /\ rox.life \in {0, lives}
  BY DEF TypeOK, RoxOK, OwnInv
<1>2. Rox.context = rox.context
  BY GotKeeps
<1>3. ContextObject' = ContextObject
  BY <1>2 DEF ContextObject
<1>4. Rox.life = IF Exists THEN rox.life ELSE lives + 1
  BY DEF Rox, NoRox
<1>5. CASE Exists
  <2>1. Rox = rox
    BY <1>5 DEF Rox
  <2> QED
    BY <1>1, <1>3, <1>4, <1>5, <2>1 DEF RoxObjects, OwnObjects, Up, Exists
<1>6. CASE ~Exists
  <2>1. rox.state = "none" /\ Rox.state = "uninitialized"
    BY <1>6, GetOrCreate
  <2>2. ~Up /\ ~Up' /\ Exists' /\ RoxObjects = {} /\ OwnObjects = {} /\ OwnObjects' = {}
    BY <1>1, <1>4, <1>6, <2>1 DEF Up, Exists, RoxObjects, OwnObjects
  <2> QED
    BY <1>1, <1>3, <1>4, <1>6, <2>2 DEF RoxObjects
<1> QED
  BY <1>5, <1>6

\* ... and to what rox_global and the statics name.
LEMMA GotOwn ==
  ASSUME TypeOK, OwnInv, Grown, rox' = Rox, lives' = Rox.life, UNCHANGED <<freeze, overrides>>,
         core'.property \in {core.property} \cup Made("property", "property")'
  PROVE  OwnInv'
<1>1. /\ Made("property", "property") \subseteq Made("property", "property")'
      /\ Made("options", "setup") \subseteq Made("options", "setup")'
  BY MadeStays DEF Counted
<1>2. rox'.context \in 0 .. created'["context"]
  <2>1. /\ created["context"] \in Nat
        /\ created'["context"] \in {created["context"], created["context"] + 1}
    BY DEF TypeOK, Grown, Counted
  <2>2. rox.context \in 0 .. created["context"] /\ rox'.context = rox.context
    BY GotKeeps DEF OwnInv
  <2> QED
    BY <2>1, <2>2
<1>3. rox'.options = rox.options /\ (Up' <=> Up)
  BY GotKeeps, GotRox
<1>4. Up => rox'.life = rox.life
  BY GotKeeps DEF Up, TypeOK, RoxOK, Exists
<1>5. rox'.life \in {0, lives'}
  OBVIOUS
<1> QED
  BY <1>1, <1>2, <1>3, <1>4, <1>5 DEF OwnInv


\* A flag the repository gets is an object more, and one it refuses is not its own.
LEMMA FlagObjectsAre ==
  ASSUME TypeOK, NEW n \in Names,
         core'.flags = IF core.flags[n] # 0 THEN core.flags
                       ELSE [core.flags EXCEPT ![n] = Number("flag")]
  PROVE  /\ FlagObjects' = IF core.flags[n] # 0 THEN FlagObjects
                           ELSE FlagObjects \cup {<<"flag", Number("flag")>>}
         /\ <<"flag", Number("flag")>> \notin FlagObjects
<1> DEFINE f == Number("flag")
<1>1. /\ DOMAIN core.flags = Names /\ f \in Nat /\ f # 0 /\ f = created["flag"] + 1
      /\ created["flag"] \in Nat
  BY DEF TypeOK, CoreOK, Number, Counted
<1>2. \A g \in Registered(core) : g \in Nat /\ g <= created["flag"]
  BY DEF TypeOK, CoreOK, Registered
<1>3. f \notin Registered(core)
  BY <1>1, <1>2
<1>4. <<"flag", f>> \notin FlagObjects
  BY <1>3, Pairs DEF FlagObjects
<1>5. CASE core.flags[n] # 0
  BY <1>4, <1>5 DEF FlagObjects, Registered
<1>6. CASE core.flags[n] = 0
  <2> HIDE DEF f
  <2>1. core'.flags = [core.flags EXCEPT ![n] = f]
    BY <1>6 DEF f
  <2>2. Registered(core') = Registered(core) \cup {f}
    BY <1>1, <1>6, <2>1 DEF Registered
  <2>3. FlagObjects' = FlagObjects \cup {<<"flag", f>>}
    BY <2>2 DEF FlagObjects
  <2> QED
    BY <1>4, <1>6, <2>3 DEF f
<1> QED
  BY <1>5, <1>6

\* The parts nobody touches.
LEMMA AskedUntouched ==
  ASSUME UNCHANGED <<pc, call>>
  PROVE  Asked' = Asked
BY DEF Asked, Waits

\* A flag added, with the Rox if there is none yet, or lost when its name is taken.
LEMMA AddFlagObjects ==
  ASSUME TypeOK, OwnInv, CallInv, LostInv, MemoryInv, Grown,
         NEW t \in Threads, NEW n \in Names, NEW l \in Levels, AddFlag(t, n, l)
  PROVE  OwnInv' /\ LostInv' /\ MemoryInv'
<1> DEFINE f    == <<"flag", Number("flag")>>
           new  == {<<"rox", Rox.life>>, <<"core", Rox.life>>} \cup {f}
           lost == IF core.flags[n] # 0 THEN {f} ELSE {}
<1>1. /\ rox' = Rox /\ lives' = Rox.life /\ UNCHANGED <<pc, call, freeze, overrides>>
      /\ created' = Another("flag")
      /\ allocated' = allocated \cup new
      /\ Core = core
  BY GetOrCreate DEF AddFlag, WithRox, threadVars
<1>2. /\ core'.flags = IF core.flags[n] # 0 THEN core.flags
                       ELSE [core.flags EXCEPT ![n] = Number("flag")]
      /\ core'.property = core.property
  BY <1>1 DEF AddFlag, Taken, TypeOK, CoreOK
<1>3. abandoned' = abandoned \cup lost
  BY <1>1 DEF AddFlag, Taken
<1>4. OwnInv'
  BY <1>1, <1>2, GotOwn
<1>5. /\ FlagObjects' = IF core.flags[n] # 0 THEN FlagObjects ELSE FlagObjects \cup {f}
      /\ f \notin FlagObjects
  BY <1>2, FlagObjectsAre
<1>6. /\ RoxObjects' = RoxObjects \cup {<<"rox", Rox.life>>, <<"core", Rox.life>>}
      /\ OwnObjects' = OwnObjects /\ ContextObject' = ContextObject
      /\ (Up' <=> Up) /\ lives' \in Nat /\ lives <= lives'
      /\ Rox.life = IF Exists THEN rox.life ELSE lives + 1
  BY <1>1, GotRox
<1>7. Given' = Given /\ Asked' = Asked
  BY <1>1, <1>2, GotKeeps, AskedUntouched DEF Given
<1>8. f \notin Live
  <2>1. f[1] = "flag" /\ "flag" \notin OwnKinds
    BY DEF OwnKinds
  <2> HIDE DEF f
  <2> QED
    BY <1>5, <2>1, PartKinds DEF Live
<1>9. f # <<"rox", Rox.life>> /\ f # <<"core", Rox.life>>
  OBVIOUS
<1>10. new \cap abandoned = {}
  BY NeverLost
<1>11. MemoryInv' /\ abandoned' \cap Live' = {}
  <2> HIDE DEF f
  <2>1. Live' = ((Live \ {}) \cup new) \ lost
    BY <1>5, <1>6, <1>7, <1>8, <1>9 DEF Live
  <2>2. lost \subseteq Live \cup new /\ abandoned \cap Live = {}
    BY DEF LostInv
  <2> HIDE DEF new, lost
  <2>3. allocated' = (allocated \ {}) \cup new
    BY <1>1
  <2> QED
    BY <1>3, <1>10, <2>1, <2>2, <2>3, Exchanged
<1>12. abandoned' \subseteq Losable'
  <2>1. Losable \subseteq Losable'
    BY <1>6, LosableStays
  <2>2. Number("flag") \in 1 .. created'["flag"]
    BY <1>1 DEF Another, Number, TypeOK, Counted
  <2>3. f \in Losable'
    BY <2>2 DEF Losable, Made
  <2> QED
    BY <1>3, <2>1, <2>3 DEF LostInv
<1>13. ~Up' => <<"built-in", rox'.life>> \notin abandoned'
  <2>1. CASE Exists
    BY <1>1, <1>3, <1>6, <2>1 DEF LostInv
  <2>2. CASE ~Exists
    BY <1>1, <1>3, <1>6, <2>2, NeverLost
  <2> QED
    BY <2>1, <2>2
<1> QED
  BY <1>4, <1>11, <1>12, <1>13 DEF LostInv

\* A flag added as it is read.
LEMMA DynamicReadObjects ==
  ASSUME TypeOK, OwnInv, CallInv, LostInv, MemoryInv, Grown,
         NEW t \in Threads, NEW n \in Names, DynamicRead(t, n)
  PROVE  OwnInv' /\ LostInv' /\ MemoryInv'
<1> DEFINE f == <<"flag", Number("flag")>>
<1>1. /\ UNCHANGED <<rox, lives, pc, call, freeze, overrides, abandoned>>
      /\ created' = Another("flag") /\ core.flags[n] = 0
      /\ allocated' = allocated \cup {f}
  BY DEF DynamicRead, threadVars, roxVars
<1>2. /\ core'.flags = IF core.flags[n] # 0 THEN core.flags
                       ELSE [core.flags EXCEPT ![n] = Number("flag")]
      /\ core'.property = core.property
  BY DEF DynamicRead, TypeOK, CoreOK
<1>3. Up' <=> Up
  BY <1>1 DEF Up
<1>4. OwnInv'
  <2>1. /\ Made("property", "property") \subseteq Made("property", "property")'
        /\ Made("options", "setup") \subseteq Made("options", "setup")'
    BY MadeStays DEF Counted
  <2>2. rox'.context \in 0 .. created'["context"]
    <3>1. rox.context \in 0 .. created["context"]
      BY DEF OwnInv
    <3>2. created'["context"] = created["context"]
      BY <1>1 DEF Another, TypeOK, Counted
    <3> QED
      BY <1>1, <3>1, <3>2
  <2> QED
    BY <1>1, <1>2, <1>3, <2>1, <2>2 DEF OwnInv
<1>5. FlagObjects' = FlagObjects \cup {f}
  BY <1>1, <1>2, FlagObjectsAre
<1>6. /\ RoxObjects' = RoxObjects /\ OwnObjects' = OwnObjects /\ ContextObject' = ContextObject
      /\ Given' = Given /\ Asked' = Asked
  BY <1>1, <1>2, <1>3, AskedUntouched DEF RoxObjects, OwnObjects, ContextObject, Given, Exists
<1>7. MemoryInv' /\ abandoned' \cap Live' = {}
  <2>1. {f} \cap abandoned = {} /\ abandoned \cap Live = {}
    BY NeverLost DEF LostInv
  <2> HIDE DEF f
  <2>2. Live' = ((Live \ {}) \cup {f}) \ {}
    BY <1>5, <1>6 DEF Live
  <2>3. abandoned' = abandoned \cup {} /\ allocated' = (allocated \ {}) \cup {f}
    BY <1>1
  <2> QED
    BY <2>1, <2>2, <2>3, Exchanged
<1>8. Losable \subseteq Losable'
  BY <1>1, LosableStays DEF TypeOK
<1> QED
  BY <1>1, <1>3, <1>4, <1>7, <1>8 DEF LostInv

\* A property set, in place of the one before.
LEMMA SetPropertyObjects ==
  ASSUME TypeOK, OwnInv, CallInv, LostInv, MemoryInv, Grown,
         NEW t \in Threads, SetProperty(t)
  PROVE  OwnInv' /\ LostInv' /\ MemoryInv'
<1> DEFINE p    == <<"property", Number("property")>>
           new  == {<<"rox", Rox.life>>, <<"core", Rox.life>>} \cup {p}
           gone == {core.property}
<1>1. /\ rox' = Rox /\ lives' = Rox.life /\ UNCHANGED <<pc, call, freeze, overrides, abandoned>>
      /\ created' = Another("property")
      /\ allocated' = (allocated \cup new) \ gone
      /\ core'.flags = core.flags /\ core'.property = p
  BY GetOrCreate DEF SetProperty, AddCustomProperty, WithRox, threadVars, TypeOK, CoreOK
<1>2. Number("property") \in 1 .. created'["property"] /\ created["property"] \in Nat
  BY <1>1 DEF Another, Number, TypeOK, Counted
<1>3. OwnInv'
  <2>1. p \in Made("property", "property")'
    BY <1>2 DEF Made
  <2> QED
    BY <1>1, <2>1, GotOwn
<1>4. /\ RoxObjects' = RoxObjects \cup {<<"rox", Rox.life>>, <<"core", Rox.life>>}
      /\ OwnObjects' = OwnObjects /\ ContextObject' = ContextObject
      /\ (Up' <=> Up) /\ lives' \in Nat /\ lives <= lives'
      /\ Rox.life = IF Exists THEN rox.life ELSE lives + 1
  BY <1>1, GotRox
<1>5. FlagObjects' = FlagObjects /\ Asked' = Asked
  BY <1>1, AskedUntouched DEF FlagObjects, Registered
<1>6. core.property = Null \/ core.property[1] \in {"property", "built-in"}
  <2>1. \/ core.property = Null \/ core.property = <<"built-in", rox.life>>
        \/ core.property \in Made("property", "property")
    BY DEF OwnInv
  <2>2. \A o \in Made("property", "property") : o[1] = "property"
    BY DEF Made
  <2>3. <<"built-in", rox.life>>[1] = "built-in"
    OBVIOUS
  <2> QED
    BY <2>1, <2>2, <2>3
<1>7. core.property # p /\ p # Null
  <2>1. \A o \in Made("property", "property") : o # p
    BY <1>2 DEF Made, Number
  <2>2. <<"built-in", rox.life>> # p /\ p # Null
    BY DEF Null
  <2> QED
    BY <2>1, <2>2 DEF OwnInv
<1>8. Given' = {rox.options, p} \ {Null}
  BY <1>1, GotKeeps DEF Given
<1>9. core.property # Null => core.property # rox.options
  <2>1. rox.options = Null \/ rox.options[1] \in {"options", "own options"}
    <3>1. \/ rox.options = Null \/ rox.options = <<"own options", rox.life>>
          \/ rox.options \in Made("options", "setup")
      BY DEF OwnInv
    <3>2. \A o \in Made("options", "setup") : o[1] = "options"
      BY DEF Made
    <3>3. <<"own options", rox.life>>[1] = "own options"
      OBVIOUS
    <3> QED
      BY <3>1, <3>2, <3>3
  <2> QED
    BY <1>6, <2>1
<1>10. \A o \in RoxObjects' \cup OwnObjects \cup ContextObject \cup FlagObjects \cup Asked :
         o # core.property
  <2>1. Null[1] = "null"
    BY DEF Null
  <2>2. \A o \in RoxObjects' : o[1] \in {"rox", "core"}
    <3>1. \A k : <<"rox", k>>[1] = "rox" /\ <<"core", k>>[1] = "core"
      OBVIOUS
    <3> QED
      BY <1>4, <3>1, PartKinds
  <2> QED
    BY <1>6, <2>1, <2>2, PartKinds DEF OwnKinds
<1>11. new \cap abandoned = {}
  BY NeverLost
<1>12. gone \cap abandoned = {}
  <2>1. core.property # Null => core.property \in Live
    BY DEF Given, Live
  <2>2. Null \notin abandoned
    BY NeverLost DEF Null
  <2> QED
    BY <2>1, <2>2 DEF LostInv
<1>13. MemoryInv' /\ abandoned' \cap Live' = {}
  <2>1. new \cap gone = {}
    BY <1>4, <1>7, <1>10
  <2> HIDE DEF p
  <2>2. Live' = ((Live \ gone) \cup new) \ {}
    BY <1>4, <1>5, <1>7, <1>8, <1>9, <1>10 DEF Live, Given
  <2>3. allocated' = (allocated \ gone) \cup new /\ abandoned' = abandoned \cup {}
    BY <1>1, <2>1
  <2>4. abandoned \cap Live = {}
    BY DEF LostInv
  <2> HIDE DEF new, gone
  <2> QED
    BY <1>11, <1>12, <2>2, <2>3, <2>4, Exchanged
<1>14. Losable \subseteq Losable'
  BY <1>4, LosableStays
<1>15. ~Up' => <<"built-in", rox'.life>> \notin abandoned'
  <2>1. CASE Exists
    BY <1>1, <1>4, <2>1 DEF LostInv
  <2>2. CASE ~Exists
    BY <1>1, <1>4, <2>2, NeverLost
  <2> QED
    BY <2>1, <2>2
<1> QED
  BY <1>1, <1>3, <1>13, <1>14, <1>15 DEF LostInv


\* A context set: what stays.
LEMMA ContextStays ==
  ASSUME TypeOK, OwnInv, Grown, NEW c \in 0 .. created'["context"],
         SetCoreContext(c), rox' = [rox EXCEPT !.context = c],
         UNCHANGED <<lives, pc, call, freeze, overrides>>
  PROVE  /\ OwnInv' /\ (Up' <=> Up) /\ rox'.life = rox.life
         /\ RoxObjects' = RoxObjects /\ OwnObjects' = OwnObjects /\ FlagObjects' = FlagObjects
         /\ Given' = Given /\ Asked' = Asked
         /\ ContextObject' = {<<"context", c>>} \ {<<"context", 0>>}
<1>1. /\ rox'.life = rox.life /\ rox'.options = rox.options /\ rox'.context = c
      /\ core'.property = core.property /\ core'.flags = core.flags
      /\ (Up' <=> Up)
  BY DEF TypeOK, RoxOK, CoreOK, SetCoreContext, Up
<1>2. OwnInv'
  <2>1. /\ Made("property", "property") \subseteq Made("property", "property")'
        /\ Made("options", "setup") \subseteq Made("options", "setup")'
    BY MadeStays DEF Counted
  <2>2. rox'.context \in 0 .. created'["context"] /\ rox'.life \in {0, lives'}
    BY <1>1 DEF OwnInv
  <2>3. core'.property \in {Null} \cup Made("property", "property")'
                             \cup (IF Up' THEN {<<"built-in", rox'.life>>} ELSE {})
    BY <1>1, <2>1 DEF OwnInv
  <2>4. rox'.options \in
          IF Up' THEN Made("options", "setup")' \cup {<<"own options", rox'.life>>} ELSE {Null}
    <3>1. rox.options \in
            IF Up THEN Made("options", "setup") \cup {<<"own options", rox.life>>} ELSE {Null}
      BY DEF OwnInv
    <3>2. CASE Up
      <4>1. \/ rox.options \in Made("options", "setup")
            \/ rox.options = <<"own options", rox.life>>
        BY <3>1, <3>2
      <4>2. \/ rox'.options \in Made("options", "setup")'
            \/ rox'.options = <<"own options", rox'.life>>
        BY <1>1, <2>1, <4>1
      <4>3. Up'
        BY <1>1, <3>2
      <4>4. rox'.options \in Made("options", "setup")' \cup {<<"own options", rox'.life>>}
        BY <4>2, Zenon
      <4> QED
        BY <4>3, <4>4
    <3>3. CASE ~Up
      BY <1>1, <3>1, <3>3
    <3> QED
      BY <3>2, <3>3
  <2> QED
    BY <1>1, <2>2, <2>3, <2>4 DEF OwnInv
<1> QED
  BY <1>1, <1>2, AskedUntouched
     DEF RoxObjects, OwnObjects, FlagObjects, Registered, Given, ContextObject, Exists

\* The context there is, and the one to come.
LEMMA ContextsAre ==
  ASSUME TypeOK, OwnInv, CallInv, LostInv
  PROVE  /\ <<"context", rox.context>> \notin abandoned
         /\ \A o \in Live \ ContextObject : o[1] # "context"
         /\ \A k : <<"context", k>>[1] = "context"
         /\ ContextObject \subseteq {<<"context", rox.context>>}
         /\ Number("context") \in Nat \ {0} /\ <<"context", Number("context")>> \notin Live
<1>1. rox.context \in 0 .. created["context"] /\ created["context"] \in Nat
  BY DEF OwnInv, TypeOK, Counted
<1>2. Number("context") \in Nat \ {0} /\ Number("context") # rox.context
  BY <1>1 DEF Number
<1>3. <<"context", rox.context>> \notin abandoned
  <2>1. CASE rox.context = 0
    BY <2>1, NeverLost
  <2>2. CASE rox.context # 0
    <3>1. <<"context", rox.context>> # <<"context", 0>>
      BY <2>2
    <3>2. <<"context", rox.context>> \in Live
      BY <3>1 DEF ContextObject, Live
    <3> QED
      BY <3>2 DEF LostInv
  <2> QED
    BY <2>1, <2>2
<1>4. \A o \in Live \ ContextObject : o[1] # "context"
  BY PartKinds DEF Live, OwnKinds
<1>5. \A k : <<"context", k>>[1] = "context"
  OBVIOUS
<1>6. ContextObject \subseteq {<<"context", rox.context>>}
  BY DEF ContextObject
<1>7. <<"context", Number("context")>> # <<"context", rox.context>>
  BY <1>2, Pairs
<1> QED
  BY <1>2, <1>3, <1>4, <1>5, <1>6, <1>7

\* A context set in its time takes the place of the one before; one set before its
\* time is lost.
LEMMA SetContextObjects ==
  ASSUME TypeOK, OwnInv, CallInv, LostInv, MemoryInv, Grown,
         NEW t \in Threads, SetContext(t)
  PROVE  OwnInv' /\ LostInv' /\ MemoryInv'
<1> DEFINE c   == Number("context")
           new == {<<"context", c>>}
           old == {<<"context", rox.context>>}
<1>1. /\ created' = Another("context")
      /\ UNCHANGED <<lives, pc, call, freeze, overrides>>
  BY DEF SetContext, threadVars
<1>2. c \in 1 .. created'["context"] /\ c \in 0 .. created'["context"] /\ c # 0
  BY <1>1 DEF Another, Number, TypeOK, Counted
<1>3. Losable \subseteq Losable'
  BY <1>1, LosableStays DEF TypeOK
<1>4. new \cap abandoned = {} /\ abandoned \cap Live = {}
  BY NeverLost DEF LostInv
<1>5. CASE rox.state = "initialized"
  <2>1. /\ SetCoreContext(c) /\ rox' = [rox EXCEPT !.context = c]
        /\ allocated' = (allocated \ old) \cup new /\ abandoned' = abandoned
    BY <1>5 DEF SetContext
  <2> HIDE DEF c
  <2>2. /\ OwnInv' /\ (Up' <=> Up) /\ rox'.life = rox.life
        /\ RoxObjects' = RoxObjects /\ OwnObjects' = OwnObjects /\ FlagObjects' = FlagObjects
        /\ Given' = Given /\ Asked' = Asked
        /\ ContextObject' = {<<"context", c>>} \ {<<"context", 0>>}
    BY <1>1, <1>2, <2>1, ContextStays
  <2>3. ContextObject' = new
    BY <1>2, <2>2
  <2>4. old \cap abandoned = {} /\ old \cap (Live \ ContextObject) = {} /\ ContextObject \subseteq old
    BY ContextsAre
  <2>5. Live \ old = RoxObjects \cup OwnObjects \cup FlagObjects \cup Given \cup Asked
    <3>1. \A o \in RoxObjects \cup OwnObjects \cup FlagObjects \cup Given \cup Asked :
            o[1] # "context"
      BY PartKinds DEF OwnKinds
    <3>2. <<"context", rox.context>>[1] = "context"
      OBVIOUS
    <3>3. \A o \in RoxObjects \cup OwnObjects \cup FlagObjects \cup Given \cup Asked : o \notin old
      BY <3>1, <3>2
    <3> HIDE DEF old
    <3> QED
      BY <2>4, <3>3 DEF Live
  <2> HIDE DEF new, old
  <2>6. Live' = ((Live \ old) \cup new) \ {}
    BY <2>2, <2>3, <2>5 DEF Live
  <2>7. abandoned' = abandoned \cup {} /\ allocated' = (allocated \ old) \cup new
    BY <2>1
  <2>8. MemoryInv' /\ abandoned' \cap Live' = {}
    <3>1. old \cap abandoned = {}
      BY <2>4
    <3> QED
      BY <1>4, <2>6, <2>7, <3>1 DEF MemoryInv
  <2> QED
    BY <1>3, <2>1, <2>2, <2>8 DEF LostInv
<1>6. CASE rox.state # "initialized"
  <2>1. /\ allocated' = allocated \cup new /\ abandoned' = abandoned \cup new
        /\ UNCHANGED <<rox, core, flag>>
    BY <1>6 DEF SetContext
  <2>2. new \cap Live = {}
    BY ContextsAre
  <2>3. Up' <=> Up
    BY <2>1 DEF Up
  <2>4. Live' = Live
    BY <1>1, <2>1, <2>3, AskedUntouched
       DEF Live, RoxObjects, OwnObjects, ContextObject, FlagObjects, Registered, Given, Exists
  <2>5. OwnInv'
    <3>1. /\ Made("property", "property") \subseteq Made("property", "property")'
          /\ Made("options", "setup") \subseteq Made("options", "setup")'
      BY MadeStays DEF Counted
    <3>2. rox'.context \in 0 .. created'["context"]
      <4>1. rox'.context \in 0 .. created["context"]
        BY <2>1 DEF OwnInv
      <4>2. created["context"] \in Nat /\ created'["context"] = created["context"] + 1
        BY <1>1 DEF Another, TypeOK, Counted
      <4> QED
        BY <4>1, <4>2
    <3> QED
      BY <1>1, <2>1, <2>3, <3>1, <3>2 DEF OwnInv
  <2>6. new \subseteq Losable'
    BY <1>2 DEF Losable, Made
  <2>7. <<"built-in", rox.life>> \notin new
    OBVIOUS
  <2> HIDE DEF new
  <2>8. MemoryInv' /\ abandoned' \cap Live' = {}
    BY <1>4, <2>1, <2>2, <2>4 DEF MemoryInv
  <2> QED
    BY <1>3, <2>1, <2>3, <2>5, <2>6, <2>7, <2>8 DEF LostInv
<1> QED
  BY <1>5, <1>6

\* The context cleared.
LEMMA ClearContextObjects ==
  ASSUME TypeOK, OwnInv, CallInv, LostInv, MemoryInv, Grown,
         NEW t \in Threads, ClearContext(t)
  PROVE  OwnInv' /\ LostInv' /\ MemoryInv'
<1> DEFINE old == {<<"context", rox.context>>}
<1>1. /\ SetCoreContext(0) /\ rox' = [rox EXCEPT !.context = 0]
      /\ allocated' = allocated \ old
      /\ UNCHANGED <<lives, pc, call, freeze, overrides, created, abandoned>>
  BY DEF ClearContext, threadVars
<1>2. 0 \in 0 .. created'["context"]
  BY <1>1 DEF TypeOK, Counted
<1>3. /\ OwnInv' /\ (Up' <=> Up) /\ rox'.life = rox.life
      /\ RoxObjects' = RoxObjects /\ OwnObjects' = OwnObjects /\ FlagObjects' = FlagObjects
      /\ Given' = Given /\ Asked' = Asked
      /\ ContextObject' = {<<"context", 0>>} \ {<<"context", 0>>}
  BY <1>1, <1>2, ContextStays
<1>4. Losable \subseteq Losable'
  BY <1>1, LosableStays DEF TypeOK
<1>5. old \cap abandoned = {} /\ ContextObject \subseteq old
  BY ContextsAre
<1>6. Live \ old = RoxObjects \cup OwnObjects \cup FlagObjects \cup Given \cup Asked
  <2>1. \A o \in RoxObjects \cup OwnObjects \cup FlagObjects \cup Given \cup Asked :
          o[1] # "context"
    BY PartKinds DEF OwnKinds
  <2>2. <<"context", rox.context>>[1] = "context"
    OBVIOUS
  <2>3. \A o \in RoxObjects \cup OwnObjects \cup FlagObjects \cup Given \cup Asked : o \notin old
    BY <2>1, <2>2
  <2> HIDE DEF old
  <2> QED
    BY <1>5, <2>3 DEF Live
<1> HIDE DEF old
<1>7. Live' = ((Live \ old) \cup {}) \ {}
  BY <1>3, <1>6 DEF Live
<1>8. MemoryInv' /\ abandoned' \cap Live' = {}
  <2>1. abandoned' = abandoned \cup {} /\ allocated' = (allocated \ old) \cup {}
    BY <1>1
  <2>2. abandoned \cap Live = {}
    BY DEF LostInv
  <2> QED
    BY <1>5, <1>7, <2>1, <2>2, Exchanged
<1> QED
  BY <1>1, <1>3, <1>4, <1>8 DEF LostInv


\* The options of a call that waits are its own.
LEMMA WaitingOptions ==
  ASSUME TypeOK, OwnInv, CallInv, NEW t \in Threads, Waits(t), NEW o, o = call[t].options, o # Null
  PROVE  /\ o \in Asked /\ o \in Made("options", "setup")
         /\ o \notin RoxObjects \cup OwnObjects \cup ContextObject \cup FlagObjects \cup Given
         /\ \A u \in Threads : Waits(u) /\ u # t => call[u].options # o
<1>1. CallOK(t) /\ \A u \in Threads : Apart(u, t)
  BY DEF CallInv
<1>2. o \in Asked /\ o \in Made("options", "setup")
  BY <1>1 DEF Asked, CallOK
<1>3. o[1] = "options"
  BY <1>2, PartKinds
<1>4. o \notin RoxObjects \cup OwnObjects \cup ContextObject \cup FlagObjects
  BY <1>3, PartKinds DEF OwnKinds
<1>5. o # rox.options
  BY <1>1 DEF CallOK
<1>6. o # core.property
  <2>1. \/ core.property = Null \/ core.property = <<"built-in", rox.life>>
        \/ core.property \in Made("property", "property")
    BY DEF OwnInv
  <2>2. \A p \in Made("property", "property") : p[1] = "property"
    BY DEF Made
  <2>3. <<"built-in", rox.life>>[1] = "built-in"
    OBVIOUS
  <2> QED
    BY <1>3, <2>1, <2>2, <2>3
<1>7. \A u \in Threads : Waits(u) /\ u # t => call[u].options # o
  BY <1>1 DEF Apart
<1> QED
  BY <1>2, <1>4, <1>5, <1>6, <1>7 DEF Given

\* rox_setup called with options.
LEMMA CallSetupObjects ==
  ASSUME TypeOK, OwnInv, CallInv, LostInv, MemoryInv, Grown,
         NEW t \in Threads, NEW v \in BOOLEAN, NEW l \in DefaultFreezes, CallSetup(t, v, l)
  PROVE  OwnInv' /\ LostInv' /\ MemoryInv'
<1> DEFINE o == <<"options", Number("setup")>>
<1>1. /\ UNCHANGED <<rox, lives, core, freeze, overrides, flag, abandoned>>
      /\ allocated' = allocated \cup {o}
      /\ pc[t] = "out" /\ pc' = [pc EXCEPT ![t] = "lock"]
      /\ \A u \in Threads : u # t => call'[u] = call[u]
      /\ call'[t].options = o
  BY DEF CallSetup, roxVars, Goto, TypeOK
<1>2. Quiet
  BY <1>1 DEF Quiet, Up
<1>3. OwnInv'
  BY <1>2, QuietOwn
<1>4. \A u \in Threads : Waits(u)' <=> Waits(u) \/ u = t
  BY <1>1 DEF Waits, TypeOK
<1>5. ~Waits(t) /\ o # Null
  BY <1>1 DEF Waits, Null
<1>6. Asked' = Asked \cup {o}
  <2> HIDE DEF o
  <2> QED
    BY <1>1, <1>4, <1>5 DEF Asked
<1>7. /\ RoxObjects' = RoxObjects /\ OwnObjects' = OwnObjects /\ ContextObject' = ContextObject
      /\ FlagObjects' = FlagObjects /\ Given' = Given
  BY <1>1, <1>2
     DEF Quiet, RoxObjects, OwnObjects, ContextObject, FlagObjects, Registered, Given, Exists
<1>8. {o} \cap abandoned = {} /\ abandoned \cap Live = {}
  BY NeverLost DEF LostInv
<1>9. MemoryInv' /\ abandoned' \cap Live' = {}
  <2> HIDE DEF o
  <2>1. Live' = ((Live \ {}) \cup {o}) \ {}
    BY <1>6, <1>7 DEF Live
  <2>2. abandoned' = abandoned \cup {} /\ allocated' = (allocated \ {}) \cup {o}
    BY <1>1
  <2> QED
    BY <1>8, <2>1, <2>2, Exchanged
<1>10. Losable \subseteq Losable'
  BY <1>1, LosableStays DEF TypeOK
<1> QED
  BY <1>1, <1>2, <1>3, <1>9, <1>10 DEF LostInv, Quiet

\* The options of a call that is refused are lost, and nobody else's.
LEMMA RefuseObjects ==
  ASSUME TypeOK, OwnInv, CallInv, LostInv, MemoryInv, Grown, NEW t \in Threads, Refuse(t)
  PROVE  OwnInv' /\ LostInv' /\ MemoryInv'
<1> DEFINE o    == call[t].options
           lost == {o} \ {Null}
<1>1. /\ UNCHANGED <<rox, lives, core, freeze, overrides, flag, allocated, call>>
      /\ abandoned' = abandoned \cup lost
      /\ pc[t] = "enter" /\ pc' = [pc EXCEPT ![t] = "refused"]
  BY DEF Refuse, roxVars, Goto
<1>2. Quiet
  BY <1>1 DEF Quiet, Up
<1>3. OwnInv'
  BY <1>2, QuietOwn
<1>4. /\ \A u \in Threads : Waits(u)' <=> Waits(u) /\ u # t
      /\ Waits(t)
  BY <1>1 DEF Waits, TypeOK
<1>5. o # Null =>
        /\ o \in Asked /\ o \in Made("options", "setup")
        /\ o \notin RoxObjects \cup OwnObjects \cup ContextObject \cup FlagObjects \cup Given
        /\ \A u \in Threads : Waits(u) /\ u # t => call[u].options # o
  BY <1>4, WaitingOptions
<1>6. Asked' = Asked \ lost
  <2>1. \A a : a \in Asked' <=> a # Null /\ \E u \in Threads : Waits(u)' /\ a = call[u].options
    BY <1>1 DEF Asked
  <2>2. \A a : a \in Asked <=> a # Null /\ \E u \in Threads : Waits(u) /\ a = call[u].options
    BY DEF Asked
  <2>3. ASSUME NEW a
        PROVE  a \in Asked' <=> a \in Asked /\ a \notin lost
    BY <1>4, <1>5, <2>1, <2>2
  <2> QED
    BY <2>3
<1>7. /\ RoxObjects' = RoxObjects /\ OwnObjects' = OwnObjects /\ ContextObject' = ContextObject
      /\ FlagObjects' = FlagObjects /\ Given' = Given
  BY <1>1, <1>2
     DEF Quiet, RoxObjects, OwnObjects, ContextObject, FlagObjects, Registered, Given, Exists
<1>8. lost \subseteq Live /\ Live' = Live \ lost
  BY <1>5, <1>6, <1>7 DEF Live
<1>9. MemoryInv' /\ abandoned' \cap Live' = {}
  <2> HIDE DEF lost
  <2> QED
    BY <1>1, <1>8 DEF MemoryInv, LostInv
<1>10. Losable \subseteq Losable' /\ lost \subseteq Losable
  BY <1>1, <1>5, LosableStays DEF TypeOK, Losable
<1>11. <<"built-in", rox.life>> \notin lost
  <2>1. \A a \in Made("options", "setup") : a # <<"built-in", rox.life>>
    BY DEF Made
  <2> QED
    BY <1>5, <2>1
<1> HIDE DEF lost
<1> QED
  BY <1>1, <1>2, <1>3, <1>9, <1>10, <1>11 DEF LostInv, Quiet

\* A reset frees what the Rox owns and leaves the calls that wait their options.
LEMMA ResetObjects ==
  ASSUME TypeOK, OwnInv, CallInv, LostInv, MemoryInv, Up, Reset, UNCHANGED <<pc, call>>
  PROVE  OwnInv' /\ LostInv' /\ MemoryInv'
<1>1. /\ allocated' = allocated \ Owned
      /\ rox' = NoRox /\ core' = NewCore /\ freeze' = NoFreeze /\ overrides' = NoOverrides
      /\ UNCHANGED <<lives, created, abandoned>>
  BY DEF Reset, ResetOf
<1>2. /\ rox'.life = 0 /\ rox'.options = Null /\ rox'.context = 0 /\ core'.property = Null
      /\ ~Up' /\ ~Exists' /\ Registered(core') = {}
  BY <1>1 DEF NoRox, NewCore, Up, Exists, Registered
<1>3. OwnInv'
  <2>1. 0 \in 0 .. created'["context"]
    BY <1>1 DEF TypeOK, Counted
  <2> QED
    BY <1>1, <1>2, <2>1 DEF OwnInv, NoFreeze, NoOverrides
<1>4. Live' = Asked
  <2>1. /\ RoxObjects' = {} /\ OwnObjects' = {} /\ ContextObject' = {} /\ FlagObjects' = {}
        /\ Given' = {}
    BY <1>2 DEF RoxObjects, OwnObjects, ContextObject, FlagObjects, Given
  <2> QED
    BY <2>1, AskedUntouched DEF Live
<1>5. RoxObjects \cup OwnObjects \cup ContextObject \cup FlagObjects \cup Given \subseteq Owned
  <2>1. RoxObjects \subseteq Owned
    BY DEF RoxObjects, Owned, OwnKinds
  <2>2. OwnObjects \subseteq Owned
    BY DEF OwnObjects, Owned
  <2>3. ContextObject \cup Given \subseteq Owned
    BY DEF ContextObject, Given, Owned
  <2>4. FlagObjects \subseteq Owned
    BY DEF FlagObjects, Owned
  <2> QED
    BY <2>1, <2>2, <2>3, <2>4
<1>6. Owned \subseteq Live \cup {Null, <<"context", 0>>}
  <2>1. Exists
    BY DEF Up, Exists, TypeOK, RoxOK
  <2>2. {<<k, rox.life>> : k \in {"rox"} \cup OwnKinds} \subseteq RoxObjects \cup OwnObjects
    BY <2>1 DEF RoxObjects, OwnObjects
  <2>3. {core.property, rox.options, <<"context", rox.context>>}
          \subseteq Given \cup ContextObject \cup {Null, <<"context", 0>>}
    BY DEF Given, ContextObject
  <2> QED
    BY <2>2, <2>3 DEF Owned, Live, FlagObjects
<1>7. Asked \cap Owned = {}
  <2>1. ASSUME NEW o \in Asked
        PROVE  o \notin Owned
    <3>1. PICK t \in Threads : Waits(t) /\ o = call[t].options /\ o # Null
      BY DEF Asked
    <3>2. o \notin RoxObjects \cup OwnObjects \cup ContextObject \cup FlagObjects \cup Given
      BY <3>1, WaitingOptions
    <3>3. o # <<"context", 0>> /\ o # Null
      <4>1. o[1] = "options" /\ <<"context", 0>>[1] = "context"
        BY PartKinds
      <4> QED
        BY <3>1, <4>1
    <3>4. {<<k, rox.life>> : k \in {"rox"} \cup OwnKinds} \subseteq RoxObjects \cup OwnObjects
      BY DEF Up, Exists, TypeOK, RoxOK, RoxObjects, OwnObjects
    <3>5. {core.property, rox.options, <<"context", rox.context>>}
            \subseteq Given \cup ContextObject \cup {Null, <<"context", 0>>}
      BY DEF Given, ContextObject
    <3>6. {<<"flag", f>> : f \in Registered(core)} = FlagObjects
      BY DEF FlagObjects
    <3> QED
      BY <3>2, <3>3, <3>4, <3>5, <3>6 DEF Owned
  <2> QED
    BY <2>1
<1>8. Live \ Owned = Asked
  BY <1>5, <1>7 DEF Live
<1>9. Owned \cap abandoned = {}
  BY <1>6, NeverLost DEF LostInv, Null
<1>10. MemoryInv' /\ abandoned' \cap Live' = {}
  <2>1. Live' = ((Live \ Owned) \cup {}) \ {}
    BY <1>4, <1>8
  <2>2. abandoned' = abandoned \cup {} /\ allocated' = (allocated \ Owned) \cup {}
    BY <1>1
  <2>3. abandoned \cap Live = {}
    BY DEF LostInv
  <2> QED
    BY <1>9, <2>1, <2>2, <2>3, Exchanged
<1>11. Losable' = Losable
  BY <1>1 DEF Losable, Made
<1> QED
  BY <1>1, <1>2, <1>3, <1>10, <1>11, NeverLost DEF LostInv


\* rox_setup up to rox_overrides_init: everything of the Rox's own is made, and a
\* built-in property is lost when the application has one of its name.
LEMMA BeginObjects ==
  ASSUME TypeOK, OwnInv, CallInv, LostInv, MemoryInv, Grown, NEW t \in Threads, Begin(t)
  PROVE  OwnInv' /\ LostInv' /\ MemoryInv'
<1> DEFINE L       == Rox.life
           opts    == IF call[t].options = Null THEN <<"own options", L>> ELSE call[t].options
           builtIn == <<"built-in", L>>
           own     == {<<k, L>> : k \in OwnKinds}
           new     == {<<"rox", L>>, <<"core", L>>} \cup own \cup {opts, builtIn}
           lost    == IF core.property = Null THEN {} ELSE {builtIn}
<1>1. /\ pc[t] = "enter" /\ rox.state \in {"none", "uninitialized"}
      /\ rox' = [Rox EXCEPT !.state = "settingUp", !.options = opts]
      /\ lives' = L /\ UNCHANGED <<created>>
      /\ freeze'.repository = L /\ freeze'.invoker = L
      /\ overrides'.values = L /\ overrides'.repository = L
      /\ pc' = [pc EXCEPT ![t] = "core"]
      /\ call' = [call EXCEPT ![t].rox = L]
      /\ Core = core
  BY GetOrCreate DEF Begin, BeginWrapping, Goto
<1>2. /\ core'.property = IF core.property = Null THEN builtIn ELSE core.property
      /\ core'.flags = core.flags
  BY <1>1 DEF Begin, BeginWrapping, IfNotExists, BuiltIn, TypeOK, CoreOK
<1>3. allocated' = allocated \cup new
  <2>1. WithRox({<<k, L>> : k \in OwnKinds} \cup {opts, BuiltIn(L)})
          = allocated \cup {<<"rox", L>>, <<"core", L>>} \cup (own \cup {opts, builtIn})
    BY DEF WithRox, BuiltIn
  <2>2. allocated' = WithRox({<<k, L>> : k \in OwnKinds} \cup {opts, BuiltIn(L)})
    BY DEF Begin, BeginWrapping
  <2> QED
    BY <2>1, <2>2
<1>4. abandoned' = abandoned \cup lost
  BY <1>1 DEF Begin, BeginWrapping, BuiltIn
<1>5. /\ RoxOK(Rox) /\ L \in Nat /\ L # 0 /\ ~Up /\ Rox.context = rox.context
      /\ L = IF Exists THEN rox.life ELSE lives + 1
      /\ Exists => rox.life = lives
  <2>1. RoxOK(Rox) /\ Rox.life # 0 /\ Rox.context = rox.context
    BY GetOrCreate, GotKeeps
  <2>2. L = IF Exists THEN rox.life ELSE lives + 1
    BY DEF Rox, NoRox
  <2> QED
    BY <1>1, <2>1, <2>2 DEF RoxOK, Up, OwnInv, Exists
<1>6. /\ rox'.life = L /\ rox'.state = "settingUp" /\ rox'.options = opts
      /\ rox'.context = rox.context
  BY <1>1, <1>5 DEF RoxOK
<1>7. Up' /\ Exists'
  BY <1>5, <1>6 DEF Up, Exists
<1>8. /\ rox.options = Null /\ core.property \in {Null} \cup Made("property", "property")
  BY <1>5 DEF OwnInv
<1>9. /\ CallOK(t) /\ Waits(t) /\ \A u \in Threads : Waits(u)' <=> Waits(u) /\ u # t
      /\ \A u \in Threads : u # t => call'[u] = call[u]
  BY <1>1 DEF CallInv, Waits, TypeOK
<1> HIDE DEF L
<1>10. opts \in Made("options", "setup") \cup {<<"own options", L>>}
  BY <1>9 DEF CallOK
<1>11. OwnInv'
  <2>1. rox'.context \in 0 .. created'["context"]
    BY <1>1, <1>6 DEF OwnInv
  <2>2. /\ Made("options", "setup")' = Made("options", "setup")
        /\ Made("property", "property")' = Made("property", "property")
    BY <1>1 DEF Made
  <2>3. rox'.options \in Made("options", "setup")' \cup {<<"own options", rox'.life>>}
    BY <1>6, <1>10, <2>2
  <2>4. core'.property \in {Null} \cup Made("property", "property")' \cup {<<"built-in", rox'.life>>}
    BY <1>2, <1>6, <1>8, <2>2
  <2> HIDE DEF opts, builtIn
  <2> QED
    BY <1>1, <1>6, <1>7, <2>1, <2>3, <2>4 DEF OwnInv
<1>12. /\ RoxObjects' = {<<"rox", L>>, <<"core", L>>} /\ OwnObjects' = own
       /\ ContextObject' = ContextObject /\ FlagObjects' = FlagObjects
       /\ RoxObjects \subseteq RoxObjects' /\ OwnObjects = {}
  BY <1>2, <1>5, <1>6, <1>7
     DEF RoxObjects, OwnObjects, ContextObject, FlagObjects, Registered
<1>13. opts # Null /\ builtIn # Null
  BY DEF Null
<1>14. /\ Given = {core.property} \ {Null}
       /\ Given' = {opts} \cup (IF core.property = Null THEN {builtIn} ELSE {core.property})
  BY <1>2, <1>6, <1>8, <1>13 DEF Given
<1>15. Asked' \cup {opts} = Asked \cup {opts}
  <2>1. \A a : a \in Asked' <=> a # Null /\ \E u \in Threads : Waits(u)' /\ a = call'[u].options
    BY DEF Asked
  <2>2. \A a : a \in Asked <=> a # Null /\ \E u \in Threads : Waits(u) /\ a = call[u].options
    BY DEF Asked
  <2>3. call[t].options # Null => call[t].options = opts
    OBVIOUS
  <2> HIDE DEF opts
  <2>4. ASSUME NEW a, a # opts
        PROVE  a \in Asked' <=> a \in Asked
    BY <1>9, <2>1, <2>2, <2>3, <2>4
  <2> QED
    BY <2>4
<1>16. builtIn \notin {<<"rox", L>>, <<"core", L>>} \cup own \cup {opts, core.property}
         \cup ContextObject \cup FlagObjects \cup Asked
  <2>1. builtIn[1] = "built-in"
    OBVIOUS
  <2>2. /\ \A o \in Made("options", "setup") : o[1] = "options"
        /\ \A o \in Made("property", "property") : o[1] = "property"
        /\ <<"own options", L>>[1] = "own options" /\ Null[1] = "null"
        /\ <<"rox", L>>[1] = "rox" /\ <<"core", L>>[1] = "core"
    BY DEF Made, Null
  <2>3. \A o \in own : o[1] \in OwnKinds
    OBVIOUS
  <2> HIDE DEF opts, builtIn, own
  <2> QED
    BY <1>8, <1>10, <2>1, <2>2, <2>3, PartKinds DEF OwnKinds
<1>17. opts \notin abandoned
  <2>1. CASE call[t].options = Null
    <3>1. opts = <<"own options", L>>
      BY <2>1
    <3> HIDE DEF opts
    <3> QED
      BY <3>1, NeverLost
  <2>2. CASE call[t].options # Null
    <3>1. call[t].options \in Asked
      BY <1>9, <2>2 DEF Asked
    <3> QED
      BY <2>2, <3>1 DEF Live, LostInv
  <2> QED
    BY <2>1, <2>2
<1>18. builtIn \notin abandoned
  <2>1. CASE Exists
    BY <1>5, <2>1 DEF LostInv
  <2>2. CASE ~Exists
    BY <1>5, <2>2, NeverLost
  <2> QED
    BY <2>1, <2>2
<1>19. new \cap abandoned = {}
  <2>1. <<"rox", L>> \notin abandoned /\ <<"core", L>> \notin abandoned
    BY NeverLost
  <2>2. \A o \in own : o \notin abandoned
    BY NeverLost DEF OwnKinds
  <2> HIDE DEF own, opts, builtIn
  <2> QED
    BY <1>17, <1>18, <2>1, <2>2
<1>20. MemoryInv' /\ abandoned' \cap Live' = {}
  <2>1. Live' = (Live \cup new) \ lost
    <3> HIDE DEF own, opts, builtIn
    <3>1. CASE core.property = Null
      BY <1>12, <1>13, <1>14, <1>15, <3>1 DEF Live
    <3>2. CASE core.property # Null
      BY <1>12, <1>13, <1>14, <1>15, <1>16, <3>2 DEF Live
    <3> QED
      BY <3>1, <3>2
  <2>2. lost \subseteq Live \cup new
    OBVIOUS
  <2>3. abandoned \cap Live = {}
    BY DEF LostInv
  <2> HIDE DEF new, lost
  <2>4. Live' = ((Live \ {}) \cup new) \ lost /\ allocated' = (allocated \ {}) \cup new
    BY <1>3, <2>1
  <2> QED
    BY <1>4, <1>19, <2>2, <2>3, <2>4, Exchanged
<1>21. abandoned' \subseteq Losable'
  <2>1. Losable \subseteq Losable'
    BY <1>1, <1>5, LosableStays DEF TypeOK
  <2>2. builtIn \in Losable'
    <3>1. L \in 1 .. lives'
      BY <1>1, <1>5
    <3> QED
      BY <3>1 DEF Losable
  <2> QED
    BY <1>4, <2>1, <2>2 DEF LostInv
<1> QED
  BY <1>7, <1>11, <1>20, <1>21 DEF LostInv

\* Nothing is lost but what can be, and memory is what there is a reason for.
LEMMA ObjectsKept ==
  ASSUME Inv, HeapInv, ~RacyRetries, [Next]_vars
  PROVE  OwnInv' /\ LostInv' /\ MemoryInv'
<1> USE GrownBy DEF Inv, HeapInv, TypeOK, RoxOK, CoreOK, threadVars, roxVars, heapVars
<1>1. ASSUME NEW t \in Threads, Lock(t)
      PROVE  OwnInv' /\ LostInv' /\ MemoryInv'
  <2>1. Quiet /\ UNCHANGED <<allocated, abandoned>>
    BY <1>1 DEF Lock, Goto, Quiet, Up
  <2>2. Asked' = Asked
    BY <1>1 DEF Lock, Goto, Asked, Waits
  <2> HIDE DEF TypeOK
  <2> QED
    BY <2>1, <2>2, QuietOwn, QuietLive
<1>2. ASSUME NEW t \in Threads, Refuse(t)
      PROVE  OwnInv' /\ LostInv' /\ MemoryInv'
  BY <1>2, RefuseObjects
<1>3. ASSUME NEW t \in Threads, Retry(t)
      PROVE  OwnInv' /\ LostInv' /\ MemoryInv'
  <2>1. Reset /\ UNCHANGED <<pc, call>> /\ Up
    BY <1>3 DEF Retry, Up
  <2> QED
    BY <2>1, ResetObjects
<1>4. ASSUME NEW t \in Threads, Begin(t)
      PROVE  OwnInv' /\ LostInv' /\ MemoryInv'
  BY <1>4, BeginObjects
<1>5. ASSUME NEW t \in Threads, CoreFails(t)
      PROVE  OwnInv' /\ LostInv' /\ MemoryInv'
  <2>1. Quiet /\ UNCHANGED <<allocated, abandoned>>
    BY <1>5 DEF CoreFails, CoreFailsTo, Goto, Quiet, Up, LockInv
  <2>2. Asked' = Asked
    BY <1>5 DEF CoreFails, CoreFailsTo, Goto, Asked, Waits
  <2> HIDE DEF TypeOK
  <2> QED
    BY <2>1, <2>2, QuietOwn, QuietLive
<1>6. ASSUME NEW t \in Threads, CoreSetup(t)
      PROVE  OwnInv' /\ LostInv' /\ MemoryInv'
  <2>1. Quiet /\ UNCHANGED <<allocated, abandoned>>
    BY <1>6 DEF CoreSetup, Goto, Quiet, Up
  <2>2. Asked' = Asked
    BY <1>6 DEF CoreSetup, Goto, Asked, Waits
  <2> HIDE DEF TypeOK
  <2> QED
    BY <2>1, <2>2, QuietOwn, QuietLive
<1>7. ASSUME NEW t \in Threads, Unfreeze(t)
      PROVE  OwnInv' /\ LostInv' /\ MemoryInv'
  <2>1. Quiet /\ UNCHANGED <<allocated, abandoned>>
    BY <1>7 DEF Unfreeze, Quiet, Up
  <2>2. Asked' = Asked
    BY <1>7 DEF Unfreeze, Asked, Waits
  <2> HIDE DEF TypeOK
  <2> QED
    BY <2>1, <2>2, QuietOwn, QuietLive
<1>8. ASSUME NEW t \in Threads, Notify(t)
      PROVE  OwnInv' /\ LostInv' /\ MemoryInv'
  <2>1. Quiet /\ UNCHANGED <<allocated, abandoned>>
    BY <1>8 DEF Notify, Goto, Quiet, Up
  <2>2. Asked' = Asked
    BY <1>8 DEF Notify, Goto, Asked, Waits
  <2> HIDE DEF TypeOK
  <2> QED
    BY <2>1, <2>2, QuietOwn, QuietLive
<1>9. ASSUME NEW t \in Threads, HandlerReturns(t)
      PROVE  OwnInv' /\ LostInv' /\ MemoryInv'
  <2>1. Quiet /\ UNCHANGED <<allocated, abandoned>>
    BY <1>9 DEF HandlerReturns, Goto, Quiet, Up
  <2>2. Asked' = Asked
    BY <1>9 DEF HandlerReturns, Goto, Asked, Waits
  <2> HIDE DEF TypeOK
  <2> QED
    BY <2>1, <2>2, QuietOwn, QuietLive
<1>10. ASSUME NEW t \in Threads, Fetched(t)
      PROVE  OwnInv' /\ LostInv' /\ MemoryInv'
  <2>1. Quiet /\ UNCHANGED <<allocated, abandoned>>
    BY <1>10 DEF Fetched, Goto, Quiet, Up
  <2>2. Asked' = Asked
    BY <1>10 DEF Fetched, Goto, Asked, Waits
  <2> HIDE DEF TypeOK
  <2> QED
    BY <2>1, <2>2, QuietOwn, QuietLive
<1>11. ASSUME NEW t \in Threads, Unlock(t)
      PROVE  OwnInv' /\ LostInv' /\ MemoryInv'
  <2>1. Quiet /\ UNCHANGED <<allocated, abandoned>>
    BY <1>11 DEF Unlock, Goto, Quiet, Up
  <2>2. Asked' = Asked
    BY <1>11 DEF Unlock, Goto, Asked, Waits
  <2> HIDE DEF TypeOK
  <2> QED
    BY <2>1, <2>2, QuietOwn, QuietLive
<1>12. ASSUME NEW t \in Threads, Return(t)
      PROVE  OwnInv' /\ LostInv' /\ MemoryInv'
  <2>1. Quiet /\ UNCHANGED <<allocated, abandoned>>
    BY <1>12 DEF Return, Goto, Quiet, Up
  <2>2. Asked' = Asked
    BY <1>12 DEF Return, Goto, Asked, Waits
  <2> HIDE DEF TypeOK
  <2> QED
    BY <2>1, <2>2, QuietOwn, QuietLive
<1>13. ASSUME NEW t \in Threads, NEW v \in BOOLEAN, CallSetupPlain(t, v)
      PROVE  OwnInv' /\ LostInv' /\ MemoryInv'
  <2>1. Quiet /\ UNCHANGED <<allocated, abandoned>>
    BY <1>13 DEF CallSetupPlain, Goto, Quiet, Up
  <2>2. /\ pc[t] = "out" /\ pc' = [pc EXCEPT ![t] = "lock"]
        /\ call'[t].options = Null /\ \A u \in Threads : u # t => call'[u] = call[u]
    BY <1>13 DEF CallSetupPlain, Goto, NoCall
  <2>3. Asked' = Asked
    <3>1. ~Waits(t) /\ \A u \in Threads : u # t => (Waits(u)' <=> Waits(u))
      BY <2>2 DEF Waits
    <3>2. \A a : a \in Asked' <=> a # Null /\ \E u \in Threads : Waits(u)' /\ a = call'[u].options
      BY DEF Asked
    <3>3. \A a : a \in Asked <=> a # Null /\ \E u \in Threads : Waits(u) /\ a = call[u].options
      BY DEF Asked
    <3>4. ASSUME NEW a
          PROVE  a \in Asked' <=> a \in Asked
      BY <2>2, <3>1, <3>2, <3>3
    <3> QED
      BY <3>4
  <2> HIDE DEF TypeOK
  <2> QED
    BY <2>1, <2>3, QuietOwn, QuietLive
<1>14. ASSUME NEW t \in Threads, NEW v \in BOOLEAN, NEW l \in DefaultFreezes,
             CallSetup(t, v, l)
      PROVE  OwnInv' /\ LostInv' /\ MemoryInv'
  BY <1>14, CallSetupObjects
<1>15. ASSUME NEW t \in Threads, NEW n \in Names, DynamicRead(t, n)
      PROVE  OwnInv' /\ LostInv' /\ MemoryInv'
  BY <1>15, DynamicReadObjects
<1>16. ASSUME NEW t \in Threads, NEW n \in Names, NEW l \in Levels, AddFlag(t, n, l)
      PROVE  OwnInv' /\ LostInv' /\ MemoryInv'
  BY <1>16, AddFlagObjects
<1>17. ASSUME NEW t \in Threads, NEW f \in DOMAIN flag, Evaluate(t, f)
      PROVE  OwnInv' /\ LostInv' /\ MemoryInv'
  <2>1. Quiet /\ UNCHANGED <<allocated, abandoned>>
    BY <1>17 DEF Evaluate, Quiet, Up
  <2>2. Asked' = Asked
    BY <1>17 DEF Evaluate, Asked, Waits
  <2> HIDE DEF TypeOK
  <2> QED
    BY <2>1, <2>2, QuietOwn, QuietLive
<1>18. ASSUME NEW t \in Threads, SetProperty(t)
      PROVE  OwnInv' /\ LostInv' /\ MemoryInv'
  BY <1>18, SetPropertyObjects
<1>19. ASSUME NEW t \in Threads, SetContext(t)
      PROVE  OwnInv' /\ LostInv' /\ MemoryInv'
  BY <1>19, SetContextObjects
<1>20. ASSUME NEW t \in Threads, ClearContext(t)
      PROVE  OwnInv' /\ LostInv' /\ MemoryInv'
  BY <1>20, ClearContextObjects
<1>21. ASSUME NEW t \in Threads, Fetch(t)
      PROVE  OwnInv' /\ LostInv' /\ MemoryInv'
  <2>1. Quiet /\ UNCHANGED <<allocated, abandoned>>
    BY <1>21 DEF Fetch, Goto, Quiet, Up
  <2>2. Asked' = Asked
    BY <1>21 DEF Fetch, Goto, Asked, Waits
  <2> HIDE DEF TypeOK
  <2> QED
    BY <2>1, <2>2, QuietOwn, QuietLive
<1>22. ASSUME NEW t \in Threads, Shutdown(t)
      PROVE  OwnInv' /\ LostInv' /\ MemoryInv'
  <2>1. Reset /\ UNCHANGED <<pc, call>> /\ Up
    BY <1>22 DEF Shutdown, Up
  <2> QED
    BY <2>1, ResetObjects
<1>23. CASE UNCHANGED vars
  <2>1. Quiet /\ UNCHANGED <<allocated, abandoned>>
    BY <1>23 DEF vars, Quiet, Up
  <2>2. Asked' = Asked
    BY <1>23 DEF vars, Asked, Waits
  <2> HIDE DEF TypeOK
  <2> QED
    BY <2>1, <2>2, QuietOwn, QuietLive
<1> HIDE DEF Inv, HeapInv, TypeOK, RoxOK, CoreOK, threadVars, roxVars, heapVars
<1> QED
  <2>1. ASSUME NEW t \in Threads, SetupStep(t)
        PROVE  OwnInv' /\ LostInv' /\ MemoryInv'
    BY <2>1, <1>1, <1>2, <1>3, <1>4, <1>5, <1>6, <1>7, <1>8, <1>9, <1>10, <1>11, <1>12
       DEF SetupStep
  <2>2. ASSUME NEW t \in Threads, NEW v \in BOOLEAN,
               CallSetupPlain(t, v) \/ \E l \in DefaultFreezes : CallSetup(t, v, l)
        PROVE  OwnInv' /\ LostInv' /\ MemoryInv'
    BY <2>2, <1>13, <1>14
  <2>3. ASSUME NEW t \in Threads, NEW n \in Names,
               DynamicRead(t, n) \/ \E l \in Levels : AddFlag(t, n, l)
        PROVE  OwnInv' /\ LostInv' /\ MemoryInv'
    BY <2>3, <1>15, <1>16
  <2> QED
    BY <2>1, <2>2, <2>3, <1>17, <1>18, <1>19, <1>20, <1>21, <1>22, <1>23 DEF Next

\* An object that was made has a number.
LEMMA MadeNumbers ==
  \A kind, counter : \A o \in Made(kind, counter) : o[2] \in 1 .. created[counter]
BY DEF Made

\* What the SDK points to: from its globals and the statics, from the flags, and from
\* the calls.
Named ==
  {<<"rox", rox.life>>, <<"core", rox.life>>, rox.options, core.property,
   <<"context", rox.context>>, <<"context", core.context>>,
   <<"core", freeze.repository>>, <<"core", freeze.invoker>>,
   <<"overrides", overrides.values>>, <<"core", overrides.repository>>}
Hung ==
  UNION {{<<"overrides", flag[f].values>>, <<"context", flag[f].context>>} : f \in Registered(core)}
Passed == {call[t].options : t \in {u \in Threads : pc[u] \in {"lock", "enter"}}}
Kept   == {<<"rox", call[t].rox>> : t \in {u \in Threads : pc[u] = "return"}}

\* That is all of it.
LEMMA PointersSplit ==
  Pointers = Named \cup OwnObjects \cup FlagObjects \cup Hung \cup Passed \cup Kept
BY DEF Pointers, Named, OwnObjects, FlagObjects, Hung, Passed, Kept, Up

\* What the SDK points to is what there is a reason for.
LEMMA PointersAre ==
  ASSUME Inv, OwnInv, CallInv
  PROVE  {o \in Pointers : o[2] # 0} = Live
<1>1. /\ rox.life \in Nat /\ (Up => Exists)
      /\ created["setup"] \in Nat /\ created["property"] \in Nat
  BY DEF Inv, TypeOK, RoxOK, Up, Exists, Counted
<1>2. TypeOK /\ ReadyInv
  BY DEF Inv
<1>3. Null[2] = 0 /\ \A k, n : <<k, n>>[2] = n
  BY DEF Null
<1>4. /\ \A t \in Threads : Waits(t) <=> pc[t] \in {"lock", "enter"}
      /\ Up <=> rox.state \in {"settingUp", "initialized", "error"}
  BY DEF Waits, Up
<1>5. /\ rox.options = Null \/ rox.options[2] # 0
      /\ core.property = Null \/ core.property[2] # 0
  <2>1. /\ \A o \in Made("options", "setup") : o[2] # 0
        /\ \A o \in Made("property", "property") : o[2] # 0
    BY <1>1, MadeNumbers
  <2>2. /\ \/ rox.options = Null \/ rox.options \in Made("options", "setup")
           \/ Up /\ rox.options = <<"own options", rox.life>>
        /\ \/ core.property = Null \/ core.property \in Made("property", "property")
           \/ Up /\ core.property = <<"built-in", rox.life>>
    <3>1. CASE Up
      BY <3>1 DEF OwnInv
    <3>2. CASE ~Up
      BY <3>2 DEF OwnInv
    <3> QED
      BY <3>1, <3>2
  <2>3. Up => <<"own options", rox.life>>[2] # 0 /\ <<"built-in", rox.life>>[2] # 0
    BY <1>1, <1>3 DEF Exists
  <2> QED
    BY <2>1, <2>2, <2>3
<1>6. \A t \in Threads : call[t].options = Null \/ call[t].options[2] # 0
  <2>1. \A o \in Made("options", "setup") : o[2] # 0
    BY <1>1, MadeNumbers
  <2> QED
    BY <2>1 DEF CallInv, CallOK
<1>7. \A o \in Live : o[2] # 0
  <2>1. \A o \in RoxObjects \cup OwnObjects : o[2] # 0
    BY <1>1, <1>3 DEF RoxObjects, OwnObjects, Exists
  <2>2. \A o \in ContextObject \cup FlagObjects : o[2] # 0
    BY <1>3 DEF ContextObject, FlagObjects, Registered
  <2>3. \A o \in Given \cup Asked : o[2] # 0
    BY <1>5, <1>6 DEF Given, Asked
  <2> QED
    BY <2>1, <2>2, <2>3 DEF Live
<1>8. Live \subseteq Pointers
  <2>1. RoxObjects \cup OwnObjects \cup ContextObject \subseteq Pointers
    BY PointersSplit DEF RoxObjects, ContextObject, Named
  <2>2. FlagObjects \cup Given \subseteq Pointers
    BY PointersSplit DEF Given, Named
  <2>3. Asked \subseteq Pointers
    <3>1. {u \in Threads : Waits(u)} = {u \in Threads : pc[u] \in {"lock", "enter"}}
      BY <1>4
    <3>2. Asked \subseteq Passed
      BY <3>1 DEF Asked, Passed
    <3> QED
      BY <3>2, PointersSplit
  <2> QED
    BY <2>1, <2>2, <2>3 DEF Live
<1>9. ASSUME NEW o \in Pointers, o[2] # 0
      PROVE  o \in Live
  <2> DEFINE n == IF Up THEN rox.life ELSE 0
  <2>1. CASE o \in {<<"rox", rox.life>>, <<"core", rox.life>>}
    BY <1>3, <1>9, <2>1 DEF Live, RoxObjects, Exists
  <2>2. CASE o \in {rox.options, core.property}
    BY <1>3, <1>9, <2>2 DEF Live, Given
  <2>3. ASSUME o = <<"context", rox.context>>
        PROVE  o \in Live
    <3>1. rox.context # 0
      BY <1>3, <1>9, <2>3
    <3>2. o # <<"context", 0>>
      BY <1>3, <1>9, <2>3
    <3> QED
      BY <2>3, <3>2 DEF Live, ContextObject
  <2>4. CASE o = <<"context", core.context>>
    BY <1>2, <2>3, <2>4 DEF ReadyInv
  <2>5. ASSUME NEW k \in OwnKinds, o = <<k, n>>
        PROVE  o \in Live
    <3>1. n # 0
      BY <1>3, <1>9, <2>5
    <3>2. Up /\ o = <<k, rox.life>>
      BY <2>5, <3>1
    <3> QED
      BY <3>2 DEF Live, OwnObjects
  <2>6. CASE o \in {<<"core", freeze.repository>>, <<"core", freeze.invoker>>,
                    <<"overrides", overrides.values>>, <<"core", overrides.repository>>}
    <3>1. /\ freeze.repository = n /\ freeze.invoker = n
          /\ overrides.values = n /\ overrides.repository = n
      BY DEF OwnInv
    <3>2. "core" \in OwnKinds /\ "overrides" \in OwnKinds
      BY DEF OwnKinds
    <3> HIDE DEF n
    <3> QED
      BY <2>5, <2>6, <3>1, <3>2
  <2>7. CASE o \in (IF Up THEN {<<k, rox.life>> : k \in OwnKinds} ELSE {})
    BY <2>7 DEF Live, OwnObjects
  <2>8. CASE o \in {<<"flag", f>> : f \in Registered(core)}
    BY <2>8 DEF Live, FlagObjects
  <2>9. ASSUME NEW f \in Registered(core),
               o \in {<<"overrides", flag[f].values>>, <<"context", flag[f].context>>}
        PROVE  o \in Live
    <3>1. flag[f].context = rox.context /\ flag[f].values = n
      BY <1>2 DEF ReadyInv, FlagReady, OwnInv
    <3>2. "overrides" \in OwnKinds
      BY DEF OwnKinds
    <3> HIDE DEF n
    <3> QED
      BY <2>3, <2>5, <2>9, <3>1, <3>2
  <2>10. CASE \E t \in Threads : Waits(t) /\ o = call[t].options
    BY <1>3, <1>9, <2>10 DEF Live, Asked
  <2>11. CASE \E t \in Threads : pc[t] = "return" /\ o = <<"rox", call[t].rox>>
    <3>1. PICK t \in Threads : pc[t] = "return" /\ o = <<"rox", call[t].rox>>
      BY <2>11
    <3>2. call[t].rox = rox.life
      BY <3>1 DEF CallInv, CallOK, Inside
    <3> QED
      BY <2>1, <3>1, <3>2
  <2>12. \/ o \in {<<"rox", rox.life>>, <<"core", rox.life>>}
         \/ o \in {rox.options, core.property}
         \/ o = <<"context", rox.context>> \/ o = <<"context", core.context>>
         \/ o \in {<<"core", freeze.repository>>, <<"core", freeze.invoker>>,
                   <<"overrides", overrides.values>>, <<"core", overrides.repository>>}
         \/ o \in (IF Up THEN {<<k, rox.life>> : k \in OwnKinds} ELSE {})
         \/ o \in {<<"flag", f>> : f \in Registered(core)}
         \/ \E f \in Registered(core) :
              o \in {<<"overrides", flag[f].values>>, <<"context", flag[f].context>>}
         \/ \E t \in Threads : Waits(t) /\ o = call[t].options
         \/ \E t \in Threads : pc[t] = "return" /\ o = <<"rox", call[t].rox>>
    <3>1. \/ o \in Named \/ o \in OwnObjects \/ o \in FlagObjects
          \/ o \in Hung \/ o \in Passed \/ o \in Kept
      BY <1>9, PointersSplit
    <3>2. o \in Hung => \E f \in Registered(core) :
            o \in {<<"overrides", flag[f].values>>, <<"context", flag[f].context>>}
      BY DEF Hung
    <3>3. /\ o \in Passed => \E t \in Threads : Waits(t) /\ o = call[t].options
          /\ o \in Kept => \E t \in Threads : pc[t] = "return" /\ o = <<"rox", call[t].rox>>
      BY <1>4 DEF Passed, Kept
    <3> QED
      BY <3>1, <3>2, <3>3 DEF Named, OwnObjects, FlagObjects
  <2> HIDE DEF n
  <2> QED
    BY <2>1, <2>2, <2>3, <2>4, <2>6, <2>7, <2>8, <2>9, <2>10, <2>11, <2>12
<1> QED
  BY <1>7, <1>8, <1>9

-----------------------------------------------------------------------------
(***************************************************************************)
(* The theorems.                                                           *)
(***************************************************************************)

\* The invariant the three others are parts of.
THEOREM InvariantHolds == Spec => []Inv
<1>1. Init => Inv
  <2>1. ASSUME Init
        PROVE  TypeOK
    <3>1. RoxOK(rox) /\ CoreOK(core)
      BY <2>1 DEF Init, RoxOK, CoreOK, States, NoRox, NewCore
    <3>2. /\ DOMAIN flag = 1 .. Bound["flag"]
          /\ \A f \in DOMAIN flag : flag[f] = NewFlag
      BY <2>1 DEF Init
    <3>3. created \in [Counted -> Nat] /\ created["flag"] = 0 /\ Bound["flag"] \in Nat
      BY <2>1, LifecycleAssumption DEF Init, Counted
    <3>4. /\ pc \in [Threads -> Places] /\ DOMAIN call = Threads /\ lock \in BOOLEAN
          /\ rox = NoRox /\ core = NewCore /\ lives \in Nat
          /\ DOMAIN freeze = {"repository", "invoker", "handle", "level"}
      BY <2>1 DEF Init, Places, NoFreeze
    <3>5. \A n \in Names : core.flags[n] <= created["flag"]
      BY <3>3, <3>4 DEF NewCore
    <3> QED
      BY <3>1, <3>2, <3>3, <3>4, <3>5 DEF TypeOK
  <2>2. ASSUME Init
        PROVE  ReadyInv
    BY <2>2 DEF Init, ReadyInv, Up, NoRox, NewCore, NoFreeze, Registered
  <2>3. ASSUME Init
        PROVE  LockInv /\ FetchInv
    BY <2>3 DEF Init, LockInv, FetchInv, Locks, Telling, NoRox
  <2> QED
    BY <2>1, <2>2, <2>3 DEF Inv
<1>2. Inv /\ [Next]_vars => Inv'
  BY TypeKept, LockKept, ReadyKept, FetchKept DEF Inv
<1> QED
  BY <1>1, <1>2, PTL DEF Spec

\* Whatever threads set the SDK up, once or again after a failure or a shutdown, and
\* whenever a flag is added, it asks overrides and then freeze, of this setup.
THEOREM FlagsReady == Spec => []FlagsAreReady
<1>1. Inv => FlagsAreReady
  BY DEF Inv, ReadyInv, FlagReady, FlagsAreReady, Up
<1> QED
  BY <1>1, InvariantHolds, PTL

\* The application's handler hears of the first fetch when freeze.c's has released the
\* flags, and nothing has frozen one again in between.
THEOREM FirstFetchReleased == Spec => FirstFetchReleases
<1> DEFINE Released ==
      \A t \in Threads :
        pc[t] = "notify" /\ pc'[t] = "handler" /\ rox.state = "settingUp" =>
          \A f \in Registered(core) : ~flag'[f].frozen
<1>1. Inv /\ [Next]_vars => [Released]_vars
  <2> SUFFICES ASSUME Inv, Next, NEW t \in Threads,
                      pc[t] = "notify", pc'[t] = "handler", rox.state = "settingUp"
               PROVE  \A f \in Registered(core) : ~flag'[f].frozen
    BY DEF Released
  <2>1. Notify(t)
    BY OnlyNotify DEF HandlerIsTold
  <2>2. left # <<>> /\ Head(left) = "application" /\ flag' = flag
    BY <2>1 DEF Notify
  <2>3. left = <<"application">> /\ \A f \in Registered(core) : ~flag[f].frozen
    BY <2>2, FirstHandlers DEF Inv, FetchInv
  <2> QED
    BY <2>2, <2>3
<1> QED
  BY <1>1, InvariantHolds, PTL DEF Spec, FirstFetchReleases


\* When the SDK is not reset under a rox_setup that is returning, memory is at any step
\* of any sequence of calls what the SDK points to and what it is known to lose.
THEOREM MemoryIsExact == ~RacyRetries => (Spec => []HeapIsExact)
<1> SUFFICES ASSUME ~RacyRetries
             PROVE  Spec => []HeapIsExact
  OBVIOUS
<1>1. Init => HeapInv
  <2> SUFFICES ASSUME Init
               PROVE  HeapInv
    OBVIOUS
  <2>1. /\ pc = [t \in Threads |-> "out"] /\ call = [t \in Threads |-> NoCall]
        /\ rox = NoRox /\ lives = 0 /\ core = NewCore /\ freeze = NoFreeze
        /\ overrides = NoOverrides /\ created = [k \in Counted |-> 0]
        /\ allocated = {} /\ abandoned = {}
    BY DEF Init
  <2>2. ~Up /\ ~Exists /\ Registered(core) = {}
    BY <2>1 DEF Up, Exists, NoRox, NewCore, Registered
  <2>3. OwnInv
    BY <2>1, <2>2 DEF OwnInv, NoRox, NewCore, NoFreeze, NoOverrides, Counted
  <2>4. \A t \in Threads : ~Waits(t) /\ ~Inside(t) /\ pc[t] # "refused" /\ call[t] = NoCall
    BY <2>1 DEF Waits, Inside, Locks, Telling
  <2>5. CallInv
    BY <2>4 DEF CallInv, CallOK, Apart, NoCall
  <2>6. Live = {}
    BY <2>1, <2>2, <2>4
       DEF Live, RoxObjects, OwnObjects, ContextObject, FlagObjects, Given, Asked, NoRox, NewCore
  <2> QED
    BY <2>1, <2>3, <2>5, <2>6 DEF HeapInv, LostInv, MemoryInv
<1>2. Inv /\ HeapInv /\ [Next]_vars => HeapInv'
  BY CallKept, ObjectsKept DEF HeapInv
<1>3. Inv /\ HeapInv => HeapIsExact
  <2> SUFFICES ASSUME Inv, HeapInv
               PROVE  HeapIsExact
    OBVIOUS
  <2>1. {o \in Pointers : o[2] # 0} = Live
    BY PointersAre DEF HeapInv
  <2>2. \A t \in Threads : pc[t] = "refused" => rox.life # 0
    BY DEF HeapInv, CallInv, CallOK, Exists
  <2> QED
    BY <2>1, <2>2 DEF HeapIsExact, HeapInv, MemoryInv
<1> QED
  BY <1>1, <1>2, <1>3, InvariantHolds, PTL DEF Spec

=============================================================================
