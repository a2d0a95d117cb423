------------------------------ MODULE Lifecycle -------------------------------
(***************************************************************************)
(* The SDK as its application sees it: rox_setup under its lock, the       *)
(* global Rox and what it owns, the flags, properties and contexts that    *)
(* come before, during and after it, what freeze.c and overrides.c hang    *)
(* into the flags, and how reset_state takes all of it down again.         *)
(* The heap is explicit: an object is a kind and a number, a pointer is    *)
(* the number, 0 is NULL.                                                  *)
(***************************************************************************)
EXTENDS Naturals, Sequences, SequencesExt

CONSTANTS
  Threads,        \* application threads
  Names,          \* names of flags
  Bound,          \* how many calls of rox_setup, contexts, flags and properties
  DefaultFreezes, \* what options passed to rox_setup say of it, or "unset"
  Levels,         \* levels a flag is added with, or "unset"
  RacyRetries     \* may the SDK be reset while a rox_setup is returning?

Counted  == {"setup", "context", "flag", "property"}
OwnKinds == {"core", "settings", "storage", "device", "entities", "overrides"}
Freezes  == {"untilLaunch", "untilForeground", "none"}

ASSUME LifecycleAssumption ==
  /\ Bound \in [Counted -> Nat]
  /\ DefaultFreezes \subseteq Freezes \cup {"unset"}
  /\ Levels \subseteq Freezes \cup {"unset"}
  /\ RacyRetries \in BOOLEAN

VARIABLES
  pc,          \* where each thread is
  call,        \* the arguments of its rox_setup, and its local pointer rox
  lock,        \* is startup_shutdown_lock held?
  rox,         \* rox_global: its number, state, options and context
  lives,       \* how many of them there have been
  core,        \* rox_global->core
  freeze,      \* the statics of freeze.c
  overrides,   \* the statics of overrides.c
  flag,        \* the flags ever created
  left,        \* the fetched invoker's handlers still to be called
  created,     \* how many objects of each kind there have been
  allocated,   \* the objects in memory
  abandoned    \* those of them that nothing will ever free

threadVars == <<pc, call, lock>>
heapVars   == <<created, allocated, abandoned>>
roxVars    == <<rox, lives>>
vars == <<threadVars, roxVars, core, freeze, overrides, flag, left, heapVars>>

Goto(t, loc) == pc' = [pc EXCEPT ![t] = loc]

-----------------------------------------------------------------------------
(***************************************************************************)
(* Objects.                                                                *)
(***************************************************************************)
Null        == <<"null", 0>>
NoRox       == [life |-> 0, state |-> "none", options |-> Null, context |-> 0]
NewCore     == [flags |-> [n \in Names |-> 0], callbacks |-> <<"context">>,
                handlers |-> <<>>, property |-> Null, context |-> 0]
NoFreeze    == [repository |-> 0, invoker |-> 0, handle |-> FALSE, level |-> "none"]
NoOverrides == [values |-> 0, repository |-> 0]
NewFlag     == [chain |-> <<>>, level |-> "none", asked |-> "unset", frozen |-> FALSE,
                values |-> 0, context |-> 0]

Number(kind)    == created[kind] + 1
Creatable(kind) == created[kind] < Bound[kind]
Another(kind)   == [created EXCEPT ![kind] = @ + 1]
Registered(c)  == {c.flags[n] : n \in Names} \ {0}

\* rox_get_or_create: the Rox there is, or a new one with a new core.
Exists == rox.life # 0
Rox    == IF Exists THEN rox ELSE [NoRox EXCEPT !.life = lives + 1, !.state = "uninitialized"]
Core   == IF Exists THEN core ELSE NewCore
WithRox(objects) == allocated \cup {<<"rox", Rox.life>>, <<"core", Rox.life>>} \cup objects

NoCall == [valid |-> TRUE, options |-> Null, level |-> "unset", rox |-> 0]

Init ==
  /\ pc = [t \in Threads |-> "out"]
  /\ call = [t \in Threads |-> NoCall]
  /\ lock = FALSE
  /\ rox = NoRox /\ lives = 0 /\ core = NewCore
  /\ freeze = NoFreeze /\ overrides = NoOverrides
  /\ flag = [f \in 1 .. Bound["flag"] |-> NewFlag]
  /\ left = <<>>
  /\ created = [k \in Counted |-> 0]
  /\ allocated = {} /\ abandoned = {}

\* The application makes one call after the other, but for rox_setup, which
\* any thread may call; its fetched handler runs inside a call and may make
\* others.
MayCall(t) ==
  \/ pc[t] = "handler"
  \/ pc[t] = "out" /\ ~lock /\ \A u \in Threads : pc[u] \in {"out", "lock"}

-----------------------------------------------------------------------------
(***************************************************************************)
(* Flags: what is hung into them.  chain lists the evaluation functions,   *)
(* outermost first.                                                        *)
(***************************************************************************)
Wrapped(f, func) == [f EXCEPT !.chain = <<func>> \o @]

\* get_freeze_context.
Freezable(f) == IF Contains(f.chain, "freeze") THEN f ELSE Wrapped(f, "freeze")

\* rox_freeze_flag: a level the flag was added with stays.
FreezeFlag(f, level) ==
  IF f.asked # "unset" THEN Freezable(f) ELSE [Freezable(f) EXCEPT !.level = level]

\* add_freeze.
AddFreeze(f, level) ==
  [Freezable(f) EXCEPT !.level = level, !.asked = level]

\* init_flag_overrides.
InitFlagOverrides(f, values) == [Wrapped(f, "overrides") EXCEPT !.values = values]

\* A flag added callback.
Called(f, callback) ==
  CASE callback = "context"   -> IF Core.context # 0 THEN [f EXCEPT !.context = Core.context] ELSE f
    [] callback = "freeze"    -> FreezeFlag(f, freeze.level)
    [] callback = "overrides" -> InitFlagOverrides(f, overrides.values)

\* A new flag, after the callbacks in their order; there are never more than three.
AfterCallback(f, i) ==
  IF i \in DOMAIN Core.callbacks THEN Called(f, Core.callbacks[i]) ELSE f

Announced == AfterCallback(AfterCallback(AfterCallback(NewFlag, 1), 2), 3)

-----------------------------------------------------------------------------
(***************************************************************************)
(* Calls that work before, during and after rox_setup.                     *)
(***************************************************************************)

\* rox_core_add_flag: "Flag already registered".
Taken(name) == Core.flags[name] # 0

\* rox_add_flag and its siblings, with or without a freeze level.  A flag
\* whose name is taken is returned all the same; no repository knows it.
AddFlag(t, name, level) ==
  /\ MayCall(t) /\ Creatable("flag")
  /\ LET f     == Number("flag")
         taken == Taken(name)
     IN /\ flag' = IF taken THEN flag
                   ELSE [flag EXCEPT ![f] = IF level = "unset" THEN Announced
                                              ELSE AddFreeze(Announced, level)]
        /\ core' = IF taken THEN Core ELSE [Core EXCEPT !.flags[name] = f]
        /\ abandoned' = IF taken THEN abandoned \cup {<<"flag", f>>} ELSE abandoned
        /\ allocated' = WithRox({<<"flag", f>>})
  /\ rox' = Rox /\ lives' = Rox.life
  /\ created' = Another("flag")
  /\ UNCHANGED <<threadVars, freeze, overrides, left>>

\* rox_dynamic_api_..._ctx: a flag nobody added is added when it is read.
DynamicRead(t, name) ==
  /\ MayCall(t) /\ rox.state = "initialized" /\ Creatable("flag")
  /\ core.flags[name] = 0
  /\ LET f == Number("flag")
     IN /\ flag' = [flag EXCEPT ![f] = Announced]
        /\ core' = [core EXCEPT !.flags[name] = f]
        /\ allocated' = allocated \cup {<<"flag", f>>}
  /\ created' = Another("flag")
  /\ UNCHANGED <<threadVars, roxVars, freeze, overrides, left, abandoned>>

\* custom_property_repository_add_custom_property frees the one before.
AddCustomProperty(property) ==
  /\ core' = [Core EXCEPT !.property = property]
  /\ allocated' = WithRox({property}) \ {Core.property}

\* rox_set_custom_..._property, with the name of a property rox_setup adds.
SetProperty(t) ==
  /\ MayCall(t) /\ Creatable("property")
  /\ AddCustomProperty(<<"property", Number("property")>>)
  /\ rox' = Rox /\ lives' = Rox.life
  /\ created' = Another("property")
  /\ UNCHANGED <<threadVars, freeze, overrides, flag, left, abandoned>>

\* The first evaluation of a flag with a level freezes it.
Evaluate(t, f) ==
  /\ MayCall(t)
  /\ f \in Registered(core) /\ Exists
  /\ Contains(flag[f].chain, "freeze") /\ flag[f].level # "none"
  /\ ~flag[f].frozen
  /\ flag' = [flag EXCEPT ![f].frozen = TRUE]
  /\ UNCHANGED <<threadVars, roxVars, core, freeze, overrides, left, heapVars>>

(***************************************************************************)
(* Calls that check_setup_called refuses before rox_setup has returned.    *)
(***************************************************************************)

\* rox_core_set_context: the flags the repository has; core_repository_callback
\* sees to those to come.
SetCoreContext(c) ==
  /\ core' = [core EXCEPT !.context = c]
  /\ flag' = [f \in DOMAIN flag |->
                IF f \in Registered(core) THEN [flag[f] EXCEPT !.context = c] ELSE flag[f]]

\* rox_set_context with a context, which ROX owns from then on; the handler may
\* call it before its time, and nobody frees the context.
SetContext(t) ==
  /\ MayCall(t) /\ Creatable("context")
  /\ pc[t] = "handler" \/ rox.state = "initialized"
  /\ LET c == Number("context")
     IN IF rox.state = "initialized"
        THEN /\ rox' = [rox EXCEPT !.context = c]
             /\ SetCoreContext(c)
             /\ allocated' = (allocated \ {<<"context", rox.context>>}) \cup {<<"context", c>>}
             /\ UNCHANGED abandoned
        ELSE /\ allocated' = allocated \cup {<<"context", c>>}
             /\ abandoned' = abandoned \cup {<<"context", c>>}
             /\ UNCHANGED <<rox, core, flag>>
  /\ created' = Another("context")
  /\ UNCHANGED <<threadVars, lives, freeze, overrides, left>>

\* rox_set_context(NULL).
ClearContext(t) ==
  /\ MayCall(t) /\ rox.state = "initialized" /\ rox.context # 0
  /\ rox' = [rox EXCEPT !.context = 0]
  /\ SetCoreContext(0)
  /\ allocated' = allocated \ {<<"context", rox.context>>}
  /\ UNCHANGED <<threadVars, lives, freeze, overrides, left, created, abandoned>>

\* rox_fetch: whatever comes of the request, the handlers hear of it once.
Fetch(t) ==
  /\ MayCall(t) /\ pc[t] = "out"
  /\ rox.state = "initialized"
  /\ left' = core.handlers
  /\ Goto(t, "notify")
  /\ UNCHANGED <<call, lock, roxVars, core, freeze, overrides, flag, heapVars>>

-----------------------------------------------------------------------------
(***************************************************************************)
(* rox_setup.                                                              *)
(***************************************************************************)

\* With options of the application's, which may name a default freeze level,
\* or with NULL for them.
CallSetup(t, valid, level) ==
  /\ pc[t] = "out" /\ Creatable("setup")
  /\ call' = [call EXCEPT ![t] = [valid |-> valid, options |-> <<"options", Number("setup")>>,
                                  level |-> level, rox |-> 0]]
  /\ created' = Another("setup")
  /\ allocated' = allocated \cup {<<"options", Number("setup")>>}
  /\ Goto(t, "lock")
  /\ UNCHANGED <<lock, roxVars, core, freeze, overrides, flag, left, abandoned>>

CallSetupPlain(t, valid) ==
  /\ pc[t] = "out" /\ Creatable("setup")
  /\ call' = [call EXCEPT ![t] = [NoCall EXCEPT !.valid = valid]]
  /\ created' = Another("setup")
  /\ Goto(t, "lock")
  /\ UNCHANGED <<lock, roxVars, core, freeze, overrides, flag, left, allocated, abandoned>>

Lock(t) ==
  /\ pc[t] = "lock"
  /\ ~lock
  /\ lock' = TRUE
  /\ Goto(t, "enter")
  /\ UNCHANGED <<call, roxVars, core, freeze, overrides, flag, left, heapVars>>

\* "Calling rox_setup more than once": the options are nobody's from here on.
Refuse(t) ==
  /\ pc[t] = "enter"
  /\ rox.state \notin {"none", "uninitialized", "error"}
  /\ lock' = FALSE
  /\ abandoned' = abandoned \cup ({call[t].options} \ {Null})
  /\ Goto(t, "refused")
  /\ UNCHANGED <<call, roxVars, core, freeze, overrides, flag, left, created, allocated>>

\* What reset_state frees: the Rox and everything it owns.
Owned ==
  {<<k, rox.life>> : k \in {"rox"} \cup OwnKinds}
    \cup {core.property, rox.options, <<"context", rox.context>>}
    \cup {<<"flag", f>> : f \in Registered(core)}

ResetOf(objects, statics) ==
  /\ allocated' = allocated \ objects
  /\ rox' = NoRox /\ core' = NewCore
  /\ freeze' = statics /\ overrides' = NoOverrides
  /\ flag' = [f \in DOMAIN flag |-> IF f \in Registered(core) THEN NewFlag ELSE flag[f]]
  /\ UNCHANGED <<lives, left, created, abandoned>>

\* reset_state without the context's turn.
ResetKeepsContext == ResetOf(Owned \ {<<"context", rox.context>>}, NoFreeze)

\* reset_state: rox_overrides_uninit and rox_freeze_uninit let go of the core
\* before it is freed.
Reset == ResetOf(Owned, NoFreeze)

NobodyReturns == \A u \in Threads : pc[u] \notin {"return", "refused"}

\* A failed setup is tried again: the flags, properties and statics of the
\* first attempt go with its Rox.
Retry(t) ==
  /\ pc[t] = "enter" /\ rox.state = "error"
  /\ RacyRetries \/ NobodyReturns
  /\ Reset
  /\ UNCHANGED threadVars

\* create_custom_property, which never replaces a property of the application.
BuiltIn(life) == <<"built-in", life>>
IfNotExists(property, builtIn) == IF property = Null THEN builtIn ELSE property

\* Up to rox_overrides_init: the flags there are get freeze first, overrides
\* around it, and so will those to come.
BeginWrapping(t, wrap(_, _, _), callbacks) ==
  /\ pc[t] = "enter" /\ rox.state \in {"none", "uninitialized"}
  /\ LET life    == Rox.life
         opts    == IF call[t].options = Null THEN <<"own options", life>> ELSE call[t].options
         level   == IF call[t].level = "unset" THEN freeze.level ELSE call[t].level
         builtIn == BuiltIn(life)
     IN /\ rox' = [Rox EXCEPT !.state = "settingUp", !.options = opts]
        /\ lives' = life
        /\ freeze' = [repository |-> life, invoker |-> life, handle |-> TRUE, level |-> level]
        /\ overrides' = [values |-> life, repository |-> life]
        /\ flag' = [f \in DOMAIN flag |->
                      IF f \in Registered(core) THEN wrap(flag[f], level, life) ELSE flag[f]]
        /\ core' = [Core EXCEPT !.property = IfNotExists(@, builtIn),
                                !.callbacks = @ \o callbacks,
                                !.handlers = <<"unfreeze">>]
        /\ allocated' = WithRox({<<k, life>> : k \in OwnKinds} \cup {opts, builtIn})
        /\ abandoned' = IF Core.property = Null THEN abandoned ELSE abandoned \cup {builtIn}
        /\ call' = [call EXCEPT ![t].rox = life]
  /\ Goto(t, "core")
  /\ UNCHANGED <<lock, left, created>>

OverridesFirst(f, level, life) == FreezeFlag(InitFlagOverrides(f, life), level)
FreezeFirst(f, level, life)    == InitFlagOverrides(FreezeFlag(f, level), life)

\* rox_freeze_init after rox_overrides_init.
BeginOverrides(t) == BeginWrapping(t, OverridesFirst, <<"overrides", "freeze">>)
Begin(t)          == BeginWrapping(t, FreezeFirst, <<"freeze", "overrides">>)

CoreFailsTo(t, loc) ==
  /\ pc[t] = "core" /\ ~call[t].valid
  /\ rox' = [rox EXCEPT !.state = "error"]
  /\ Goto(t, loc)
  /\ UNCHANGED <<call, lock, lives, core, freeze, overrides, flag, left, heapVars>>

\* rox_core_setup refuses the key; the variant returns with the lock held.
CoreFailsLocked(t) == CoreFailsTo(t, "return")
CoreFails(t)       == CoreFailsTo(t, "unlock")

\* The application's handler comes before those registered already.
CoreSetupHandlerFirst(t) ==
  /\ pc[t] = "core" /\ call[t].valid
  /\ core' = [core EXCEPT !.handlers = <<"application">> \o @]
  /\ left' = core'.handlers
  /\ Goto(t, "notify")
  /\ UNCHANGED <<call, lock, roxVars, freeze, overrides, flag, heapVars>>

\* rox_core_setup registers the application's handler and fetches.
CoreSetup(t) ==
  /\ pc[t] = "core" /\ call[t].valid
  /\ core' = [core EXCEPT !.handlers = Append(@, "application")]
  /\ left' = core'.handlers
  /\ Goto(t, "notify")
  /\ UNCHANGED <<call, lock, roxVars, freeze, overrides, flag, heapVars>>

\* configuration_fetched_invoker_unregister_handler.
Without(handlers, handler) == SelectSeq(handlers, LAMBDA h : h # handler)

\* unfreeze_configuration_fetched_handler takes itself off the list and
\* releases every flag.
Unfreeze(t) ==
  /\ pc[t] = "notify" /\ left # <<>> /\ Head(left) = "unfreeze"
  /\ left' = Tail(left)
  /\ core' = [core EXCEPT !.handlers = Without(@, "unfreeze")]
  /\ freeze' = [freeze EXCEPT !.handle = FALSE]
  /\ flag' = [f \in DOMAIN flag |->
                IF f \in Registered(core) THEN [flag[f] EXCEPT !.frozen = FALSE] ELSE flag[f]]
  /\ UNCHANGED <<threadVars, roxVars, overrides, heapVars>>

\* The application's handler, and its return.
Notify(t) ==
  /\ pc[t] = "notify" /\ left # <<>> /\ Head(left) = "application"
  /\ left' = Tail(left)
  /\ Goto(t, "handler")
  /\ UNCHANGED <<call, lock, roxVars, core, freeze, overrides, flag, heapVars>>

HandlerReturns(t) ==
  /\ pc[t] = "handler"
  /\ Goto(t, "notify")
  /\ UNCHANGED <<call, lock, roxVars, core, freeze, overrides, flag, left, heapVars>>

\* The fetch is over; the first one ends rox_core_setup.
Fetched(t) ==
  /\ pc[t] = "notify" /\ left = <<>>
  /\ IF rox.state = "settingUp"
     THEN rox' = [rox EXCEPT !.state = "initialized"] /\ Goto(t, "unlock")
     ELSE UNCHANGED rox /\ Goto(t, "out")
  /\ UNCHANGED <<call, lock, lives, core, freeze, overrides, flag, left, heapVars>>

Unlock(t) ==
  /\ pc[t] = "unlock"
  /\ lock' = FALSE
  /\ Goto(t, "return")
  /\ UNCHANGED <<call, roxVars, core, freeze, overrides, flag, left, heapVars>>

\* return rox->state, or rox_global->state, without the lock.
Return(t) ==
  /\ pc[t] \in {"return", "refused"}
  /\ Goto(t, "out")
  /\ call' = [call EXCEPT ![t] = NoCall]
  /\ UNCHANGED <<lock, roxVars, core, freeze, overrides, flag, left, heapVars>>

\* rox_shutdown, in a state that allows it.
Shutdown(t) ==
  /\ pc[t] = "out" /\ ~lock
  /\ \A u \in Threads : pc[u] \in {"out", "lock", "return", "refused"}
  /\ RacyRetries \/ NobodyReturns
  /\ rox.state \in {"initialized", "error"}
  /\ Reset
  /\ UNCHANGED threadVars

-----------------------------------------------------------------------------
SetupStep(t) ==
  \/ Lock(t) \/ Refuse(t) \/ Retry(t) \/ Begin(t) \/ CoreFails(t) \/ CoreSetup(t)
  \/ Unfreeze(t) \/ Notify(t) \/ HandlerReturns(t) \/ Fetched(t) \/ Unlock(t) \/ Return(t)

Next ==
  \E t \in Threads :
    \/ SetupStep(t)
    \/ \E v \in BOOLEAN : CallSetupPlain(t, v) \/ \E l \in DefaultFreezes : CallSetup(t, v, l)
    \/ \E n \in Names : DynamicRead(t, n) \/ \E l \in Levels : AddFlag(t, n, l)
    \/ \E f \in DOMAIN flag : Evaluate(t, f)
    \/ SetProperty(t) \/ SetContext(t) \/ ClearContext(t)
    \/ Fetch(t) \/ Shutdown(t)

Spec == Init /\ [][Next]_vars

\* A thread inside rox_setup goes on, a lock that is released again and again
\* is eventually acquired, and the application's handler returns.
Fairness ==
  \A t \in Threads : WF_vars(SetupStep(t)) /\ SF_vars(Lock(t))

FairSpec == Spec /\ Fairness

-----------------------------------------------------------------------------
(***************************************************************************)
(* Properties.                                                             *)
(***************************************************************************)
\* What the SDK's globals, the statics of freeze.c and overrides.c, the calls
\* in progress and the flags point to.
Pointers ==
  LET up   == rox.state \in {"settingUp", "initialized", "error"}
      of(f) == {<<"overrides", flag[f].values>>, <<"context", flag[f].context>>}
  IN {<<"rox", rox.life>>, <<"core", rox.life>>, rox.options, core.property,
      <<"context", rox.context>>, <<"context", core.context>>,
      <<"core", freeze.repository>>, <<"core", freeze.invoker>>,
      <<"overrides", overrides.values>>, <<"core", overrides.repository>>}
     \cup (IF up THEN {<<k, rox.life>> : k \in OwnKinds} ELSE {})
     \cup {<<"flag", f>> : f \in Registered(core)}
     \cup (UNION {of(f) : f \in Registered(core)})
     \cup {call[t].options : t \in {u \in Threads : pc[u] \in {"lock", "enter"}}}
     \cup {<<"rox", call[t].rox>> : t \in {u \in Threads : pc[u] = "return"}}

\* Memory is what the SDK still points to and what it is known to lose (the
\* options of a refused rox_setup, a refused context, a flag whose name was
\* taken, a built-in property the application has its own of): nothing it
\* points to has been freed, nothing else is left behind, at any step of any
\* sequence of setups, failed or not, resets and calls between them.
HeapIsExact ==
  /\ allocated = {o \in Pointers : o[2] # 0} \cup abandoned
  /\ \A t \in Threads : pc[t] = "refused" => rox.life # 0

\* From rox_freeze_init and rox_overrides_init on every flag in the repository,
\* whenever and however it was added, asks overrides first and then freeze,
\* once each, with this setup's overrides, the global context in force and the
\* level it was added with or else this setup's default; and when a setup's
\* options name no default there is none, whatever an earlier setup's named.
FlagsAreReady ==
  /\ \A t \in Threads :
       pc[t] = "core" => freeze.level = IF call[t].level = "unset" THEN "none" ELSE call[t].level
  /\ \A f \in Registered(core) :
       rox.state \in {"settingUp", "initialized", "error"} =>
         /\ flag[f].chain = <<"overrides", "freeze">>
         /\ flag[f].values = overrides.values
         /\ flag[f].context = rox.context /\ core.context = rox.context
         /\ flag[f].level = IF flag[f].asked # "unset" THEN flag[f].asked ELSE freeze.level

\* When the application's handler hears of a setup's first fetch, no flag is
\* frozen any more: what it reads there is the new configuration.
FirstFetchReleases ==
  [][\A t \in Threads :
       pc[t] = "notify" /\ pc'[t] = "handler" /\ rox.state = "settingUp" =>
         \A f \in Registered(core) : ~flag'[f].frozen]_vars

\* rox_setup returns, refused, failed or not, if the handler it calls does.
SetupReturns == \A t \in Threads : pc[t] = "lock" ~> pc[t] = "out"
=============================================================================
