# Verification of ROX C

TLA+ specifications of the ROX feature-management SDK for C (`src/`), the TLC
configurations that check them on small instances, and TLAPS proofs of the
safety properties: all of them but one, what an expression means
(`ResultIsDenotation`).  Paths below are relative to the repository; most of
the implementation is under `src/src/`.

## The system

| Component | State | Operations | Talks to |
|---|---|---|---|
| Core (`core.c`) | `fetch_lock`, `stopped`, `last_configuration`, `last_fetch_time`, one pointer per component | `rox_core_setup`, `rox_core_fetch`, `rox_core_free` | everything below |
| Periodic task (`core.c:32-82`) | a thread, `stopped`, a condition variable | timed wait, fetch, cancel, join | core |
| Push updates listener, event source reader (`xpack/configuration.c`, `xpack/notifications.c`) | a thread, `stopped`, `reading`, the curl handle | start and stop from the configuration fetched handler, stream, reconnect | core (a "changed" event fetches) |
| Configuration fetcher (`core/network.c`) | `cache_read`, the storage copy | storage, CDN, API, Roxy | storage, parser, fetched invoker |
| Configuration parser and verifiers (`core/configuration.c`, `xpack/security.c`) | none, but for the environment variable `ROLLOUT_MODE` | verify, parse, raise errors | fetched invoker |
| Storage (`storage.c`, `util.c`) | one file per entry, a cache of entries | make the directories, read, write, delete | fetcher, overrides |
| State sender, debouncer (`xpack/network.c`) | a thread, `thread_started`, `stopped` | invoke, snapshot, send | repositories |
| Repositories, flag setter (`core/repositories.c`, `core/entities.c`) | flags, properties, experiments and the previous list of them | set, look up, set flags for evaluation | flags |
| Freeze (`freeze.c`), overrides (`overrides.c`) | per flag: level, frozen, frozen value; the map of overrides | freeze, release, set, clear, peek | flag evaluation, storage |
| Flags (`core/entities.c`) | condition, experiment, default | evaluate through override, freeze and condition | expression engine |
| Expression engine (`eval/`) | a stack per evaluation | tokenize, run operators | target groups, properties, flags |
| Lifecycle (`server.c`, with the statics of `freeze.c` and `overrides.c`) | `rox_global`, its state, options and context, `startup_shutdown_lock` | `rox_setup`, `rox_shutdown`, `rox_add_...`, `rox_set_context`, `rox_set_custom_..._property` | core, freeze, overrides, storage |
| Impressions, analytics (`core/impression.c`, `xpack/impression.c`, `xpack/analytics/`) | handlers and one delegate | invoke, event, distinct id | flags, properties, internal flags |
| Properties, context (`core/properties.c`, `core/context.c`) | the properties' values or generators, the dynamic rule, the global context | get, merge, replace | expression engine, state sender |
| Logging, reporting, device | registries and options | callbacks | application |

Four kinds of threads run this code: the application's, the periodic task's,
one per event source reader and the debouncer's.  Two locks exist: `fetch_lock`
in the core and `startup_shutdown_lock` in `server.c`.  Everything else is
shared without a lock.  What is hard: a fetch may be started from three kinds of
threads, one of which is stopped and joined by another fetch; components are
freed while threads that use them still run; a configuration is applied in
steps while other threads evaluate flags; the storage is written without a
rename; requests fail in many ways and their order decides which configuration
wins; a setup may fail and be tried again with flags, properties and contexts
already in place.  `PROJECT.json` lists each such hazard at its line.

## Modules

| Module | Models | Abstracts |
|---|---|---|
| `RoxCore` | `rox_core_fetch` step by step for every thread, the listener and its readers' threads, the periodic task, `rox_core_free` in the code's order | where a configuration comes from (a member of `Configs`), time (a throttled fetch may or may not be rejected, any wait may end) |
| `ConfigStream` | abstract specification: one configuration received last, and one applied that is only replaced by that one, if verified | everything else |
| `ConfigFetch` | `configuration_fetcher_fetch` for any number of setups one after another, its storage copy, the parser's checks in their order and the verifiers of each kind of setup, the events, shutdown, process exit and restart at any point | threads: fetches are serial, which is what `RoxCore!FetchMutex` says of them; a document is a model value with a set of flaws, and fits the print buffer or not |
| `Storage`, `DurableMap` | `storage.c` over the file functions of `util.c`: the entries and their cache, `mkdirs` one directory at a time, truncate and write, read; `DurableMap` is the abstract specification (a map is put as a whole or lost as a whole) it implements | what a map holds; two entries are used at the same time, each by one caller |
| `StateSender` | debouncer and state sender: the snapshot of both repositories, the path its MD5 names, CDN and API, replies that get lost | what a repository holds is one of `Contents`, with a length (`Size`); what `rox_json_print` leaves of its text is the whole or, beyond 20480 bytes, the beginning (`Start`), which other contents may share; the MD5 is that of these texts, without collisions |
| `FlagConversions` | the four converters, `mem_int_to_str`, `mem_double_to_str` and their inverses, results that are several kinds at once | a text is a word or a decimal number with at most one decimal and possibly something behind it |
| `FlagValues` | the evaluation chain override, freeze, condition or default, one step per function, read as one of four types; freeze levels; impressions; overrides and their storage entry; restarts | what a condition yields (a member of `Results`); the flags are added before setup |
| `FlagConditions` | the experiment repository's lists, the flag setter's two passes, flags added meanwhile, evaluations that overlap | values: a condition is the number of the configuration it came from |
| `EventSource` | the state machine that reads the push server's stream, character by character, chunk by chunk | a name is its first character and the rest, a value is one character and none of the signs that cut lines and fields; a message has one event and one id at most (`WellFormed`); the curl handle, reconnection (in `RoxCore`) |
| `RoxxValues` | the values of the expression language, every operator that depends on its operands only, and which operands it asserts | a text is a sequence of words, a finite number a multiple of a unit in which the two epsilons are whole, beside NaN and the two infinities, which `strtod` reads from texts; md5, base64, regular expressions, versions, buckets and the clock are parameters |
| `RoxxMachine` | tokenizer, reversal, stack machine, and the evaluations that target groups and flags begin within one | one expression at a time; properties have a stored value, whose copy is evaluated, or compute one; target groups and flags refer to each other without cycles; tokens fit the tokenizer's buffer of 1024 bytes |
| `RoxxEval` | what the machine is compared with: how an expression is written (`Spelled`) and what it means (`Denotation`); an operator in a list means its name and its operands there (`Elements`) | no meaning for what the parser does not support: lists in lists, dictionaries of anything but words and strings (`Supported`) |
| `Lifecycle` | `rox_setup` step by step under its lock, for several threads and with every outcome, `reset_state`, the calls around it (flags, properties, contexts, fetches, evaluations), the chain of functions `freeze.c` and `overrides.c` hang into a flag, the handlers of a fetch; the heap is explicit | calls other than `rox_setup` are made one after the other; what is evaluated |
| `Impressions` | an evaluation from the merged context to the last impression handler, the analytics event and its id, the assertion that fails where a generator gives `NULL`, while contexts, properties and configurations are replaced | one flag, whose condition is the property its experiment splits by |
| `RoxCoreProofs`, `ConfigFetchProofs`, `EventSourceProofs`, `StateSenderProofs`, `FlagValuesProofs`, `FlagConditionsProofs`, `LifecycleProofs`, `ImpressionsProofs` | theorems about the module each is named after, and their proofs; `ConfigFetchProofs` has those about `Storage` too, which keeps the configuration's copy, and `FlagConditionsProofs` those about `RoxxMachine`, which evaluates the conditions | |
| `MC...` | one per module with a run: the model values and the definitions its configurations assign | |

Correspondence.  An action has the name of the function or of the part of it it
models, and `PROJECT.json` ("map") gives the lines of each.  In `RoxCore`, `pc[t]`
is the place of thread `t`: `lock` waits for `fetch_lock`, `check` has it,
`request` is in the fetcher, `experiments`, `groups`, `flags` are the three
assignments of a parsed configuration, `notify` is the fetched invoker,
`join`/`release` are the stop of a reader.  `victim` and `return` are that
thread's stack: whom it is stopping, and where the stop was called.  At `await`
it tests `reading`; a `pthread_join` that fails (own thread, detached thread)
returns at once as the code ignores its result.  `Shutdown` waits for nobody: a
`rox_fetch` of another thread may hold `fetch_lock` or wait for it.  A reader whose memory was freed reads anything from
its `stopped` field.  In `FlagValues` an evaluation is a stack of frames because
the `flagValue` operator evaluates another flag with the same context; each
access to the shared freeze context is a step of its own.  In the modules, `shown`,
`raced`, `dangling`, `dirty`, `missed`, `outrun`, `before`, `online`, `abandoned`, `steady`,
`quit` and `overtaken` are history variables, and so is `reported`: no guard of a code
step reads them.  `quit` is the readers that ended without being told to by
another thread (a plain response, an early wakeup), `overtaken` the threads that
`rox_core_free` runs into: those in a call of the application's, those in a
fetch that have tested `stopped`, a reader that such a fetch starts, and then
itself, since it releases what they release too.

In `Lifecycle` an object is a kind and a number and `allocated` is the heap:
`HeapIsExact` compares it with what the SDK's globals, statics, flags and calls
in progress point to.  `pc[t]` is `lock` before `startup_shutdown_lock`, `enter`
behind it, `core` in `rox_core_setup`, `notify` and `handler` among the handlers
of a fetch (the application's may call the SDK), `return` between the unlock
and the last read of the state.  `abandoned` holds the leaks the code is known
to have.

In `FlagConditions` an evaluation reads the flag's condition once and works on
it until it returns; the setter's reset and assignment are two steps.  The list
of experiments is replaced by the code's own rule: the list before last is
freed, the last one kept.

## Runs

| Run | Bounds | Shows |
|---|---|---|
| `core_safety` | 2 application threads, the periodic task, 2 readers, configurations `on`, `off` (valid) and `bad`; `off` throttles; early wakeups and plain responses allowed, `rox_shutdown` at any moment | mutual exclusion, no half-applied configuration, honest `has_changes`, listener follows flag, refinement of `ConfigStream`; freed memory is used in the ways named and in no other; only `quit` closes the push channel |
| `core_live` | 2 application threads, 1 reader, `on` and `bad`, no periodic task; early wakeups and plain responses allowed | every fetch returns or finds the core freed under it; every shutdown returns |
| `core_stop_deadlock` (violated) | 1 reader, `on` and `off`, the stream talks | a fetch that disables push updates and a reader that fetches wait for each other |
| `fetch_sources` | 12 documents: two good ones, one too large for the print buffer, one per flaw, one with two flaws and the `"result": 404` one; both kinds of key, Roxy; all setups, processes, replies, full disks and crashes | one truthful outcome per fetch; the disk follows the servers; a client works offline from its disk |
| `sender` | 1 application thread, 2 debouncer threads, contents that fit the print buffer and two that do not and begin alike, early wakeups, lost replies | one sender; none after free; what counts as reported is under the state's path at the servers, and is this state if it fits the buffer; every addition not missed gets into a snapshot, until a thread has `outrun` its creator |
| `flags` | 1 thread, a double flag and a string flag (it depends on the other and has a level of its own), read as double, int, string, bool; conditions that yield 10.0, "12px", a word or nothing; overrides that are no number | a frozen flag answers what its one impression reported; no read fails an assertion; peeks freeze nothing, overrides are never frozen, cleared stays cleared if the storage can delete entries (`hasDelete`; the default one cannot) |
| `events` | 2 messages out of 7 shapes (keep-alive, data behind and around the event, id before it, retry, no line at all, values that look like the beginnings of names), either line end, any cut into chunks | a chunk that is one message fires its event; no cut invents one or mixes two; the parser's assertions hold |
| `eval` | 5524 expressions: every operator on words, texts, lists, a dictionary, numbers at each distance that matters, NaN and infinities; operators, lists and dictionaries within lists and dictionaries; stored and computed properties; 3 levels of nesting; words that are no operator; target groups and flags that ask for each other; written with and without spaces | the result is what the expression means; the comparisons agree; every evaluation ends |
| `conditions` | 2 threads, 2 flags, 3 configurations | one-fetch grace; every flag has the condition in force, but for those whose addition overlaps a fetch (`raced`) |
| `lifecycle` | 2 threads, 2 setups, 1 name, 2 flags, 2 contexts, 1 property, good and bad keys, with and without options and a default freeze level | no dangling pointer and no leak but the known ones; every flag is wrapped by freeze and overrides, in this order, once; the first fetch releases what was frozen; `rox_setup` returns |
| `storage` | 2 entries, 2 maps that fit and one that does not, 3 directories, one of which may be blocked; full disks and crashes anywhere | `Storage` implements `DurableMap` |
| `impressions` | 1 thread, 2 ids, 2 properties, 2 contexts, 4 configurations, with and without Roxy | who hears of an evaluation, in which order and with which value; the event carries the id the experiment has split by; where there is no id to be found, the condition has found none either |

Why these bounds are enough.  Two readers are what it takes for one to be
stopped while its successor runs; two application threads plus the periodic
task contend for the lock in every order; three configurations tell valid
from invalid and push from no push.  `ConfigFetch` has one document per verdict
and a second good one, so that "newer" and "older" differ; one with two flaws
shows the order of the checks.  Two debouncer
threads are one that sends and one that has not detached yet.  Three
configurations replace each other in `FlagConditions`: the one a reference was
taken from, the one that replaces it, the one that frees it.  Two setups of
`Lifecycle` are one that fails or is shut down and the one after it, by the same
thread or by another that has waited for the lock meanwhile; of two flags with
one name, the second is refused, or added after the first has been freed; two
contexts are the one in force and its replacement.  Two entries of `Storage`
share the directories and nothing else; of three directories one is the
outermost, one the innermost.  In `Impressions` a second thread would only read
what the first one reads.  `MaxFetches` and `MCLifecycle!MCBound` are the only
bounds on counters; all other runs explore their whole state space.

`CHECK_DEADLOCK FALSE` stands where the system really may stop: after
`rox_core_free`, (in `sender`) when the SDK is gone, (in `impressions`) after a failed
assertion, at the end of the input (`eval`,
`events`) or of the calls `MCBound` allows (`lifecycle`).  The `RoxCore` safety run
also contains the code's own deadlock, which `core_stop_deadlock` is about.

### Fairness

`RoxCore!Fairness`: a thread that can run does (weak); a mutex that is released
again and again is eventually acquired (strong, per thread); a request ends,
since `core/network.c:184-185` gives curl a timeout of 30 seconds; the reconnect
wait and the periodic wait end, being timed; a chunk of a stream holds
finitely many events (strong fairness of `ChunkDone`).  Nothing is assumed of
the application: it need not call anything.  Nothing is assumed of the push
server in `FairSpec`; `TalkingSpec` adds that a stopped reader eventually gets
some data (a keep-alive comment), which the code needs and cannot enforce: the
progress callback, the other place where a reader looks at `stopped`, is
switched off (`CURLOPT_NOPROGRESS` is 1, `notifications.c:298`), so under
`FairSpec` an idle stream makes the stop, and `rox_shutdown`, wait for ever.
`StateSender!Fairness` is weak fairness of each thread, of the timed wait and of
requests, for the same reasons.  `Lifecycle!Fairness` is weak fairness of the steps
of `rox_setup` and of the handlers it calls, which return, and strong fairness of
taking `startup_shutdown_lock`, per thread, as for `fetch_lock`.  `RoxxMachine` has weak
fairness of its one thread.

## Proofs

Every theorem is about every choice of the constants that satisfies the
module's assumption: any number of threads, flags, configurations, documents.
Where a property does not hold of the code for every choice, the theorem has a
named hypothesis, and that hypothesis is the one its run is made under.

| Module | Theorem | Property | Under |
|---|---|---|---|
| `RoxCoreProofs` | `TypeCorrect`, `MutualExclusion`, `NeverHalfApplied`, `HonestHasChanges`, `ListenerFollowsFlag`, `Refinement` | `TypeOK`, `FetchMutex`, `AppliedTogether`, `NoChangesMeansSame`, `ListenerMatchesFlag`, `ImplementsStream` | |
| | `FreedIsUsedOnlyThere`, `PushStaysOpen` | `NoUseAfterFree`, `PushChannelOpen` | |
| `ConfigFetchProofs` | `TypeCorrect`, `HeardOnce`, `HeardTruth`, `DiskNeverStale`, `OfflineWorks` | `TypeOK`, `OneOutcome`, `OutcomeIsTruthful`, `DiskFollowsServers`, `WorksOffline` | |
| | `StorageIsDurableMap` | `ImplementsDurableMap` | |
| `EventSourceProofs` | `WholeMessageFiresHolds`, `FiredWasSentHolds`, `NeverAbortsHolds` | `WholeMessageFires`, `FiredWasSent`, `NeverAborts` | |
| `StateSenderProofs` | `TypeCorrect` | `TypeOK` | |
| | `AtMostOneSender`, `NoneAfterFree`, `ServersKnow` | `OneSender`, `NoSenderAfterFree`, `SettledIsKnown` | `OneThread` |
| `FlagValuesProofs` | `ClearedIsGone`, `PeeksFreezeNothing` | `ClearedStaysCleared`, `PeekFreezesNothing` | |
| | `OverriddenReleased`, `AnswersAreReported`, `ReadsNeverAbort` | `OverriddenIsNotFrozen`, `FrozenIsReported`, `NeverAborts` | `OneReader`, `Acyclic`, `NullIsNothing` |
| `FlagConditionsProofs` | `ExperimentsOutliveAFetch`, `FlagsFollowTheFetch` | `GraceOfOneFetch`, `FlagsFollow` | |
| | `ComparisonsAlwaysAgree` | `ComparisonsAgree` | |
| `LifecycleProofs` | `FlagsReady`, `FirstFetchReleased` | `FlagsAreReady`, `FirstFetchReleases` | |
| | `MemoryIsExact` | `HeapIsExact` | `~RacyRetries` |
| `ImpressionsProofs` | `ImpressionsAreHeard`, `EventsNameTheirSubject`, `SubjectsAreFoundAgain` | `HeardOnceInOrder`, `EventNamesItsSubject`, `SubjectIsFoundAgain` | |

Each module states its inductive invariant as `Inv` (or the parts it names) and
proves it with one step per action (`InvariantHolds` and its siblings); the
properties follow from it.  `StateSender!TypeOK` is proved and in no run.  TLC has checked each invariant on its run's instance; where one says
that some set or sequence exists, with those of that instance.

**RoxCore.**  `AppliedTogether` speaks of the moments when the
lock is free, which says nothing of what a step under the lock starts from.
`ApplyInv` says it for each place: before the first assignment (`check`,
`request`) and after the last (`notify`, `unlock`, the stop steps) the three
pieces agree, and agree with `lastConfig` if that one is valid; at
`experiments`, `groups` and `flags` exactly the pieces already assigned equal
`lastConfig`.  The lemma `Alone` (from `FetchMutex`) is what makes those
statements stable: no other thread is inside.  For `has_changes` the point is
that `lastConfig` can only differ from the configuration in force when it was
invalid, and then a fetch that reports no change ends before it applies
anything.  `ListenerInv` follows the listener through a stop: while a thread is
in `join` or `release` from a fetch, the configuration in force does not want
push updates; from `rox_core_free`, `stopped` holds.  The refinement's only
visible steps are `Receive`, which is `ConfigStream!Receive`, and `SetFlags`,
which is `ConfigStream!Apply` because at `flags` the experiments are
`lastConfig` and valid; every other step stutters.

`MemInv` is about memory, in the whole environment.  Each stop still waits for the
thread of its reader, or has waited, or the reader is in `quit` or past its
`pthread_detach`; what a thread in `rox_core_free` has not yet freed is told by its
place; and a thread that has tested `stopped` before it was set is in
`overtaken`.  That a fetch which waits for `fetch_lock` uses nothing of what is freed
rests on `stopped` being set first: its `check` goes to `unlock`.

**ConfigFetch.**  `OutcomeInv` counts the events a fetch has raised at each place;
`SourceInv` ties what is being parsed to where it came from (a document from
the storage is only parsed before any server has answered in this process);
`DiskInv` says that what is received from a server is on the disk, or lost,
before it is parsed, which is why `DiskFollowsServers` survives a crash anywhere.

**Storage.**  A refinement: a file is `torn` in the abstract map exactly while it
is being written or after a crash there.  A write whose location is in the way,
or whose map does not fit the print buffer, is `DurableMap`'s too.  The
proof needs one fact of each place: at `write` the file is torn already.

**EventSource.**  The parser sees characters, the properties speak of messages, so the
invariant brings the two together: it says that there is a function `w` from the places of the
stream to places in messages (message, line, character), the one the server's concatenation defines (`Layout`).
A chunk may begin anywhere, and after a blank line the first character of a line is
lost, so what the parser's fields say at a place is one of two things.  Either it has read
the lines behind some `s`-th from their beginning and its event, id and data are what these lines say
(`Full`, where `s` is 0 in a chunk that holds the message from its first line on); or it has lost
the beginning of a line and has collected nothing (`Part`), with a name that is no
field's, or the second letter of one.  An id whose first letter was lost leaves `d`, which `str_eq_n`
takes for `data`: this is the one way for `Part` to collect anything, and why
`Tells` lets an event have its own id in front of its data.  `Told` names the message of each
event fired and keeps it behind the place being read, `Whole` says that a chunk that is one message is
read in the state `Full` with `s = 0`.  Preservation has one lemma for each action and each of the two
(`FullEndName`, `PartEndName` and so on), over lemmas that say which place of a line a
character can be.  A message is any sequence of fields, so its text and its data are recursive functions over its
lines.  That these exist is the lemma `Recursion`, by induction in the form the
provers have here: `SetInduction` says that a set with 0 and successors holds every
natural number, which follows from the well-foundedness of strict inclusion on finite sets
(`FS_StrictSubsetOrderingWellFounded`), without an operator parameter.

**StateSender.**  `OneThread` is one application thread: with two, both may create a
debouncer thread.  `SenderInv` says that an active debouncer thread is the one behind
`handle` and that `thread_started`, or the application thread that is about to set
it, knows of it (that it may also be set with no thread left does no harm here); `ReportInv` says which part of a snapshot is still what the
repositories hold, namely all that is not `dirty`.  Together they make the state that
counts as reported one that a server was given or asked for under the same path.  That
what is under the path is this state needs `BodyFits`: then no text of it was cut off,
a beginning is no whole text (`StateSenderAssumption`), and what the API was sent was printed as
a whole too.

**FlagValues.**  What concerns cleared overrides and peeks holds for any number of threads
(cleared overrides with a storage that has `entry_delete`: `ClearedStaysCleared` has this for a premise).
What an evaluation answers does not, because `frozen` is set before `frozen_value`, nor that an
overridden flag is not frozen, because the override is looked up a step before the flag is frozen;
so `OneReader` is one thread and no fetch in the background, as in the run `flags`.
`Acyclic` says that flags depend on each other without cycles, which the code
needs to terminate.  `NullIsNothing` says that the model's NULL is different from every text
and value, as the model value TLC is given for it is.  `ReadInv` describes the stack of frames: every
frame is of a flag the one below depends on, so no flag is on it twice, and what the
frame under evaluation finds frozen nobody else changes; `FlagInv` says that a frozen value
is the text the last impression reported.  The lemmas about the four converters (a
text that came from a value of a type is read back as a value of every type) are
proved from the definitions of `FlagConversions`.

**FlagConditions.**  `AgeInv` and the definition of `Allocated` say that the list before the
current one is the only other one allocated; `PassInv` and `ConditionInv` describe
the two passes of the setter by which flags have been through which; `AdditionInv` and
`CopyInv` except the flags whose addition overlaps a fetch, which are in `raced`; so does
`FlagsFollow` itself.

**RoxxMachine.**  What the comparisons do is a lemma about any two values
(`ValuesAgree`): it goes through their types, and for two numbers through the position of
their difference to the two epsilons.  Doubles that are not finite are the other case
(`Comparable`, `Unlike`): NaN compares with nothing, an infinity only with what it is not.
It needs to know that a value is one: a value of type
`null` is the one null, a number's field is a number (`IsValue`).  `MachineInv` says so of all that is
on a stack or is an operand that will be pushed, in every frame.  Its
preservation has to follow a value through the tokenizer (`PushKeeps`, `TokenKeeps`), every
operator (`Applied`), the operands that are not there and count as null (`OperandsAre`), and the answer
of an evaluation to the one that began it (`AnswersAre`), which is why it also says that every frame
above the first was begun for a group or a flag.

**Lifecycle.**  Nothing is assumed of the threads, and of `RacyRetries` only for
`HeapIsExact`.  `LockInv` says who is inside
`rox_setup` or a fetch; `ReadyInv` says what each flag in the repository has been
through, before a setup (nothing, or a level it was added with) and from one on, and
what one to come will go through: the callbacks of the core, `freeze.c` and
`overrides.c`, in this order.  A new flag gets them one by one, and a flag from before
gets them in `Begin`; that both come to the same chain is the lemmas
`FreezeFirstIs` and `AnnouncedIs`.  `FetchInv` says that between the two handlers of
the first fetch no flag is frozen.  For `MemoryIsExact`, `HeapInv` lists what is in
memory for a reason (`Live`): what the Rox owns, and the options of the calls that
wait.  `OwnInv` says which objects `rox_global` and the statics may name, so that two
of them are never the same; `CallInv` that no two calls have the same options, that none
has the Rox's, and that a call keeps its Rox until it has returned, which is where
`~RacyRetries` is needed; `LostInv` that what is lost was made and is nobody's.  Each
action that makes, frees or loses objects exchanges them in `Live` and `allocated`
alike (lemma `Exchanged`), and `PointersAre` shows that `Live` is what `Pointers` lists.

**Impressions.**  One invariant per place of an evaluation (`CallInv`): what has
been looked up, whom it has told and whether anything was replaced meanwhile.  An
evaluation that ends the process has told the delegate and nobody else, and its subject
is the `NULL` its condition has found, if nothing was replaced.

Only model-checked, and why:

* Liveness (`FetchReturns`, `ShutdownReturns`, `StopReturns`, `EventuallyInSnapshot`,
  `SetupReturns`, the end of every evaluation in `eval`) is beyond this prover.
* `ResultIsDenotation`: what an expression means is a recursive operator over expressions
  (`RoxxEval!Denotation`), and tlapm refuses to reason with SMT in a module that declares one.
  `RoxxMachine` has none; it takes the way expressions are written as a parameter (`Written`),
  which `RoxxEval` assumes to be `Spelled`.

## What is not modelled, and limits

* `NoUseAfterFree` names what the code leaves open, and the runs reach all of it.
  `rox_core_free` frees the components before it stops the periodic task
  (`core.c:465-523`) and waits for no fetch and no call of another thread: whoever
  is inside then is `overtaken`.  After a plain response (`notifications.c:69`), or
  when its own fetch brings a configuration that switches push updates off, a reader has "stopped" itself
  and is freed while its thread runs: `quit`.  A reader that has
  detached itself is not waited for, and still has to store `reading`
  (`notifications.c:347-349`): the join of a stop in between fails, and its result is ignored, although the
  comment at lines 55-57 has it that the stop is to "wait".  The model follows such
  a thread on, with what is left in memory; the process may as well end.
* A plain response (any `Content-Type` but `text/event-stream`, as of a proxy's error page)
  or an early wakeup of the reconnect wait closes the push channel for the rest of the process,
  or until a configuration has switched push updates off and another one on again:
  `PushChannelOpen` excepts `quit`.
* `StateSender` has one application thread in its run: with two, both may create
  a debouncer thread (`xpack/network.c:76-82`) and `OneSender` fails.
* A debouncer thread that is woken early may end before `thread_started` is assigned
  by the thread that created it (`xpack/network.c:79`): it then stays set, and no later
  addition is ever sent.  `outrun` records it and `EventuallyInSnapshot` excepts it.
* `rox_json_print` prints into 20480 bytes and ignores that a text does not fit
  (`util.c:694-700`): states that differ behind that have one MD5 (`xpack/network.c:150,191`), so the
  CDN answers for one with what it has of the other, and what the API is sent is no
  JSON.  `SettledIsKnown` promises such a state something under its path and no more.
* `_serialize_the_given_property` (`xpack/network.c:158-173`) leaves dates out when
  `ROLLOUT_MODE` is set to anything but `PLATFORM`; `StateSender` has a repository's text as a whole.
* `EventSource` sends well-formed messages with comments between them.  A comment
  that is not at the start of its chunk has the empty name, which `str_eq_n` takes
  for "event" (`util.c:202-211`): it fires an event with the comment's text, which
  no handler listens to; `FiredWasSent` says that this is the worst that happens.
* The empty literal `""` evaluates to a text of two quotes (`eval/parser.c:24,550`),
  and a list, a map or a date has no result at all: `create_result_from_stack_item`
  answers a null pointer, which its callers assert against.  `Denotation` says so.
* The tokenizer has one list and one dictionary at a time and applies no operator
  inside them (`eval/parser.c:522,536`, FIXME).  `tests/eval/test_parser.c:432-433` says of
  an operator in a list "THIS CASE IS NOT SUPPORTED" and expects what `Elements` says: its
  name and its operands are elements.  A list in a list, and a dictionary of anything but words and
  strings, are in the run, but `ResultIsDenotation` promises nothing of them (`Supported`).
* Texts that are numbers are what `strtod` takes, `nan` and `inf` among them
  (`util.c:85-93`).  Of NaN every comparison is false, `numne` too; of an infinity and itself
  `numeq` and `numne` both are.  At a distance of exactly `DBL_EPSILON` `numeq` holds and `lte` and
  `gte` do not (`eval/parser.c:845-855`).  `ComparisonsAgree` states these as exceptions.
* A word that is no operator pushes nothing while the operators around it pop
  their operands: `and(unheardOf(), true)` fails an assertion.  `ResultIsDenotation`
  allows it, and says that otherwise the result is null, as
  `tests/eval/test_parser.c` has it for the outermost word.  A word that ends in a
  digit is a number to the tokenizer (`eval/parser.c:38`: the alternation is not
  anchored); nothing is promised of an expression with an operator of such a name.
* `rox_dynamic_value_create_copy` has no case for a date (`values.c:119-151`), so a
  stored date reaches the expression blank; `tests/eval/test_parser.c:467` expects
  its seconds, in a test that is not registered.  `server.c:440` and `values.c:83`
  pass the address of a `struct tm` to a copy of a string, which is not modelled.
* A document whose lists cannot be parsed ends the process in
  `configuration_create` (`core/configuration.c:467-482`, location `abort_lists` of
  `ConfigFetch`), in a client with the document already stored; so does a signature
  of another length than the key's (`xpack/security.c:53`, `abort_signature`), and an
  API answer without a result (`core/network.c:651`, `abort_result`).  A stored
  document of the first two kinds ends every later start of the process too.
* `signature_verifier_create` ignores the verifier of the application's it is given;
  `ConfigFetch` has the SDK's own.
* A peek at a frozen flag answers the frozen value (`freeze.c:119-132`), although
  `include/rox/overrides.h:50` says "without freeze"; `PeekFreezesNothing` states
  what the code does do.
* `FlagValues` has one thread in its run.  With two, a second reader finds
  `frozen` set before `frozen_value` is (`freeze.c:121-128`): it is answered `NULL`,
  which the getters of all types but boolean assert against (`NeverAborts`); two first readers may report different
  values (`FrozenIsReported`); and an override set between a read's lookup of overrides
  (`overrides.c:80`) and its freeze (`freeze.c:119-121`) leaves the flag overridden and frozen
  (`OverriddenIsNotFrozen`).
* The default storage has no `entry_delete`: overrides cleared all at once are back after
  a restart (`overrides.c:196-204`), and `ClearedStaysCleared` does not speak of it.
* A string flag may be added without a default (`include/rox/flags.h:20`), but
  `variant_get_value` passes the missing value to `string_value_to_string`, which
  asserts one, whenever the condition yields no string; an assumption of
  `FlagValues` leaves such flags out.  So does a read by the static getter of
  another type whose default it cannot parse; the dynamic API brings its own.
* An override or a frozen text that is no number is read as 0, neither the
  configuration's value nor the default: `Convert` says so.
* `mem_int_to_str` has room for nine characters; an integer default of ten digits
  loses its last one (`IntToStr`), which no run reaches.
* A double default is written with `%f`, and the zeros and the dot behind it are cut, one by one
  (`util.c:112`): a flag added with 10.0 answers 1.0, although
  `include/rox/flags.h:138` says it answers its default.  The run's default is 1.5.
* Of two messages in one chunk the second loses its first character
  (`xpack/notifications.c:219`, against the comment at line 215), and its event
  with it.  `FiredWasSent` says that nothing is made of the rest.
* An evaluation overlapping a fetch works on a condition the setter frees
  (`core/entities.c:143`), although the lists of experiments are kept for one more
  fetch for this very reason (`core/repositories.c:106`).  `GraceOfOneFetch` is
  about the lists, and about copies of the condition in force.
* `Lifecycle` has no application thread inside another call while one is in
  `rox_setup`, but for those inside `rox_setup`.  So it does not show: an evaluation
  between the free and the replacement of the context (`server.c:206`); a flag added
  while `rox_overrides_init` registers its callback and then walks the flags, which is
  wrapped twice (`overrides.c:113-123`); two dynamic reads that both add the flag
  (`core/client.c:426`).  `RacyRetries` is `FALSE` in its run: with `TRUE`, a retry may
  free the Rox whose state the failed `rox_setup` reads after its unlock
  (`server.c:182-183`), and `HeapIsExact` fails.
* Leaks the code is known to have are in `abandoned`: the options of a refused
  `rox_setup`, a context set before its time, a flag whose name is taken, the
  built-in property the application has replaced in advance.
* `rox_options_set_roxy_url` called twice frees the version instead of the URL
  (`core/client.c:165`); the map of flags keeps the application's pointer to the name
  (`core/repositories.c:176`); `mkdirs` fails on a name with a colon and leaks its
  buffer when it fails (`util.c:442`).  These are local to a line and in no module.
* The unlocked maps and lists shared by threads (entries of the storage, flags and
  properties of the repositories, `curl_handles` of a request) are changed in one
  step wherever they occur.
* A property whose generator gives `NULL`, as one that looks into the context does for what is not
  there, ends the process in the analytics' delegate (`xpack/impression.c:52-53`, `values.c:173`): `Abort`.
  Line 64 has "(null_distinct_id" for events without an id, and `tests/xpack/test_impression.c:453` expects it where no
  property of the name is registered.
  The handlers behind the delegate do not hear of that evaluation, and `HeardOnceInOrder` and
  `EventNamesItsSubject` are about those that return.
* In `Impressions`, an experiment whose property only the dynamic rule knows gets an
  event with the id of `rox.distinct_id` (`xpack/impression.c:41-49`);
  `EventNamesItsSubject` is about registered properties.  `analytics_client_track` is a stub
  in this repository.  An evaluation by the handler of the first fetch is not heard
  by the application's impression handler, which is registered after it
  (`core.c:382-392`), and is not under its dynamic rule.
* curl's own behaviour, the text of JSON, the mathematics of signatures, formatting.
* `FlagConditions` treats the reset of a flag as one step, names a flag in at
  most one experiment per configuration, and leaves the hash maps' own races
  out.  Target groups are replaced like experiments and are left out there.
* `thread_started` of the periodic task: `periodic_task_free` joins only if it
  is set; `RoxCore` joins always, which is the same as a thread that was not
  started counts as ended.
* Reporting, logging, device properties, collections, vendored code, the C++
  wrappers: see `PROJECT.json`.

## Plan

1. Done: all modules above, and the theorems listed.
2. The lemmas about sequences and handlers that `FlagValuesProofs`, `ImpressionsProofs` and
   `LifecycleProofs` share in form could become one module.
