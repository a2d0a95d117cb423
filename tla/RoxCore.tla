------------------------------ MODULE RoxCore -------------------------------
(***************************************************************************)
(* The concurrent core of the SDK: every way a configuration fetch starts  *)
(* (an application thread, the periodic task, a push notification on the   *)
(* event source reader's thread), the fetch itself under fetch_lock, the   *)
(* push updates listener it starts and stops, and rox_core_free.           *)
(***************************************************************************)
EXTENDS FiniteSets

CONSTANTS
  Apps,             \* application threads
  Periodic,         \* the periodic task's thread
  Readers,          \* event source readers, each with a thread of its own
  NoThread,
  NoReader,
  Configs,          \* what the servers may answer
  NoConfig,
  Valid,            \* configurations that pass configuration_parser_parse
  PushOn,           \* configurations that enable rox.internal.pushUpdates
  Throttling,       \* configurations with rox.internal.throttleFetchInSeconds > 0
  PeriodicTask,     \* is the fetch interval option positive?
  PlainResponses,   \* may the push server answer with another content type?
  SpuriousWakeups   \* may pthread_cond_timedwait return 0 unsignalled?

Threads == Apps \cup {Periodic} \cup Readers

ASSUME RoxCoreAssumption ==
  /\ Periodic \notin Apps \cup Readers
  /\ Apps \cap Readers = {}
  /\ NoThread \notin Threads
  /\ NoReader \notin Readers
  /\ NoConfig \notin Configs
  /\ Valid \subseteq Configs
  /\ PushOn \subseteq Configs
  /\ Throttling \subseteq Configs
  /\ {PeriodicTask, PlainResponses, SpuriousWakeups} \subseteq BOOLEAN

VARIABLES
  pc,             \* where each thread is
  phase,          \* "new", "setup", "up", "down" (in rox_core_free), "gone"
  fetchLock,      \* the thread that holds core->fetch_lock
  stopped,        \* core->stopped
  freed,          \* rox_core_free has freed the components a fetch uses
  taskStopped,    \* periodic_task->stopped
  result,         \* each thread's configuration in rox_core_fetch
  changed,        \* each thread's has_changes in rox_core_fetch
  lastConfig,     \* core->last_configuration
  experiments,    \* the experiment repository's configuration
  targetGroups,   \* the target group repository's configuration
  flags,          \* the configuration the flags are set for evaluation with
  listener,       \* push_updates_listener: its reader, or NoReader
  allocated,      \* readers whose memory is allocated
  readerStopped,  \* reader->stopped
  reading,        \* reader->reading
  victim,         \* the reader a thread is stopping
  return,         \* where that thread goes on afterwards
  quit,           \* history: readers that ended without being told to
  overtaken       \* history: the threads rox_core_free ran into

fetchVars    == <<result, changed>>
configVars   == <<lastConfig, experiments, targetGroups, flags>>
listenerVars == <<listener, allocated, readerStopped, reading, victim, return, quit>>
coreVars     == <<phase, stopped, freed, taskStopped, overtaken>>
vars == <<pc, fetchLock, fetchVars, configVars, listenerVars, coreVars>>

(***************************************************************************)
(* The steps of a fetch, all of them under fetch_lock.                     *)
(***************************************************************************)
FetchSteps == {"check", "request", "experiments", "groups", "flags", "notify", "unlock"}
StopSteps  == {"await", "join", "release"}
FreeSteps  == {"free", "stoptask", "jointask"}
ReaderSteps == {"connect", "stream", "chunk", "backoff", "detach", "exit"}
Locations  == {"idle", "sleep", "none", "dead", "lock"}
                \cup FetchSteps \cup StopSteps \cup FreeSteps \cup ReaderSteps

Goto(t, loc) == pc' = [pc EXCEPT ![t] = loc]

\* Where a thread goes when rox_core_fetch returns to it: the periodic task
\* tests task->stopped, a reader is back in the chunk its write callback got.
Caller(t) ==
  IF t \in Apps THEN "idle"
  ELSE IF t \in Readers THEN "chunk"
  ELSE IF taskStopped THEN "dead" ELSE "sleep"

Init ==
  /\ pc = [t \in Threads |-> IF t \in Apps THEN "idle" ELSE "none"]
  /\ phase = "new"
  /\ fetchLock = NoThread
  /\ stopped = FALSE /\ freed = FALSE /\ taskStopped = FALSE
  /\ result = [t \in Threads |-> NoConfig]
  /\ changed = [t \in Threads |-> FALSE]
  /\ lastConfig = NoConfig
  /\ experiments = NoConfig /\ targetGroups = NoConfig /\ flags = NoConfig
  /\ listener = NoReader
  /\ allocated = {}
  /\ readerStopped = [r \in Readers |-> FALSE]
  /\ reading = [r \in Readers |-> FALSE]
  /\ victim = [t \in Threads |-> NoReader]
  /\ return = [t \in Threads |-> "unlock"]
  /\ quit = {} /\ overtaken = {}

(***************************************************************************)
(* Calls of the application.                                               *)
(***************************************************************************)

\* rox_core_setup up to its rox_core_fetch(core, false).
Setup(a) ==
  /\ phase = "new"
  /\ pc[a] = "idle"
  /\ phase' = "setup"
  /\ Goto(a, "lock")
  /\ UNCHANGED <<fetchLock, stopped, freed, taskStopped, overtaken,
                 fetchVars, configVars, listenerVars>>

\* rox_fetch: check_setup_called, then rox_core_fetch(core, false).
CallFetch(a) ==
  /\ phase = "up"
  /\ pc[a] = "idle"
  /\ Goto(a, "lock")
  /\ UNCHANGED <<fetchLock, fetchVars, configVars, listenerVars, coreVars>>

(***************************************************************************)
(* rox_core_fetch.                                                         *)
(***************************************************************************)

\* No lock at all around the fetch.
AcquireUnguarded(t) ==
  /\ pc[t] = "lock"
  /\ fetchLock' = t
  /\ Goto(t, "check")
  /\ UNCHANGED <<fetchVars, configVars, listenerVars, coreVars>>

Acquire(t) ==
  /\ pc[t] = "lock"
  /\ fetchLock = NoThread
  /\ fetchLock' = t
  /\ Goto(t, "check")
  /\ UNCHANGED <<fetchVars, configVars, listenerVars, coreVars>>

\* An early return that forgets the unlock.
CheckKeepsLock(t) ==
  /\ pc[t] = "check"
  /\ Goto(t, IF stopped THEN Caller(t) ELSE "request")
  /\ UNCHANGED <<fetchLock, fetchVars, configVars, listenerVars, coreVars>>

\* The early returns: a stopped core, and the throttle of the configuration
\* in force, which may (it depends on the time) reject the fetch.
Check(t) ==
  /\ pc[t] = "check"
  /\ \/ stopped /\ Goto(t, "unlock")
     \/ ~stopped /\ experiments \in Throttling /\ Goto(t, "unlock")
     \/ ~stopped /\ Goto(t, "request")
  /\ UNCHANGED <<fetchLock, fetchVars, configVars, listenerVars, coreVars>>

\* configuration_fetcher_fetch returned NULL: the error was reported.
RequestFails(t) ==
  /\ pc[t] = "request"
  /\ Goto(t, "unlock")
  /\ UNCHANGED <<fetchLock, fetchVars, configVars, listenerVars, coreVars>>

\* last_configuration replaced before it is compared with.
ReceiveThenCompare(t, c) ==
  /\ pc[t] = "request"
  /\ result' = [result EXCEPT ![t] = c]
  /\ changed' = [changed EXCEPT ![t] = FALSE]
  /\ lastConfig' = c
  /\ Goto(t, IF c \in Valid THEN "experiments" ELSE "unlock")
  /\ UNCHANGED <<fetchLock, experiments, targetGroups, flags,
                 listenerVars, coreVars>>

\* The result of configuration_parser_parse is not tested.
ReceiveUnverified(t, c) ==
  /\ pc[t] = "request"
  /\ result' = [result EXCEPT ![t] = c]
  /\ changed' = [changed EXCEPT ![t] = (c # lastConfig)]
  /\ lastConfig' = c
  /\ Goto(t, "experiments")
  /\ UNCHANGED <<fetchLock, experiments, targetGroups, flags,
                 listenerVars, coreVars>>

\* A configuration arrived: has_changes against the last one, which it
\* replaces whether or not it can be parsed and verified.
Receive(t, c) ==
  /\ pc[t] = "request"
  /\ result' = [result EXCEPT ![t] = c]
  /\ changed' = [changed EXCEPT ![t] = (c # lastConfig)]
  /\ lastConfig' = c
  /\ Goto(t, IF c \in Valid THEN "experiments" ELSE "unlock")
  /\ UNCHANGED <<fetchLock, experiments, targetGroups, flags,
                 listenerVars, coreVars>>

SetExperiments(t) ==
  /\ pc[t] = "experiments"
  /\ experiments' = result[t]
  /\ Goto(t, "groups")
  /\ UNCHANGED <<fetchLock, fetchVars, lastConfig, targetGroups, flags,
                 listenerVars, coreVars>>

\* flag_setter_set_experiments is only called when something changed since
\* the first configuration was applied.
SetTargetGroupsSkipsFlags(t) ==
  /\ pc[t] = "groups"
  /\ targetGroups' = result[t]
  /\ Goto(t, IF flags = NoConfig THEN "flags" ELSE "notify")
  /\ UNCHANGED <<fetchLock, fetchVars, lastConfig, experiments, flags,
                 listenerVars, coreVars>>

SetTargetGroups(t) ==
  /\ pc[t] = "groups"
  /\ targetGroups' = result[t]
  /\ Goto(t, "flags")
  /\ UNCHANGED <<fetchLock, fetchVars, lastConfig, experiments, flags,
                 listenerVars, coreVars>>

\* flag_setter_set_experiments reads the experiments back from the repository.
SetFlags(t) ==
  /\ pc[t] = "flags"
  /\ flags' = experiments
  /\ Goto(t, "notify")
  /\ UNCHANGED <<fetchLock, fetchVars, lastConfig, experiments, targetGroups,
                 listenerVars, coreVars>>

(***************************************************************************)
(* The configuration fetched handler of xpack/configuration.c, run by the  *)
(* invoker inside the fetch, and the listener it starts and stops.         *)
(***************************************************************************)

\* _start_push_updates_listener.
StartListener(t) ==
  /\ pc[t] = "notify"
  /\ experiments \in PushOn
  /\ listener = NoReader
  /\ \E r \in Readers :
       /\ pc[r] \in {"none", "dead"} /\ r \notin allocated
       /\ listener' = r
       /\ allocated' = allocated \cup {r}
       /\ readerStopped' = [readerStopped EXCEPT ![r] = FALSE]
       /\ reading' = [reading EXCEPT ![r] = TRUE]
       /\ pc' = [pc EXCEPT ![t] = "unlock", ![r] = "connect"]
       /\ quit' = quit \ {r}
       /\ overtaken' = IF stopped THEN overtaken \cup {r} ELSE overtaken
  /\ UNCHANGED <<fetchLock, victim, return, fetchVars, configVars,
                 phase, stopped, freed, taskStopped>>

\* The listener is already as the flag wants it.
KeepListener(t) ==
  /\ pc[t] = "notify"
  /\ (experiments \in PushOn) <=> (listener # NoReader)
  /\ Goto(t, "unlock")
  /\ UNCHANGED <<fetchLock, fetchVars, configVars, listenerVars, coreVars>>

\* After the join the caller is back where it decided to stop the reader.
StopReaderRetries(t, back) ==
  /\ readerStopped' = [readerStopped EXCEPT ![listener] = TRUE]
  /\ victim' = [victim EXCEPT ![t] = listener]
  /\ return' = [return EXCEPT ![t] = pc[t]]
  /\ quit' = IF listener = t THEN quit \cup {t} ELSE quit
  /\ Goto(t, "await")
  /\ UNCHANGED <<listener, allocated, reading>>

\* _event_source_reader_stop up to its test of reader->reading.
StopReader(t, back) ==
  /\ readerStopped' = [readerStopped EXCEPT ![listener] = TRUE]
  /\ victim' = [victim EXCEPT ![t] = listener]
  /\ return' = [return EXCEPT ![t] = back]
  /\ quit' = IF listener = t THEN quit \cup {t} ELSE quit
  /\ Goto(t, "await")
  /\ UNCHANGED <<listener, allocated, reading>>

\* _stop_push_updates_listener in the handler.
StopListener(t) ==
  /\ pc[t] = "notify"
  /\ experiments \notin PushOn
  /\ listener # NoReader
  /\ StopReader(t, "unlock")
  /\ UNCHANGED <<fetchLock, fetchVars, configVars, coreVars>>

\* pthread_join would return at once, with an error: the reader's thread is
\* the caller's own, or has detached itself.
JoinFails(t) == victim[t] = t \/ pc[victim[t]] \in {"exit", "dead"}

\* The reader's memory is released without waiting for its thread.
AwaitReaderNoJoin(t) ==
  /\ pc[t] = "await"
  /\ Goto(t, "release")
  /\ reading' = [reading EXCEPT ![victim[t]] = FALSE]
  /\ UNCHANGED <<fetchLock, listener, allocated, readerStopped, victim, return,
                 quit, fetchVars, configVars, coreVars>>

\* The rest of _event_source_reader_stop: nothing to join, a join that fails,
\* or a join that has to wait.
AwaitReader(t) ==
  /\ pc[t] = "await"
  /\ \/ /\ reading[victim[t]] /\ ~JoinFails(t)
        /\ Goto(t, "join")
        /\ UNCHANGED reading
     \/ /\ ~reading[victim[t]] \/ JoinFails(t)
        /\ Goto(t, "release")
        /\ reading' = [reading EXCEPT ![victim[t]] = FALSE]
  /\ UNCHANGED <<fetchLock, listener, allocated, readerStopped, victim, return,
                 quit, fetchVars, configVars, coreVars>>

Join(t) ==
  /\ pc[t] = "join"
  /\ pc[victim[t]] = "dead"
  /\ reading' = [reading EXCEPT ![victim[t]] = FALSE]
  /\ Goto(t, "release")
  /\ UNCHANGED <<fetchLock, listener, allocated, readerStopped, victim, return,
                 quit, fetchVars, configVars, coreVars>>

\* The listener is freed and push_updates_listener still points to it.
ReleaseKeepsPointer(t) ==
  /\ pc[t] = "release"
  /\ allocated' = allocated \ {victim[t]}
  /\ victim' = [victim EXCEPT ![t] = NoReader]
  /\ Goto(t, return[t])
  /\ UNCHANGED <<fetchLock, listener, readerStopped, reading, return, quit,
                 fetchVars, configVars, coreVars>>

\* notification_listener_free, and push_updates_listener = NULL.
Release(t) ==
  /\ pc[t] = "release"
  /\ allocated' = allocated \ {victim[t]}
  /\ listener' = NoReader
  /\ victim' = [victim EXCEPT ![t] = NoReader]
  /\ Goto(t, return[t])
  /\ UNCHANGED <<fetchLock, readerStopped, reading, return, quit,
                 fetchVars, configVars, coreVars>>

\* The end of the fetch; for the fetch of rox_core_setup also the rest of it,
\* which starts the periodic task.
Unlock(t) ==
  /\ pc[t] = "unlock"
  /\ fetchLock' = NoThread
  /\ result' = [result EXCEPT ![t] = NoConfig]
  /\ changed' = [changed EXCEPT ![t] = FALSE]
  /\ IF phase = "setup" /\ t \in Apps
     THEN /\ phase' = "up"
          /\ pc' = [pc EXCEPT ![t] = "idle",
                              ![Periodic] = IF PeriodicTask THEN "sleep" ELSE "none"]
     ELSE /\ Goto(t, Caller(t))
          /\ UNCHANGED phase
  /\ UNCHANGED <<stopped, freed, taskStopped, overtaken, configVars, listenerVars>>

Fetch(t) ==
  \/ Acquire(t) \/ Check(t) \/ RequestFails(t)
  \/ \E c \in Configs : Receive(t, c)
  \/ SetExperiments(t) \/ SetTargetGroups(t) \/ SetFlags(t)
  \/ StartListener(t) \/ KeepListener(t) \/ StopListener(t)
  \/ AwaitReader(t) \/ Join(t) \/ Release(t) \/ Unlock(t)

(***************************************************************************)
(* The event source reader's thread.  A reader whose memory was freed      *)
(* under it may find anything in its stopped field.                        *)
(***************************************************************************)
SeesStopped(r) == r \in allocated => readerStopped[r]
SeesRunning(r) == r \in allocated => ~readerStopped[r]

\* while (!reader->stopped) curl_easy_perform(curl).
Connect(r) ==
  /\ pc[r] = "connect"
  /\ \/ SeesStopped(r) /\ Goto(r, "detach")
     \/ SeesRunning(r) /\ Goto(r, "stream")
  /\ UNCHANGED <<fetchLock, fetchVars, configVars, listenerVars, coreVars>>

\* A "changed" event reaches the write callback and, through the listener's
\* handler, core_x_configuration_fetch_func.
PushChanged(r) ==
  /\ pc[r] = "stream"
  /\ SeesRunning(r)
  /\ Goto(r, "lock")
  /\ UNCHANGED <<fetchLock, fetchVars, configVars, listenerVars, coreVars>>

\* Another "changed" event in the same chunk: stopped is not tested again.
PushChangedAgain(r) ==
  /\ pc[r] = "chunk"
  /\ Goto(r, "lock")
  /\ UNCHANGED <<fetchLock, fetchVars, configVars, listenerVars, coreVars>>

\* The write callback returns to curl.
ChunkDone(r) ==
  /\ pc[r] = "chunk"
  /\ Goto(r, "stream")
  /\ UNCHANGED <<fetchLock, fetchVars, configVars, listenerVars, coreVars>>

\* The write callback does not test stopped.
PushIgnoresStop(r) ==
  /\ pc[r] = "stream"
  /\ SeesStopped(r)
  /\ UNCHANGED vars

\* Any data reaches the write callback of a stopped reader, which aborts the
\* transfer.  (Other data leaves a running reader as it is.)
PushAborted(r) ==
  /\ pc[r] = "stream"
  /\ SeesStopped(r)
  /\ Goto(r, "detach")
  /\ UNCHANGED <<fetchLock, fetchVars, configVars, listenerVars, coreVars>>

\* The server ends the stream, or the connection fails.
Disconnect(r) ==
  /\ pc[r] = "stream"
  /\ \/ SeesStopped(r) /\ Goto(r, "detach")
     \/ SeesRunning(r) /\ Goto(r, "backoff")
  /\ UNCHANGED <<fetchLock, fetchVars, configVars, listenerVars, coreVars>>

\* The header callback stops the reader from its own thread, whether or not
\* another one is doing so: the join fails and reading is cleared while the
\* transfer goes on.
PlainResponse(r) ==
  /\ PlainResponses
  /\ pc[r] = "stream"
  /\ r \in allocated
  /\ readerStopped' = [readerStopped EXCEPT ![r] = TRUE]
  /\ reading' = [reading EXCEPT ![r] = FALSE]
  /\ quit' = quit \cup {r}
  /\ UNCHANGED <<pc, fetchLock, listener, allocated, victim, return,
                 fetchVars, configVars, coreVars>>

\* The end of the reconnect timeout is taken for a stop.
ReconnectGivesUp(r) ==
  /\ pc[r] = "backoff"
  /\ Goto(r, "detach")
  /\ UNCHANGED <<fetchLock, fetchVars, configVars, listenerVars, coreVars>>

\* The reconnect timeout has passed.
Reconnect(r) ==
  /\ pc[r] = "backoff"
  /\ Goto(r, "connect")
  /\ UNCHANGED <<fetchLock, fetchVars, configVars, listenerVars, coreVars>>

\* A wakeup of the reconnect wait before its time ends the thread.
ReaderWoken(r) ==
  /\ SpuriousWakeups
  /\ pc[r] = "backoff"
  /\ Goto(r, "detach")
  /\ quit' = quit \cup {r}
  /\ UNCHANGED <<fetchLock, listener, allocated, readerStopped, reading, victim,
                 return, fetchVars, configVars, coreVars>>

\* pthread_detach(pthread_self()).
Detach(r) ==
  /\ pc[r] = "detach"
  /\ Goto(r, "exit")
  /\ UNCHANGED <<fetchLock, fetchVars, configVars, listenerVars, coreVars>>

\* reader->reading = false, and the thread ends.
Exit(r) ==
  /\ pc[r] = "exit"
  /\ reading' = [reading EXCEPT ![r] = FALSE]
  /\ Goto(r, "dead")
  /\ UNCHANGED <<fetchLock, listener, allocated, readerStopped, victim, return,
                 quit, fetchVars, configVars, coreVars>>

Reader(r) ==
  \/ Connect(r) \/ PushChanged(r) \/ PushChangedAgain(r) \/ ChunkDone(r)
  \/ PushAborted(r) \/ Disconnect(r) \/ PlainResponse(r)
  \/ Reconnect(r) \/ ReaderWoken(r) \/ Detach(r) \/ Exit(r)

(***************************************************************************)
(* The periodic task's thread.                                             *)
(***************************************************************************)

\* The wait timed out.
PeriodElapses ==
  /\ pc[Periodic] = "sleep"
  /\ Goto(Periodic, IF taskStopped THEN "dead" ELSE "lock")
  /\ UNCHANGED <<fetchLock, fetchVars, configVars, listenerVars, coreVars>>

\* A wakeup before its time ends the thread.
PeriodicWoken ==
  /\ SpuriousWakeups
  /\ pc[Periodic] = "sleep"
  /\ Goto(Periodic, "dead")
  /\ UNCHANGED <<fetchLock, fetchVars, configVars, listenerVars, coreVars>>

\* pthread_cancel takes effect at a cancellation point: the timed wait, the
\* socket calls of a request, pthread_join.
PeriodicCancelled ==
  /\ taskStopped
  /\ pc[Periodic] \in {"sleep", "request", "join"}
  /\ Goto(Periodic, "dead")
  /\ UNCHANGED <<fetchLock, fetchVars, configVars, listenerVars, coreVars>>

(***************************************************************************)
(* rox_shutdown: rox_core_free.  Nothing makes it wait for a rox_fetch, a  *)
(* periodic fetch or a push fetch that is in progress.                     *)
(***************************************************************************)

\* The thread has tested core->stopped and goes on to use the components.
PastStopTest(t) ==
  \/ pc[t] \in {"request", "experiments", "groups", "flags", "notify"}
  \/ pc[t] \in StopSteps /\ return[t] = "unlock"

\* The calls that are in progress when thread a shuts down, and a itself if
\* one of them uses what it is about to free.
Overtakes(a) ==
  LET calls   == {b \in Apps : pc[b] # "idle"}
      fetches == {t \in Threads : PastStopTest(t)}
  IN calls \cup fetches \cup (IF fetches = {} THEN {} ELSE {a})

\* stopped = true, without the lock, then x_configuration_fetched_invoker_free.
Shutdown(a) ==
  /\ phase = "up"
  /\ pc[a] = "idle"
  /\ phase' = "down"
  /\ stopped' = TRUE
  /\ overtaken' = Overtakes(a)
  /\ IF listener # NoReader
     THEN StopReader(a, "free")
     ELSE Goto(a, "free") /\ UNCHANGED listenerVars
  /\ UNCHANGED <<fetchLock, freed, taskStopped, fetchVars, configVars>>

\* Everything from flag_setter_free to x_impression_invoker_free.
FreeComponents(a) ==
  /\ pc[a] = "free"
  /\ freed' = TRUE
  /\ Goto(a, "stoptask")
  /\ UNCHANGED <<fetchLock, phase, stopped, taskStopped, overtaken,
                 fetchVars, configVars, listenerVars>>

\* periodic_task_free: stopped = true, then pthread_cancel.
StopTask(a) ==
  /\ pc[a] = "stoptask"
  /\ taskStopped' = TRUE
  /\ Goto(a, "jointask")
  /\ UNCHANGED <<fetchLock, phase, stopped, freed, overtaken,
                 fetchVars, configVars, listenerVars>>

\* pthread_join of the periodic task, then the core's own memory is freed.
JoinTask(a) ==
  /\ pc[a] = "jointask"
  /\ pc[Periodic] \in {"none", "dead"}
  /\ phase' = "gone"
  /\ Goto(a, "idle")
  /\ UNCHANGED <<fetchLock, stopped, freed, taskStopped, overtaken,
                 fetchVars, configVars, listenerVars>>

CoreFree(a) == FreeComponents(a) \/ StopTask(a) \/ JoinTask(a)

-----------------------------------------------------------------------------
Application(a) == Setup(a) \/ CallFetch(a) \/ Shutdown(a) \/ CoreFree(a)

Next ==
  \/ \E a \in Apps : Application(a)
  \/ \E t \in Threads : Fetch(t)
  \/ \E r \in Readers : Reader(r)
  \/ PeriodElapses \/ PeriodicWoken \/ PeriodicCancelled

Spec == Init /\ [][Next]_vars

(***************************************************************************)
(* Fairness.  A thread that can run does run; a mutex that is released     *)
(* again and again is eventually acquired; a request ends (curl gets a     *)
(* timeout of 30 seconds, CURLOPT_TIMEOUT) and so does the reconnect wait; *)
(* a chunk holds finitely many events.                                     *)
(* Nothing is assumed of the application or of the push server.            *)
(***************************************************************************)
RequestEnds(t) == RequestFails(t) \/ \E c \in Configs : Receive(t, c)

FetchProgress(t) ==
  \/ Check(t) \/ RequestEnds(t)
  \/ SetExperiments(t) \/ SetTargetGroups(t) \/ SetFlags(t)
  \/ StartListener(t) \/ KeepListener(t) \/ StopListener(t)
  \/ AwaitReader(t) \/ Join(t) \/ Release(t) \/ Unlock(t)

ReaderProgress(r) == Connect(r) \/ Reconnect(r) \/ Detach(r) \/ Exit(r)

Fairness ==
  /\ \A t \in Threads : SF_vars(Acquire(t))
  /\ \A t \in Threads : WF_vars(FetchProgress(t))
  /\ \A r \in Readers : WF_vars(ReaderProgress(r)) /\ SF_vars(ChunkDone(r))
  /\ \A a \in Apps : WF_vars(CoreFree(a))
  /\ WF_vars(PeriodElapses \/ PeriodicCancelled)

\* A push server that sends a comment line now and then, as a keep-alive.
ServerTalks == \A r \in Readers : WF_vars(PushAborted(r))

FairSpec == Spec /\ Fairness
TalkingSpec == Spec /\ Fairness /\ ServerTalks

-----------------------------------------------------------------------------
(***************************************************************************)
(* Properties.                                                             *)
(***************************************************************************)
Alive(r) == pc[r] \notin {"none", "dead"}

\* Thread t is about to use memory that has been freed: a component that
\* rox_core_free has freed, the core itself, or a reader.  Its step then works
\* on what is left there, or takes the process down and ends the behaviour.
UsesComponent(t) == freed /\ PastStopTest(t)
UsesCore(t) == phase = "gone" /\ pc[t] \in FetchSteps \cup StopSteps \cup {"lock"}
UsesReader(t) ==
  \/ t \in Readers /\ t \notin allocated /\ Alive(t)
  \/ pc[t] \in StopSteps /\ victim[t] \notin allocated
UsesFreed(t) == UsesComponent(t) \/ UsesCore(t) \/ UsesReader(t)

TypeOK ==
  /\ pc \in [Threads -> Locations]
  /\ phase \in {"new", "setup", "up", "down", "gone"}
  /\ fetchLock \in Threads \cup {NoThread}
  /\ stopped \in BOOLEAN /\ freed \in BOOLEAN /\ taskStopped \in BOOLEAN
  /\ result \in [Threads -> Configs \cup {NoConfig}]
  /\ changed \in [Threads -> BOOLEAN]
  /\ lastConfig \in Configs \cup {NoConfig}
  /\ experiments \in Configs \cup {NoConfig}
  /\ targetGroups \in Configs \cup {NoConfig}
  /\ flags \in Configs \cup {NoConfig}
  /\ listener \in Readers \cup {NoReader}
  /\ allocated \subseteq Readers
  /\ readerStopped \in [Readers -> BOOLEAN]
  /\ reading \in [Readers -> BOOLEAN]
  /\ victim \in [Threads -> Readers \cup {NoReader}]
  /\ return \in [Threads -> {"unlock", "free"}]
  /\ quit \subseteq Readers /\ overtaken \subseteq Threads

\* The threads between the lock and the unlock of rox_core_fetch.
Fetching(t) ==
  \/ pc[t] \in FetchSteps
  \/ pc[t] \in StopSteps /\ return[t] = "unlock"

\* Two threads are never inside rox_core_fetch's locked section at once, and
\* the one inside is the one that holds fetch_lock, whether the fetch came
\* from the application, the periodic task or a push notification.
FetchMutex == \A t \in Threads : Fetching(t) => fetchLock = t

\* Whenever no fetch is in progress the experiments, the target groups and
\* the flags all come from one and the same configuration, and it is one
\* that was verified: no mixture of two fetches, no half-applied one.
AppliedTogether ==
  fetchLock = NoThread =>
    /\ experiments = flags
    /\ targetGroups = flags
    /\ flags \in Valid \cup {NoConfig}

\* has_changes = false, which a configuration fetched handler uses to skip
\* its own refresh, is only ever reported when the configuration about to be
\* applied is the one already in force, even after fetches that failed or
\* delivered a configuration that could not be verified.
NoChangesMeansSame ==
  \A t \in Threads :
    pc[t] = "experiments" /\ ~changed[t] =>
      /\ experiments = result[t]
      /\ targetGroups = result[t]
      /\ flags = result[t]

\* Between fetches there is a push updates listener exactly when the
\* configuration in force enables rox.internal.pushUpdates.
ListenerMatchesFlag ==
  fetchLock = NoThread /\ ~stopped =>
    (listener # NoReader <=> experiments \in PushOn)

\* The configuration the flags carry is only ever replaced by the one
\* received most recently, and only by a verified one: a slow fetch never
\* puts an older configuration back over a newer one.
Stream == INSTANCE ConfigStream WITH last <- lastConfig, applied <- flags
ImplementsStream == Stream!Spec

\* Memory is only used after it was freed in the ways the code leaves open:
\* by a fetch, and the shutdown that ran into it, if rox_core_free began when
\* the fetch had tested core->stopped; by an application's own call that
\* rox_shutdown overlaps; by a reader that stopped itself; and by a reader
\* that has detached itself and only has its last store to do.  A fetch that
\* waits for fetch_lock while the core is freed, a periodic task that is
\* asleep, and a reader that was told to stop use nothing that was freed.
NoUseAfterFree ==
  \A t \in Threads :
    UsesFreed(t) =>
      \/ t \in overtaken \cup quit
      \/ t \in Readers /\ pc[t] = "exit"

\* Between fetches of a running core, the reader that push updates depend on
\* has a thread that is connected or about to reconnect, unless an answer
\* that is no event stream or an early wakeup has ended it for good: no
\* disconnection and no other thread's fetch costs the push channel.
PushChannelOpen ==
  fetchLock = NoThread /\ ~stopped /\ listener # NoReader =>
    \/ pc[listener] \in {"lock", "connect", "stream", "chunk", "backoff"}
    \/ listener \in quit

\* Every fetch that was started returns, or finds the core freed under it.
FetchReturns ==
  \A t \in Threads :
    pc[t] = "lock" ~> pc[t] \in {"idle", "sleep", "chunk", "dead"} \/ UsesFreed(t)

\* Waiting for a stopped reader's thread ends.
StopReturns == \A t \in Threads : pc[t] = "join" ~> pc[t] # "join"

\* rox_shutdown returns.
ShutdownReturns == phase = "down" ~> phase = "gone"
=============================================================================
