--------------------------- MODULE RoxCoreProofs ----------------------------
(***************************************************************************)
(* For any number of application threads, readers and configurations: one  *)
(* fetch at a time, no half-applied configuration, an honest has_changes,  *)
(* a listener that matches the configuration, and the refinement of        *)
(* ConfigStream; the ways in which freed memory is used, which are the     *)
(* ones NoUseAfterFree names; and that a push connection is not lost.      *)
(***************************************************************************)
EXTENDS RoxCore, TLAPS

\* The thread is inside rox_core_fetch and has not begun to apply anything,
\* or has applied all of it.
Settled(t) ==
  \/ pc[t] \in {"check", "request", "notify", "unlock"}
  \/ pc[t] \in StopSteps /\ return[t] = "unlock"

\* What is applied is one verified configuration, and the last one received
\* unless that one does not verify.
Together ==
  /\ experiments = flags
  /\ targetGroups = flags
  /\ lastConfig \in Valid => flags = lastConfig

\* The listener is as the applied configuration wants it.
Matches == listener # NoReader <=> experiments \in PushOn

\* How far the configurations have been applied, by the place of the thread
\* that holds the lock.
ApplyInv ==
  /\ flags \in Valid \cup {NoConfig}
  /\ fetchLock = NoThread => Together
  /\ \A t \in Threads :
       /\ Settled(t) => Together
       /\ pc[t] = "experiments" =>
            /\ experiments = flags /\ targetGroups = flags
            /\ result[t] = lastConfig /\ lastConfig \in Valid
            /\ ~changed[t] => flags = lastConfig
       /\ pc[t] = "groups" =>
            experiments = lastConfig /\ result[t] = lastConfig /\ lastConfig \in Valid
       /\ pc[t] = "flags" =>
            experiments = lastConfig /\ targetGroups = lastConfig /\ lastConfig \in Valid

\* Where the listener is known to match, and what a thread that stops it
\* knows.
ListenerInv ==
  /\ fetchLock = NoThread /\ ~stopped => Matches
  /\ \A t \in Threads :
       /\ pc[t] \in {"check", "request", "experiments", "unlock"} /\ ~stopped => Matches
       /\ pc[t] \in StopSteps /\ return[t] = "unlock" => experiments \notin PushOn
       /\ pc[t] \in StopSteps /\ return[t] = "free" => stopped

-----------------------------------------------------------------------------
\* What stopping a reader leaves alone, and the types of what it assigns.
LEMMA StopReaderTypes ==
  ASSUME TypeOK, listener # NoReader,
         NEW t \in Threads, NEW back \in {"unlock", "free"}, StopReader(t, back)
  PROVE  /\ pc' \in [Threads -> Locations]
         /\ listener' \in Readers \cup {NoReader}
         /\ allocated' \subseteq Readers
         /\ readerStopped' \in [Readers -> BOOLEAN]
         /\ reading' \in [Readers -> BOOLEAN]
         /\ victim' \in [Threads -> Readers \cup {NoReader}]
         /\ return' \in [Threads -> {"unlock", "free"}]
         /\ quit' \subseteq Readers
BY DEF TypeOK, StopReader, Goto, Locations, StopSteps

\* Every variable keeps its type.
THEOREM TypeCorrect == Spec => []TypeOK
<1> USE RoxCoreAssumption DEF TypeOK, Locations, FetchSteps, StopSteps, FreeSteps,
                              ReaderSteps, Threads
<1>1. Init => TypeOK
  BY DEF Init
<1>2. TypeOK /\ [Next]_vars => TypeOK'
  <2> SUFFICES ASSUME TypeOK, [Next]_vars
               PROVE  TypeOK'
    OBVIOUS
  <2> USE DEF Goto, Caller, fetchVars, configVars, listenerVars, coreVars
  <2>1. ASSUME NEW a \in Apps, Application(a)
        PROVE  TypeOK'
    <3>1. CASE Setup(a)  BY <3>1 DEF Setup
    <3>2. CASE CallFetch(a)  BY <3>2 DEF CallFetch
    <3>3. CASE Shutdown(a)
      <4>. overtaken' \subseteq Threads  BY <3>3 DEF Shutdown, Overtakes
      <4>1. CASE listener = NoReader  BY <3>3, <4>1 DEF Shutdown
      <4>2. CASE listener # NoReader
        <5>1. StopReader(a, "free")  BY <3>3, <4>2 DEF Shutdown
        <5> QED  BY <3>3, <4>2, <5>1, StopReaderTypes DEF Shutdown
      <4> QED  BY <4>1, <4>2
    <3>4. CASE CoreFree(a)
      <4>1. CASE FreeComponents(a)  BY <4>1 DEF FreeComponents
      <4>2. CASE StopTask(a)  BY <4>2 DEF StopTask
      <4>3. CASE JoinTask(a)  BY <4>3 DEF JoinTask
      <4> QED  BY <3>4, <4>1, <4>2, <4>3 DEF CoreFree
    <3> QED  BY <2>1, <3>1, <3>2, <3>3, <3>4 DEF Application
  <2>2. ASSUME NEW t \in Threads, Fetch(t)
        PROVE  TypeOK'
    <3>1. CASE Acquire(t) \/ Check(t) \/ RequestFails(t)
      BY <3>1 DEF Acquire, Check, RequestFails
    <3>2. ASSUME NEW c \in Configs, Receive(t, c)
          PROVE  TypeOK'
      BY <3>2 DEF Receive
    <3>3. CASE SetExperiments(t)  BY <3>3 DEF SetExperiments
    <3>4. CASE SetTargetGroups(t)  BY <3>4 DEF SetTargetGroups
    <3>5. CASE SetFlags(t)  BY <3>5 DEF SetFlags
    <3>6. CASE StartListener(t)  BY <3>6 DEF StartListener
    <3>7. CASE KeepListener(t)  BY <3>7 DEF KeepListener
    <3>8. CASE StopListener(t)  BY <3>8, StopReaderTypes DEF StopListener
    <3>9. CASE AwaitReader(t) \/ Join(t)
      <4>1. pc' \in [Threads -> Locations]  BY <3>9 DEF AwaitReader, Join
      <4>2. reading' \in [Readers -> BOOLEAN]  BY <3>9 DEF AwaitReader, Join
      <4> HIDE DEF Locations, Threads
      <4> QED  BY <3>9, <4>1, <4>2 DEF AwaitReader, Join
    <3>10. CASE Release(t)  BY <3>10 DEF Release
    <3>11. CASE Unlock(t)  BY <3>11 DEF Unlock
    <3> QED
      BY <2>2, <3>1, <3>2, <3>3, <3>4, <3>5, <3>6, <3>7, <3>8, <3>9, <3>10, <3>11
      DEF Fetch
  <2>3. ASSUME NEW r \in Readers, Reader(r)
        PROVE  TypeOK'
    <3>1. CASE Connect(r)  BY <3>1 DEF Connect
    <3>2. CASE PushChanged(r) \/ PushChangedAgain(r) \/ ChunkDone(r)
      BY <3>2 DEF PushChanged, PushChangedAgain, ChunkDone
    <3>3. CASE PushAborted(r)  BY <3>3 DEF PushAborted
    <3>4. CASE Disconnect(r)  BY <3>4 DEF Disconnect
    <3>5. CASE PlainResponse(r)  BY <3>5 DEF PlainResponse
    <3>6. CASE Reconnect(r) \/ ReaderWoken(r) \/ Detach(r)
      BY <3>6 DEF Reconnect, ReaderWoken, Detach
    <3>7. CASE Exit(r)  BY <3>7 DEF Exit
    <3> QED  BY <2>3, <3>1, <3>2, <3>3, <3>4, <3>5, <3>6, <3>7 DEF Reader
  <2>4. CASE PeriodElapses \/ PeriodicWoken \/ PeriodicCancelled
    BY <2>4 DEF PeriodElapses, PeriodicWoken, PeriodicCancelled
  <2>5. CASE UNCHANGED vars
    BY <2>5 DEF vars
  <2> QED
    BY <2>1, <2>2, <2>3, <2>4, <2>5 DEF Next
<1> QED
  BY <1>1, <1>2, PTL DEF Spec

-----------------------------------------------------------------------------
Inv == FetchMutex /\ ApplyInv /\ ListenerInv

\* What a step outside the locked section may do: it leaves the fetch's
\* variables alone, moves no thread into or inside the section, and touches
\* the listener only on the way down.
Outside ==
  /\ UNCHANGED <<fetchLock, fetchVars, configVars>>
  /\ \A t \in Threads : Fetching(t)' => pc'[t] = pc[t] /\ return'[t] = return[t]
  /\ stopped' \/ UNCHANGED <<listener, stopped>>
  /\ \A t \in Threads :
       pc'[t] \in StopSteps /\ return'[t] = "free" =>
         stopped' \/ (pc'[t] = pc[t] /\ return'[t] = return[t])

\* Such a step disturbs nothing that is known of the fetch and the listener.
LEMMA OutsideKeepsInv ==
  ASSUME TypeOK, Inv, Outside
  PROVE  Inv'
<1> USE DEF Outside, fetchVars, configVars
<1>1. FetchMutex'
  BY DEF Inv, FetchMutex, Fetching
<1>2. ApplyInv'
  <2>1. \A t \in Threads : Settled(t)' => Settled(t)
    BY DEF Settled, Fetching, FetchSteps, StopSteps
  <2>2. Together' <=> Together
    BY DEF Together
  <2>3. \A t \in Threads :
          pc'[t] \in {"experiments", "groups", "flags"} => pc'[t] = pc[t]
    BY DEF Fetching, FetchSteps
  <2> QED
    BY <2>1, <2>2, <2>3 DEF Inv, ApplyInv
<1>3. ListenerInv'
  <2>1. ~stopped' => (Matches' <=> Matches) /\ ~stopped
    BY DEF Matches
  <2>2. \A t \in Threads :
          /\ pc'[t] \in {"check", "request", "experiments", "unlock"} => pc'[t] = pc[t]
          /\ pc'[t] \in StopSteps /\ return'[t] = "unlock" =>
               pc'[t] = pc[t] /\ return'[t] = return[t]
    BY DEF Fetching, FetchSteps
  <2>3. stopped => stopped'
    OBVIOUS
  <2> QED
    BY <2>1, <2>2, <2>3 DEF Inv, ListenerInv
<1> QED  BY <1>1, <1>2, <1>3 DEF Inv

\* The application's calls other than rox_shutdown, the reader's thread and
\* the periodic task outside their fetches, and rox_core_free.
LEMMA QuietSteps ==
  ASSUME TypeOK,
         \/ \E a \in Apps : Setup(a) \/ CallFetch(a) \/ CoreFree(a)
         \/ \E r \in Readers : Reader(r)
         \/ PeriodElapses \/ PeriodicWoken \/ PeriodicCancelled
  PROVE  Outside
<1> USE RoxCoreAssumption DEF Outside, Goto, Threads, coreVars, listenerVars,
                              FetchSteps, StopSteps, TypeOK
<1>1. ASSUME NEW t \in Threads, NEW loc, loc \notin FetchSteps \cup StopSteps, Goto(t, loc),
             UNCHANGED <<fetchLock, fetchVars, configVars, listener, return, stopped>>
      PROVE  Outside
  BY <1>1 DEF Fetching
<1>2. ASSUME NEW a \in Apps, Setup(a) \/ CallFetch(a) \/ CoreFree(a)
      PROVE  Outside
  BY <1>1, <1>2 DEF Setup, CallFetch, CoreFree, FreeComponents, StopTask, JoinTask
<1>3. ASSUME NEW r \in Readers, Reader(r)
      PROVE  Outside
  <2>1. CASE PlainResponse(r)  BY <2>1 DEF PlainResponse, Fetching
  <2>2. CASE ~PlainResponse(r)
    BY <1>1, <1>3, <2>2
    DEF Reader, Connect, PushChanged, PushChangedAgain, ChunkDone, PushAborted,
        Disconnect, Reconnect, ReaderWoken, Detach, Exit
  <2> QED  BY <2>1, <2>2
<1>4. CASE PeriodElapses \/ PeriodicWoken \/ PeriodicCancelled
  BY <1>1, <1>4 DEF PeriodElapses, PeriodicWoken, PeriodicCancelled
<1> QED  BY <1>2, <1>3, <1>4

\* rox_shutdown and what it does to stop the listener.
LEMMA ShutdownSteps ==
  ASSUME TypeOK, Inv,
         \/ \E a \in Apps : Shutdown(a)
         \/ \E t \in Threads : (AwaitReader(t) \/ Join(t) \/ Release(t)) /\ return[t] = "free"
  PROVE  Outside
<1> USE RoxCoreAssumption DEF Outside, Goto, Threads, coreVars, listenerVars,
                              FetchSteps, StopSteps, TypeOK
<1>1. ASSUME NEW a \in Apps, Shutdown(a)
      PROVE  Outside
  <2>1. CASE listener = NoReader  BY <1>1, <2>1 DEF Shutdown, Fetching
  <2>2. CASE listener # NoReader
    <3>1. /\ \A u \in Threads \ {a} : pc'[u] = pc[u] /\ return'[u] = return[u]
          /\ return'[a] = "free"
          /\ pc'[a] \in StopSteps
      BY <1>1, <2>2 DEF Shutdown, StopReader
    <3> QED  BY <1>1, <3>1 DEF Shutdown, Fetching
  <2> QED  BY <2>1, <2>2
<1>2. ASSUME NEW t \in Threads, AwaitReader(t) \/ Join(t) \/ Release(t), return[t] = "free"
      PROVE  Outside
  <2>1. stopped /\ UNCHANGED <<stopped, return>>
    BY <1>2 DEF AwaitReader, Join, Release, Inv, ListenerInv
  <2>2. /\ \A u \in Threads \ {t} : pc'[u] = pc[u]
        /\ pc'[t] \in {"join", "release", "free"}
    BY <1>2 DEF AwaitReader, Join, Release
  <2> QED  BY <1>2, <2>1, <2>2 DEF AwaitReader, Join, Release, Fetching
<1> QED  BY <1>1, <1>2

-----------------------------------------------------------------------------
\* While t is inside the locked section no other thread is, and after a step
\* of t that moves no other thread into it none is either.
LEMMA Alone ==
  ASSUME Inv, NEW t \in Threads, Fetching(t)
  PROVE  fetchLock = t /\ \A u \in Threads \ {t} : ~Fetching(u)
BY DEF Inv, FetchMutex

\* A step of t inside the section: what is left to show is about t alone.
LEMMA InsideKeepsMutex ==
  ASSUME NEW t \in Threads, Inv, Fetching(t), UNCHANGED fetchLock,
         \A u \in Threads \ {t} : Fetching(u)' => Fetching(u)
  PROVE  /\ FetchMutex'
         /\ \A u \in Threads \ {t} : ~Fetching(u)' /\ ~Settled(u)'
         /\ fetchLock' = t
         /\ \A u \in Threads \ {t} : pc'[u] \notin FetchSteps
<1>1. \A u \in Threads \ {t} : ~Fetching(u)'  BY Alone
<1>2. fetchLock' = t  BY Alone
<1> QED  BY <1>1, <1>2 DEF FetchMutex, Fetching, Settled, FetchSteps

\* The steps of rox_core_fetch that change no configuration.
LEMMA PlainFetchSteps ==
  ASSUME TypeOK, Inv, NEW t \in Threads,
         \/ Acquire(t) \/ Check(t) \/ RequestFails(t) \/ KeepListener(t)
         \/ StartListener(t) \/ StopListener(t)
         \/ (AwaitReader(t) \/ Join(t) \/ Release(t)) /\ return[t] = "unlock"
  PROVE  Inv'
<1> USE RoxCoreAssumption DEF Goto, Threads, coreVars, listenerVars, fetchVars,
        configVars,
                              FetchSteps, StopSteps, TypeOK
<1>1. CASE Acquire(t)
  <2>1. \A u \in Threads \ {t} : pc'[u] = pc[u] /\ return'[u] = return[u]
    BY <1>1 DEF Acquire
  <2>2. \A u \in Threads : ~Fetching(u)
    BY <1>1 DEF Acquire, Inv, FetchMutex
  <2>3. pc'[t] = "check" /\ fetchLock' = t
    BY <1>1 DEF Acquire
  <2>4. Together /\ (~stopped => Matches)
    BY <1>1 DEF Acquire, Inv, ApplyInv, ListenerInv
  <2>5. FetchMutex'
    BY <2>1, <2>2, <2>3 DEF FetchMutex, Fetching
  <2>6. ApplyInv'
    BY <1>1, <2>1, <2>2, <2>3, <2>4
    DEF Acquire, Inv, ApplyInv, Settled, Together, Fetching
  <2>7. ListenerInv'
    BY <1>1, <2>1, <2>2, <2>3, <2>4 DEF Acquire, Inv, ListenerInv, Matches, Fetching
  <2> QED  BY <2>5, <2>6, <2>7 DEF Inv
<1>2. CASE ~Acquire(t)
  <2>1. Fetching(t) /\ Together
    BY <1>2 DEF Check, RequestFails, KeepListener, StartListener, StopListener, AwaitReader, Join,
       Release,
                Fetching, Settled, Inv, ApplyInv
  <2>2. UNCHANGED <<fetchLock, fetchVars, configVars, stopped>>
    BY <1>2 DEF Check, RequestFails, KeepListener, StartListener, StopListener, AwaitReader, Join,
       Release
  <2>3. \A u \in Threads \ {t} : Fetching(u)' => Fetching(u)
    BY <1>2 DEF Check, RequestFails, KeepListener, StartListener, StopListener,
       StopReader,
                AwaitReader, Join, Release, Fetching
  <2>4. FetchMutex' /\ fetchLock' = t
    BY <2>1, <2>2, <2>3, InsideKeepsMutex
  <2>5. \A u \in Threads \ {t} : ~Settled(u)' /\ pc'[u] \notin FetchSteps /\ ~Fetching(u)'
    BY <2>1, <2>2, <2>3, InsideKeepsMutex
  <2>6. /\ pc'[t] \notin {"experiments", "groups", "flags"}
    BY <1>2 DEF Check, RequestFails, KeepListener, StartListener, StopListener,
       StopReader,
                AwaitReader, Join, Release
  <2>7. ApplyInv'
    BY <2>1, <2>2, <2>4, <2>5, <2>6 DEF Inv, ApplyInv, Together
  <2>8. ListenerInv'
    <3>1. CASE Check(t) \/ RequestFails(t)
      BY <2>2, <2>4, <2>5, <3>1 DEF Check, RequestFails, Inv, ListenerInv, Matches,
         Fetching
    <3>2. CASE KeepListener(t)
      BY <2>2, <2>4, <2>5, <3>2 DEF KeepListener, Inv, ListenerInv, Matches, Fetching
    <3>3. CASE StartListener(t)
      <4>1. \A u \in Threads \ {t} :
              pc'[u] \in StopSteps => pc'[u] = pc[u] /\ return'[u] = return[u]
        BY <3>3 DEF StartListener
      <4>2. pc'[t] = "unlock" /\ Matches'
        BY <3>3 DEF StartListener, Matches
      <4> QED
        BY <2>2, <2>4, <2>5, <3>3, <4>1, <4>2 DEF Inv, ListenerInv, Fetching
    <3>4. CASE StopListener(t)
      <4>1. \A u \in Threads \ {t} : pc'[u] = pc[u] /\ return'[u] = return[u]
        BY <3>4 DEF StopListener, StopReader
      <4>2. pc'[t] \in StopSteps /\ return'[t] = "unlock" /\ experiments \notin PushOn
        BY <3>4 DEF StopListener, StopReader
      <4> QED
        BY <2>2, <2>4, <2>5, <4>1, <4>2 DEF Inv, ListenerInv, Fetching
    <3>5. CASE (AwaitReader(t) \/ Join(t)) /\ return[t] = "unlock"
      BY <2>2, <2>4, <2>5, <3>5 DEF AwaitReader, Join, Inv, ListenerInv, Fetching
    <3>6. CASE Release(t) /\ return[t] = "unlock"
      <4>1. \A u \in Threads \ {t} : pc'[u] = pc[u] /\ return'[u] = return[u]
        BY <3>6 DEF Release
      <4>2. pc'[t] = "unlock" /\ Matches'
        BY <3>6 DEF Release, Matches, Inv, ListenerInv
      <4> QED
        BY <2>2, <2>4, <2>5, <4>1, <4>2 DEF Inv, ListenerInv, Fetching
    <3> QED  BY <1>2, <3>1, <3>2, <3>3, <3>4, <3>5, <3>6
  <2> QED  BY <2>4, <2>7, <2>8 DEF Inv
<1> QED  BY <1>1, <1>2

\* The steps that receive a configuration and apply it.
LEMMA ApplySteps ==
  ASSUME TypeOK, Inv, NEW t \in Threads,
         \/ \E c \in Configs : Receive(t, c)
         \/ SetExperiments(t) \/ SetTargetGroups(t) \/ SetFlags(t)
  PROVE  Inv'
<1> USE RoxCoreAssumption DEF Goto, Threads, coreVars, listenerVars, fetchVars,
                              FetchSteps, StopSteps, TypeOK
<1>1. Fetching(t)
  BY DEF Receive, SetExperiments, SetTargetGroups, SetFlags, Fetching
<1>2. UNCHANGED <<fetchLock, stopped, listener, return>>
  BY DEF Receive, SetExperiments, SetTargetGroups, SetFlags
<1>3. \A u \in Threads \ {t} : pc'[u] = pc[u] /\ return'[u] = return[u]
  BY DEF Receive, SetExperiments, SetTargetGroups, SetFlags
<1>4. \A u \in Threads \ {t} : Fetching(u)' => Fetching(u)
  BY <1>3 DEF Fetching
<1>5. FetchMutex' /\ fetchLock' = t
  BY <1>1, <1>2, <1>4, InsideKeepsMutex
<1>6. \A u \in Threads \ {t} : ~Settled(u)' /\ pc'[u] \notin FetchSteps /\ ~Fetching(u)'
  BY <1>1, <1>2, <1>4, InsideKeepsMutex
<1>7. ApplyInv'
  <2>1. ASSUME NEW c \in Configs, Receive(t, c)
        PROVE  ApplyInv'
    <3>1. Together  BY <2>1 DEF Receive, Inv, ApplyInv, Settled
    <3>2. CASE c \in Valid
      BY <2>1, <3>1, <3>2, <1>5, <1>6
      DEF Receive, Inv, ApplyInv, Settled, Together
    <3>3. CASE c \notin Valid
      BY <2>1, <3>1, <3>3, <1>5, <1>6
      DEF Receive, Inv, ApplyInv, Settled, Together
    <3> QED  BY <3>2, <3>3
  <2>2. CASE SetExperiments(t)
    BY <2>2, <1>5, <1>6 DEF SetExperiments, Inv, ApplyInv, Settled, Together
  <2>3. CASE SetTargetGroups(t)
    BY <2>3, <1>5, <1>6 DEF SetTargetGroups, Inv, ApplyInv, Settled, Together
  <2>4. CASE SetFlags(t)
    BY <2>4, <1>5, <1>6 DEF SetFlags, Inv, ApplyInv, Settled, Together
  <2> QED  BY <2>1, <2>2, <2>3, <2>4
<1>8. ListenerInv'
  <2>1. pc'[t] \in {"experiments", "unlock"} => pc[t] = "request" /\ UNCHANGED experiments
    BY DEF Receive, SetExperiments, SetTargetGroups, SetFlags
  <2>2. pc'[t] \in {"experiments", "unlock", "groups", "flags", "notify"}
    BY DEF Receive, SetExperiments, SetTargetGroups, SetFlags
  <2> QED
    BY <1>2, <1>3, <1>5, <1>6, <2>1, <2>2 DEF Inv, ListenerInv, Matches, Fetching
<1> QED  BY <1>5, <1>7, <1>8 DEF Inv

\* The end of the section.
LEMMA UnlockStep ==
  ASSUME TypeOK, Inv, NEW t \in Threads, Unlock(t)
  PROVE  Inv'
<1> USE RoxCoreAssumption DEF Goto, Threads, listenerVars, FetchSteps, StopSteps, TypeOK
<1>1. Fetching(t) /\ Together /\ (~stopped => Matches)
  BY DEF Unlock, Fetching, Settled, Inv, ApplyInv, ListenerInv
<1>2. UNCHANGED <<configVars, stopped, listener, return>> /\ fetchLock' = NoThread
  BY DEF Unlock
<1>3. /\ pc'[t] \notin FetchSteps \cup StopSteps
      /\ \A u \in Threads : pc'[u] \in FetchSteps \cup StopSteps => pc'[u] = pc[u] /\ u # t
  BY DEF Unlock, Caller
<1>4. \A u \in Threads : ~Fetching(u)'
  BY <1>1, <1>2, <1>3, Alone DEF Fetching
<1>5. FetchMutex'  BY <1>4 DEF FetchMutex
<1>6. ApplyInv'
  BY <1>1, <1>2, <1>4 DEF Inv, ApplyInv, Together, Settled, Fetching, configVars
<1>7. ListenerInv'
  BY <1>1, <1>2, <1>3, <1>4 DEF Inv, ListenerInv, Matches, Fetching, configVars
<1> QED  BY <1>5, <1>6, <1>7 DEF Inv

-----------------------------------------------------------------------------
\* Inv is an invariant: it holds initially and every step keeps it.
THEOREM InvariantHolds == Spec => []Inv
<1>1. Init => Inv
  BY RoxCoreAssumption DEF Init, Inv, FetchMutex, ApplyInv, ListenerInv, Fetching,
     Settled, Together,
         Matches, FetchSteps, StopSteps, Threads
<1>2. TypeOK /\ Inv /\ [Next]_vars => Inv'
  <2> SUFFICES ASSUME TypeOK, Inv, [Next]_vars
               PROVE  Inv'
    OBVIOUS
  <2>1. CASE Outside  BY <2>1, OutsideKeepsInv
  <2>2. ASSUME NEW a \in Apps, Application(a)
        PROVE  Inv'
    BY <2>1, <2>2, QuietSteps, ShutdownSteps DEF Application
  <2>3. ASSUME NEW r \in Readers, Reader(r)
        PROVE  Inv'
    BY <2>1, <2>3, QuietSteps
  <2>4. CASE PeriodElapses \/ PeriodicWoken \/ PeriodicCancelled
    BY <2>1, <2>4, QuietSteps
  <2>5. ASSUME NEW t \in Threads, Fetch(t)
        PROVE  Inv'
    <3>1. CASE AwaitReader(t) \/ Join(t) \/ Release(t)
      <4>1. CASE return[t] = "free"  BY <2>1, <3>1, <4>1, ShutdownSteps
      <4>2. CASE return[t] = "unlock"  BY <3>1, <4>2, PlainFetchSteps
      <4> QED  BY <4>1, <4>2 DEF TypeOK
    <3>2. CASE Unlock(t)  BY <3>2, UnlockStep
    <3>3. CASE ~AwaitReader(t) /\ ~Join(t) /\ ~Release(t) /\ ~Unlock(t)
      BY <2>5, <3>3, PlainFetchSteps, ApplySteps DEF Fetch
    <3> QED  BY <3>1, <3>2, <3>3
  <2>6. CASE UNCHANGED vars
    BY <2>6 DEF vars, fetchVars, configVars, listenerVars, coreVars, Inv, FetchMutex,
                ApplyInv, ListenerInv, Fetching, Settled, Together, Matches
  <2> QED  BY <2>2, <2>3, <2>4, <2>5, <2>6 DEF Next
<1> QED
  BY <1>1, <1>2, TypeCorrect, PTL DEF Spec

\* rox_core_fetch's locked section never holds two threads.
THEOREM MutualExclusion == Spec => []FetchMutex
<1>1. Inv => FetchMutex  BY DEF Inv
<1> QED  BY <1>1, InvariantHolds, PTL

\* Between fetches one verified configuration is applied everywhere.
THEOREM NeverHalfApplied == Spec => []AppliedTogether
<1>1. Inv => AppliedTogether
  BY DEF Inv, ApplyInv, AppliedTogether, Together
<1> QED  BY <1>1, InvariantHolds, PTL

\* has_changes = false is only reported for the configuration in force.
THEOREM HonestHasChanges == Spec => []NoChangesMeansSame
<1>1. Inv => NoChangesMeansSame
  BY DEF Inv, ApplyInv, NoChangesMeansSame
<1> QED  BY <1>1, InvariantHolds, PTL

\* Between fetches there is a listener exactly when the flag asks for one.
THEOREM ListenerFollowsFlag == Spec => []ListenerMatchesFlag
<1>1. Inv => ListenerMatchesFlag
  BY DEF Inv, ListenerInv, ListenerMatchesFlag, Matches
<1> QED  BY <1>1, InvariantHolds, PTL

\* RoxCore implements ConfigStream: the flags only ever move to the latest
\* received configuration, and only when it verifies.
THEOREM Refinement == Spec => ImplementsStream
<1>1. Init => Stream!Init
  BY DEF Init, Stream!Init
<1>2. TypeOK /\ Inv /\ [Next]_vars => [Stream!Next]_<<lastConfig, flags>>
  <2> SUFFICES ASSUME TypeOK, Inv, [Next]_vars
               PROVE  [Stream!Next]_<<lastConfig, flags>>
    OBVIOUS
  <2> USE DEF configVars
  <2>1. CASE Outside  BY <2>1 DEF Outside
  <2>2. ASSUME NEW a \in Apps, Application(a)
        PROVE  UNCHANGED <<lastConfig, flags>>
    BY <2>1, <2>2, QuietSteps, ShutdownSteps DEF Application, Outside
  <2>3. ASSUME NEW r \in Readers, Reader(r)
        PROVE  UNCHANGED <<lastConfig, flags>>
    BY <2>3, QuietSteps DEF Outside
  <2>4. CASE PeriodElapses \/ PeriodicWoken \/ PeriodicCancelled
    BY <2>4, QuietSteps DEF Outside
  <2>5. ASSUME NEW t \in Threads, Fetch(t)
        PROVE  [Stream!Next]_<<lastConfig, flags>>
    <3>1. ASSUME NEW c \in Configs, Receive(t, c)
          PROVE  Stream!Receive(c)
      BY <3>1 DEF Receive, Stream!Receive
    <3>2. CASE SetFlags(t)
      BY <3>2 DEF SetFlags, Inv, ApplyInv, Stream!Apply, Stream!Next
    <3>3. CASE ~SetFlags(t) /\ ~\E c \in Configs : Receive(t, c)
      BY <2>5, <3>3 DEF Fetch, Acquire, Check, RequestFails, SetExperiments,
         SetTargetGroups,
                        StartListener, KeepListener, StopListener, AwaitReader, Join,
                        Release, Unlock
    <3> QED  BY <3>1, <3>2, <3>3 DEF Stream!Next
  <2>6. CASE UNCHANGED vars  BY <2>6 DEF vars
  <2> QED  BY <2>2, <2>3, <2>4, <2>5, <2>6 DEF Next
<1> QED
  BY <1>1, <1>2, TypeCorrect, InvariantHolds, PTL DEF Spec, ImplementsStream, Stream!Spec

-----------------------------------------------------------------------------
\* A reader whose end whoever stops it still waits for.
Awaited(r) == Alive(r) /\ r \notin quit \cup overtaken /\ pc[r] # "exit"

\* The thread of rox_shutdown.
Ending(t) == pc[t] \in FreeSteps \/ (pc[t] \in StopSteps /\ return[t] = "free")

\* A reader to be waited for is the listener's, its memory is there and it is
\* known to be running; the listener of a running core has one.
ReaderInv ==
  /\ \A r \in Readers : pc[r] \notin {"idle", "sleep"}
  /\ \A r \in Readers : Awaited(r) => r = listener /\ reading[r]
  /\ listener # NoReader => listener \in allocated
  /\ ~stopped /\ listener # NoReader /\ (\A t \in Threads : pc[t] \notin StopSteps) =>
       \/ listener \in quit
       \/ /\ Alive(listener) /\ pc[listener] \notin {"detach", "exit"}
          /\ ~readerStopped[listener]

\* Whoever stops a reader stops the listener's, and has waited for it when it
\* releases it, unless a shutdown and a fetch run into each other.
StopInv ==
  \A t \in Threads : pc[t] \in StopSteps =>
    /\ victim[t] \in Readers
    /\ victim[t] = t => t \in quit
    /\ \/ victim[t] = listener
       \/ t \in overtaken /\ listener \in overtaken \cup {NoReader}
    /\ pc[t] = "release" => ~Awaited(victim[t])

\* Once the core is stopped, whoever uses what rox_core_free frees is one of
\* the threads that the shutdown ran into.
EndInv ==
  /\ stopped <=> phase \in {"down", "gone"}
  /\ ~stopped => overtaken = {} /\ ~freed /\ ~taskStopped
  /\ \A t \in Threads : Ending(t) => t \in Apps /\ phase = "down"
  /\ \A a, b \in Apps : Ending(a) /\ Ending(b) => a = b
  /\ \A t \in Threads : stopped /\ PastStopTest(t) => t \in overtaken
  /\ \A a \in Apps, t \in Threads : Ending(a) /\ PastStopTest(t) => a \in overtaken
  /\ \A b \in Apps : stopped /\ pc[b] # "idle" /\ ~Ending(b) => b \in overtaken
  /\ phase = "gone" => pc[Periodic] \in {"none", "dead"}
  /\ phase = "gone" \/ (\E a \in Apps : pc[a] \in FreeSteps) =>
       listener \in overtaken \cup {NoReader}

MemInv == ReaderInv /\ StopInv /\ EndInv

-----------------------------------------------------------------------------

\* Whoever is to be waited for is the listener's reader.
LEMMA ReaderKept ==
  ASSUME TypeOK, Inv, MemInv, [Next]_vars
  PROVE  ReaderInv'
<1> USE RoxCoreAssumption
    DEF TypeOK, Inv, MemInv, ReaderInv, StopInv, EndInv, Alive, Awaited, Ending, Goto, Caller,
        Threads, FetchSteps, StopSteps, FreeSteps, SeesStopped, SeesRunning, PastStopTest,
        FetchMutex, Fetching, fetchVars, configVars, listenerVars, coreVars
<1>1. ASSUME NEW a \in Apps, Setup(a)
      PROVE  ReaderInv'
  BY <1>1 DEF Setup
<1>2. ASSUME NEW a \in Apps, CallFetch(a)
      PROVE  ReaderInv'
  BY <1>2 DEF CallFetch
<1>3. ASSUME NEW a \in Apps, CoreFree(a)
      PROVE  ReaderInv'
  BY <1>3 DEF CoreFree, FreeComponents, StopTask, JoinTask
<1>4. ASSUME NEW a \in Apps, Shutdown(a)
      PROVE  ReaderInv'
  BY <1>4 DEF Shutdown, StopReader, Overtakes
<1>5. ASSUME NEW t \in Threads, Acquire(t) \/ Check(t) \/ RequestFails(t)
      PROVE  ReaderInv'
  BY <1>5 DEF Acquire, Check, RequestFails
<1>6. ASSUME NEW t \in Threads, NEW c \in Configs, Receive(t, c)
      PROVE  ReaderInv'
  BY <1>6 DEF Receive
<1>7. ASSUME NEW t \in Threads, SetExperiments(t) \/ SetTargetGroups(t) \/ SetFlags(t)
      PROVE  ReaderInv'
  BY <1>7 DEF SetExperiments, SetTargetGroups, SetFlags
<1>8. ASSUME NEW t \in Threads, StartListener(t)
      PROVE  ReaderInv'
  BY <1>8 DEF StartListener
<1>9. ASSUME NEW t \in Threads, KeepListener(t)
      PROVE  ReaderInv'
  BY <1>9 DEF KeepListener
<1>10. ASSUME NEW t \in Threads, StopListener(t)
      PROVE  ReaderInv'
  BY <1>10 DEF StopListener, StopReader
<1>11. ASSUME NEW t \in Threads, AwaitReader(t)
      PROVE  ReaderInv'
  BY <1>11 DEF AwaitReader, JoinFails
<1>12. ASSUME NEW t \in Threads, Join(t)
      PROVE  ReaderInv'
  BY <1>12 DEF Join
<1>13. ASSUME NEW t \in Threads, Release(t)
      PROVE  ReaderInv'
  BY <1>13 DEF Release
<1>14. ASSUME NEW t \in Threads, Unlock(t)
      PROVE  ReaderInv'
  BY <1>14 DEF Unlock
<1>15. ASSUME NEW r \in Readers, Connect(r) \/ PushAborted(r) \/ Disconnect(r)
      PROVE  ReaderInv'
  BY <1>15 DEF Connect, PushAborted, Disconnect
<1>16. ASSUME NEW r \in Readers, PushChanged(r) \/ PushChangedAgain(r) \/ ChunkDone(r)
      PROVE  ReaderInv'
  BY <1>16 DEF PushChanged, PushChangedAgain, ChunkDone
<1>17. ASSUME NEW r \in Readers, PlainResponse(r)
      PROVE  ReaderInv'
  BY <1>17 DEF PlainResponse
<1>18. ASSUME NEW r \in Readers, Reconnect(r) \/ ReaderWoken(r)
      PROVE  ReaderInv'
  BY <1>18 DEF Reconnect, ReaderWoken
<1>19. ASSUME NEW r \in Readers, Detach(r)
      PROVE  ReaderInv'
  BY <1>19 DEF Detach
<1>20. ASSUME NEW r \in Readers, Exit(r)
      PROVE  ReaderInv'
  BY <1>20 DEF Exit
<1>21. CASE PeriodElapses \/ PeriodicWoken \/ PeriodicCancelled
  BY <1>21 DEF PeriodElapses, PeriodicWoken, PeriodicCancelled
<1>22. CASE UNCHANGED vars
  BY <1>22 DEF vars
<1> QED
  BY <1>1, <1>2, <1>3, <1>4, <1>5, <1>6, <1>7, <1>8, <1>9, <1>10, <1>11, <1>12, <1>13, <1>14, <1>15, <1>16, <1>17, <1>18, <1>19, <1>20, <1>21, <1>22
     DEF Next, Application, Fetch, Reader

\* Whoever stops a reader knows which.
LEMMA StopKept ==
  ASSUME TypeOK, Inv, MemInv, [Next]_vars
  PROVE  StopInv'
<1> USE RoxCoreAssumption
    DEF TypeOK, Inv, MemInv, ReaderInv, StopInv, EndInv, Alive, Awaited, Ending, Goto, Caller,
        Threads, FetchSteps, StopSteps, FreeSteps, SeesStopped, SeesRunning, PastStopTest,
        FetchMutex, Fetching, fetchVars, configVars, listenerVars, coreVars
<1>1. ASSUME NEW a \in Apps, Setup(a)
      PROVE  StopInv'
  BY <1>1 DEF Setup
<1>2. ASSUME NEW a \in Apps, CallFetch(a)
      PROVE  StopInv'
  BY <1>2 DEF CallFetch
<1>3. ASSUME NEW a \in Apps, CoreFree(a)
      PROVE  StopInv'
  BY <1>3 DEF CoreFree, FreeComponents, StopTask, JoinTask
<1>4. ASSUME NEW a \in Apps, Shutdown(a)
      PROVE  StopInv'
  BY <1>4 DEF Shutdown, StopReader, Overtakes
<1>5. ASSUME NEW t \in Threads, Acquire(t) \/ Check(t) \/ RequestFails(t)
      PROVE  StopInv'
  BY <1>5 DEF Acquire, Check, RequestFails
<1>6. ASSUME NEW t \in Threads, NEW c \in Configs, Receive(t, c)
      PROVE  StopInv'
  BY <1>6 DEF Receive
<1>7. ASSUME NEW t \in Threads, SetExperiments(t) \/ SetTargetGroups(t) \/ SetFlags(t)
      PROVE  StopInv'
  BY <1>7 DEF SetExperiments, SetTargetGroups, SetFlags
<1>8. ASSUME NEW t \in Threads, StartListener(t)
      PROVE  StopInv'
  BY <1>8 DEF StartListener
<1>9. ASSUME NEW t \in Threads, KeepListener(t)
      PROVE  StopInv'
  BY <1>9 DEF KeepListener
<1>10. ASSUME NEW t \in Threads, StopListener(t)
      PROVE  StopInv'
  BY <1>10 DEF StopListener, StopReader
<1>11. ASSUME NEW t \in Threads, AwaitReader(t)
      PROVE  StopInv'
  BY <1>11 DEF AwaitReader, JoinFails
<1>12. ASSUME NEW t \in Threads, Join(t)
      PROVE  StopInv'
  BY <1>12 DEF Join
<1>13. ASSUME NEW t \in Threads, Release(t)
      PROVE  StopInv'
  BY <1>13 DEF Release
<1>14. ASSUME NEW t \in Threads, Unlock(t)
      PROVE  StopInv'
  BY <1>14 DEF Unlock
<1>15. ASSUME NEW r \in Readers, Connect(r) \/ PushAborted(r) \/ Disconnect(r)
      PROVE  StopInv'
  BY <1>15 DEF Connect, PushAborted, Disconnect
<1>16. ASSUME NEW r \in Readers, PushChanged(r) \/ PushChangedAgain(r) \/ ChunkDone(r)
      PROVE  StopInv'
  BY <1>16 DEF PushChanged, PushChangedAgain, ChunkDone
<1>17. ASSUME NEW r \in Readers, PlainResponse(r)
      PROVE  StopInv'
  BY <1>17 DEF PlainResponse
<1>18. ASSUME NEW r \in Readers, Reconnect(r) \/ ReaderWoken(r)
      PROVE  StopInv'
  BY <1>18 DEF Reconnect, ReaderWoken
<1>19. ASSUME NEW r \in Readers, Detach(r)
      PROVE  StopInv'
  BY <1>19 DEF Detach
<1>20. ASSUME NEW r \in Readers, Exit(r)
      PROVE  StopInv'
  BY <1>20 DEF Exit
<1>21. CASE PeriodElapses \/ PeriodicWoken \/ PeriodicCancelled
  BY <1>21 DEF PeriodElapses, PeriodicWoken, PeriodicCancelled
<1>22. CASE UNCHANGED vars
  BY <1>22 DEF vars
<1> QED
  BY <1>1, <1>2, <1>3, <1>4, <1>5, <1>6, <1>7, <1>8, <1>9, <1>10, <1>11, <1>12, <1>13, <1>14, <1>15, <1>16, <1>17, <1>18, <1>19, <1>20, <1>21, <1>22
     DEF Next, Application, Fetch, Reader

\* Whoever uses what is freed was run into.
LEMMA EndKept ==
  ASSUME TypeOK, Inv, MemInv, [Next]_vars
  PROVE  EndInv'
<1> USE RoxCoreAssumption
    DEF TypeOK, Inv, MemInv, ReaderInv, StopInv, EndInv, Alive, Awaited, Ending, Goto, Caller,
        Threads, FetchSteps, StopSteps, FreeSteps, SeesStopped, SeesRunning, PastStopTest,
        FetchMutex, Fetching, fetchVars, configVars, listenerVars, coreVars
<1>1. ASSUME NEW a \in Apps, Setup(a)
      PROVE  EndInv'
  BY <1>1 DEF Setup
<1>2. ASSUME NEW a \in Apps, CallFetch(a)
      PROVE  EndInv'
  BY <1>2 DEF CallFetch
<1>3. ASSUME NEW a \in Apps, CoreFree(a)
      PROVE  EndInv'
  BY <1>3 DEF CoreFree, FreeComponents, StopTask, JoinTask
<1>4. ASSUME NEW a \in Apps, Shutdown(a)
      PROVE  EndInv'
  BY <1>4 DEF Shutdown, StopReader, Overtakes
<1>5. ASSUME NEW t \in Threads, Acquire(t) \/ Check(t) \/ RequestFails(t)
      PROVE  EndInv'
  BY <1>5 DEF Acquire, Check, RequestFails
<1>6. ASSUME NEW t \in Threads, NEW c \in Configs, Receive(t, c)
      PROVE  EndInv'
  BY <1>6 DEF Receive
<1>7. ASSUME NEW t \in Threads, SetExperiments(t) \/ SetTargetGroups(t) \/ SetFlags(t)
      PROVE  EndInv'
  BY <1>7 DEF SetExperiments, SetTargetGroups, SetFlags
<1>8. ASSUME NEW t \in Threads, StartListener(t)
      PROVE  EndInv'
  BY <1>8 DEF StartListener
<1>9. ASSUME NEW t \in Threads, KeepListener(t)
      PROVE  EndInv'
  BY <1>9 DEF KeepListener
<1>10. ASSUME NEW t \in Threads, StopListener(t)
      PROVE  EndInv'
  BY <1>10 DEF StopListener, StopReader
<1>11. ASSUME NEW t \in Threads, AwaitReader(t)
      PROVE  EndInv'
  BY <1>11 DEF AwaitReader, JoinFails
<1>12. ASSUME NEW t \in Threads, Join(t)
      PROVE  EndInv'
  BY <1>12 DEF Join
<1>13. ASSUME NEW t \in Threads, Release(t)
      PROVE  EndInv'
  BY <1>13 DEF Release
<1>14. ASSUME NEW t \in Threads, Unlock(t)
      PROVE  EndInv'
  BY <1>14 DEF Unlock
<1>15. ASSUME NEW r \in Readers, Connect(r) \/ PushAborted(r) \/ Disconnect(r)
      PROVE  EndInv'
  BY <1>15 DEF Connect, PushAborted, Disconnect
<1>16. ASSUME NEW r \in Readers, PushChanged(r) \/ PushChangedAgain(r) \/ ChunkDone(r)
      PROVE  EndInv'
  BY <1>16 DEF PushChanged, PushChangedAgain, ChunkDone
<1>17. ASSUME NEW r \in Readers, PlainResponse(r)
      PROVE  EndInv'
  BY <1>17 DEF PlainResponse
<1>18. ASSUME NEW r \in Readers, Reconnect(r) \/ ReaderWoken(r)
      PROVE  EndInv'
  BY <1>18 DEF Reconnect, ReaderWoken
<1>19. ASSUME NEW r \in Readers, Detach(r)
      PROVE  EndInv'
  BY <1>19 DEF Detach
<1>20. ASSUME NEW r \in Readers, Exit(r)
      PROVE  EndInv'
  BY <1>20 DEF Exit
<1>21. CASE PeriodElapses \/ PeriodicWoken \/ PeriodicCancelled
  BY <1>21 DEF PeriodElapses, PeriodicWoken, PeriodicCancelled
<1>22. CASE UNCHANGED vars
  BY <1>22 DEF vars
<1> QED
  BY <1>1, <1>2, <1>3, <1>4, <1>5, <1>6, <1>7, <1>8, <1>9, <1>10, <1>11, <1>12, <1>13, <1>14, <1>15, <1>16, <1>17, <1>18, <1>19, <1>20, <1>21, <1>22
     DEF Next, Application, Fetch, Reader

\* The memory invariant: which readers are still to be waited for, who stops
\* one, and whom a shutdown ran into.
THEOREM MemoryInvariant == Spec => []MemInv
<1>1. Init => MemInv
  BY RoxCoreAssumption
     DEF Init, MemInv, ReaderInv, StopInv, EndInv, Alive, Awaited, Ending, StopSteps, FreeSteps,
         PastStopTest, Threads
<1>2. TypeOK /\ Inv /\ MemInv /\ [Next]_vars => MemInv'
  BY ReaderKept, StopKept, EndKept DEF MemInv
<1> QED  BY <1>1, <1>2, TypeCorrect, InvariantHolds, PTL DEF Spec

\* Freed memory is used only by a fetch that rox_core_free ran into, by an
\* application's call that rox_shutdown overlaps, by a reader that stopped
\* itself, and by the last store of a reader that has detached itself.
THEOREM FreedIsUsedOnlyThere == Spec => []NoUseAfterFree
<1>1. TypeOK /\ MemInv => NoUseAfterFree
  <2> SUFFICES ASSUME TypeOK, MemInv, NEW t \in Threads, UsesFreed(t),
                      t \notin overtaken \cup quit, ~(t \in Readers /\ pc[t] = "exit")
               PROVE  FALSE
    BY DEF NoUseAfterFree
  <2> USE RoxCoreAssumption DEF TypeOK, MemInv, EndInv, Threads
  <2>1. ~UsesComponent(t)
    BY DEF UsesComponent
  <2>2. ~(t \in Readers /\ t \notin allocated /\ Alive(t))
    BY DEF ReaderInv, Awaited
  <2>3. ~(pc[t] \in StopSteps /\ victim[t] \notin allocated)
    BY DEF ReaderInv, StopInv
  <2>4. ~UsesCore(t)
    <3> SUFFICES ASSUME phase = "gone", pc[t] \in FetchSteps \cup StopSteps \cup {"lock"}
                 PROVE  FALSE
      BY DEF UsesCore
    <3>1. CASE t \in Apps
      BY <3>1 DEF FetchSteps, StopSteps
    <3>2. CASE t = Periodic
      BY <3>2 DEF FetchSteps, StopSteps
    <3>3. CASE t \in Readers
      <4>1. Awaited(t)
        BY <3>3 DEF Awaited, Alive, FetchSteps, StopSteps
      <4> QED  BY <3>3, <4>1 DEF ReaderInv
    <3> QED  BY <3>1, <3>2, <3>3
  <2> QED  BY <2>1, <2>2, <2>3, <2>4 DEF UsesFreed, UsesReader
<1> QED  BY <1>1, TypeCorrect, MemoryInvariant, PTL

\* Between fetches the reader of a listener is connected or about to
\* reconnect, or has ended without having been told to.
THEOREM PushStaysOpen == Spec => []PushChannelOpen
<1>1. TypeOK /\ Inv /\ MemInv => PushChannelOpen
  <2> SUFFICES ASSUME TypeOK, Inv, MemInv,
                      fetchLock = NoThread, ~stopped, listener # NoReader,
                      listener \notin quit
               PROVE  pc[listener] \in {"lock", "connect", "stream", "chunk", "backoff"}
    BY DEF PushChannelOpen
  <2>1. listener \in Readers /\ listener \in Threads /\ pc[listener] \in Locations
    BY DEF TypeOK, Threads
  <2>2. \A t \in Threads : pc[t] \notin FetchSteps \cup StopSteps \cup FreeSteps
    BY RoxCoreAssumption
       DEF TypeOK, Inv, FetchMutex, Fetching, MemInv, EndInv, Ending
  <2>3. pc[listener] \notin {"none", "dead", "idle", "sleep", "detach", "exit"}
    BY <2>1, <2>2 DEF MemInv, ReaderInv, Alive
  <2> QED  BY <2>1, <2>2, <2>3 DEF Locations, ReaderSteps
<1> QED  BY <1>1, TypeCorrect, InvariantHolds, MemoryInvariant, PTL
=============================================================================
