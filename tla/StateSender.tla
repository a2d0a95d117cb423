----------------------------- MODULE StateSender ------------------------------
(***************************************************************************)
(* Reporting the application's flags and custom properties: every addition *)
(* invokes the debouncer, whose thread waits for the interval, takes a     *)
(* snapshot of both repositories and reports it: the CDN is asked for the  *)
(* path the snapshot's MD5 names, and if it has none the API is sent the   *)
(* snapshot.  The model follows what an addition is worth: is it in a      *)
(* snapshot yet, and do the servers know of it?                            *)
(***************************************************************************)
EXTENDS FiniteSets, Naturals

CONSTANTS
  Apps,             \* application threads
  Workers,          \* debouncer threads
  Contents,         \* what each repository may hold, by its kind
  Size,             \* how long the JSON text of each is
  Start,            \* and how that text begins, up to the size of the buffer
  BufferSize,       \* ROX_JSON_PRINT_BUFFER_SIZE
  Nothing,          \* in no repository
  SpuriousWakeups   \* may pthread_cond_timedwait return 0 unsignalled?

Kinds == {"flag", "property"}
AnyContents == UNION {Contents[k] : k \in Kinds}

ASSUME StateSenderAssumption ==
  /\ Apps \cap Workers = {}
  /\ SpuriousWakeups \in BOOLEAN
  /\ Size \in [AnyContents -> Nat] /\ BufferSize \in Nat
  /\ Nothing \notin AnyContents \cup {Start[c] : c \in AnyContents}
  /\ \A c \in AnyContents : Start[c] \notin AnyContents   \* a part is no whole

Repositories == {h \in [Kinds -> AnyContents] : \A k \in Kinds : h[k] \in Contents[k]}

\* What rox_json_print leaves in its buffer: the whole text, which stands for
\* what it was printed from (it does not depend on the order of additions, since
\* the names are sorted), or the part of it that fits, as the result of
\* cJSON_PrintPreallocated is not looked at.
Whole(c) == Size[c] < BufferSize
Printed(c) == IF Whole(c) THEN c ELSE Start[c]
Texts == {Printed(c) : c \in AnyContents}
Document(h) == [k \in Kinds |-> Printed(h[k])]
Documents == {Document(h) : h \in Repositories}
Unread == [k \in Kinds |-> Nothing]
Nobody == "nobody"

VARIABLES
  pc,        \* where each thread is
  adding,    \* what each application thread adds: a kind, or "nothing"
  phase,     \* "new", "up", "down" (in debouncer_free), "gone"
  started,   \* debouncer->thread_started
  handle,    \* debouncer->thread
  stopped,   \* debouncer->stopped
  holds,     \* what each repository holds
  dirty,     \* kinds with an addition that no snapshot holds
  missed,    \* those of them whose invoke came too late for the last snapshot
  outrun,    \* history: a thread ended before thread_started was assigned
  snapshot,  \* the printed properties each debouncer thread sends
  known,     \* what the servers hold under each path
  reported   \* what the last send that ended has reported, if it succeeded

data == <<holds, snapshot, known, reported>>
vars == <<pc, adding, phase, started, handle, stopped, dirty, missed, outrun, data>>

AppSteps    == {"idle", "check", "create", "assign", "free", "join"}
WorkerSteps == {"none", "begin", "wait", "flag", "property", "CDN", "API", "clear", "detach"}

\* Where a debouncer thread has not read the repository of this kind yet.
Before(kind) == {"begin", "wait", "flag"} \cup (IF kind = "property" THEN {"property"} ELSE {})

\* Where it has, or will not, and keeps others from being started.
After(kind)  == WorkerSteps \ (Before(kind) \cup {"none", "detach"})

Goto(t, loc) == pc' = [pc EXCEPT ![t] = loc]

NewDebouncer ==
  started = FALSE /\ handle = Nobody /\ stopped = FALSE

Init ==
  /\ pc = [t \in Apps \cup Workers |-> IF t \in Apps THEN "idle" ELSE "none"]
  /\ adding = [a \in Apps |-> "nothing"]
  /\ phase = "new"
  /\ NewDebouncer
  /\ holds \in Repositories
  /\ dirty = {} /\ missed = {} /\ outrun = FALSE
  /\ snapshot = [w \in Workers |-> Unread]
  /\ known = {}
  /\ reported = Unread

-----------------------------------------------------------------------------
(***************************************************************************)
(* Application threads.                                                    *)
(***************************************************************************)

\* A flag or a custom property enters its repository, perhaps in the place of
\* another of its name.
Enters(kind) ==
  /\ \E c \in Contents[kind] : holds' = [holds EXCEPT ![kind] = c]
  /\ dirty' = dirty \cup {kind}
  /\ UNCHANGED <<snapshot, known, reported>>

\* An addition before rox_setup: nobody handles it yet.
Register(a, kind) ==
  /\ phase = "new"
  /\ Enters(kind)
  /\ UNCHANGED <<pc, adding, phase, started, handle, stopped, missed, outrun>>

\* The handlers of both repositories: state_sender_send_debounce.
Debounce(a) == Goto(a, "check")

\* rox_core_setup ends with state_sender_send_debounce.
Setup(a) ==
  /\ phase = "new"
  /\ phase' = "up"
  /\ Debounce(a)
  /\ UNCHANGED <<adding, started, handle, stopped, dirty, missed, outrun, data>>

\* The repository calls the state sender's handler.
Add(a, kind) ==
  /\ phase = "up"
  /\ pc[a] = "idle"
  /\ Enters(kind)
  /\ adding' = [adding EXCEPT ![a] = kind]
  /\ Debounce(a)
  /\ UNCHANGED <<phase, started, handle, stopped, missed, outrun>>

\* A thread is created whether or not there is one already.
CheckStartedIgnored(a) ==
  /\ pc[a] = "check"
  /\ Goto(a, "create")
  /\ UNCHANGED <<adding, phase, started, handle, stopped, dirty, missed, outrun, data>>

\* debouncer_invoke: with a thread started it leaves the addition to it, also
\* when that thread has read the repository already, or is gone and its end came
\* before thread_started was assigned.
CheckStarted(a) ==
  /\ pc[a] = "check"
  /\ IF started
     THEN /\ Goto(a, "idle")
          /\ adding' = [adding EXCEPT ![a] = "nothing"]
          /\ missed' = missed \cup
               {k \in {adding[a]} \cap dirty : \E w \in Workers : pc[w] \in After(k)}
     ELSE Goto(a, "create") /\ UNCHANGED <<adding, missed>>
  /\ UNCHANGED <<phase, started, handle, stopped, dirty, outrun, data>>

\* pthread_create: the thread runs from here on, thread_started is set later,
\* perhaps when the thread has ended and cleared it: then it stays set.
Create(a) ==
  /\ pc[a] = "create"
  /\ \E w \in Workers :
       /\ pc[w] = "none"
       /\ handle' = w
       /\ pc' = [pc EXCEPT ![a] = "assign", ![w] = "begin"]
  /\ UNCHANGED <<adding, phase, started, stopped, dirty, missed, outrun, data>>

Assign(a) ==
  /\ pc[a] = "assign"
  /\ started' = TRUE
  /\ adding' = [adding EXCEPT ![a] = "nothing"]
  /\ Goto(a, "idle")
  /\ UNCHANGED <<phase, handle, stopped, dirty, missed, outrun, data>>

\* rox_shutdown: debouncer_free.
Free(a) ==
  /\ phase = "up"
  /\ pc[a] = "idle"
  /\ phase' = "down"
  /\ stopped' = TRUE
  /\ Goto(a, "free")
  /\ UNCHANGED <<adding, started, handle, dirty, missed, outrun, data>>

\* The thread is cancelled and not waited for.
FreeNoJoin(a) ==
  /\ pc[a] = "free"
  /\ Goto(a, "idle")
  /\ phase' = "gone"
  /\ UNCHANGED <<adding, started, handle, stopped, dirty, missed, outrun, data>>

\* if (debouncer->thread_started) pthread_cancel, pthread_join.
FreeStarted(a) ==
  /\ pc[a] = "free"
  /\ IF started
     THEN Goto(a, "join") /\ UNCHANGED phase
     ELSE Goto(a, "idle") /\ phase' = "gone"
  /\ UNCHANGED <<adding, started, handle, stopped, dirty, missed, outrun, data>>

\* pthread_join returns, with an error if the thread has detached itself.
Join(a) ==
  /\ pc[a] = "join"
  /\ pc[handle] \in {"none", "detach"}
  /\ phase' = "gone"
  /\ Goto(a, "idle")
  /\ UNCHANGED <<adding, started, handle, stopped, dirty, missed, outrun, data>>

-----------------------------------------------------------------------------
(***************************************************************************)
(* _debouncer_thread_func and state_sender_send.                           *)
(***************************************************************************)
Begin(w) ==
  /\ pc[w] = "begin"
  /\ Goto(w, IF stopped THEN "clear" ELSE "wait")
  /\ UNCHANGED <<adding, phase, started, handle, stopped, dirty, missed, outrun, data>>

\* The wait of three seconds times out.
Elapse(w) ==
  /\ pc[w] = "wait"
  /\ Goto(w, "flag")
  /\ UNCHANGED <<adding, phase, started, handle, stopped, dirty, missed, outrun, data>>

\* A wakeup before its time: the thread ends without a send.
Woken(w) ==
  /\ SpuriousWakeups
  /\ pc[w] = "wait"
  /\ missed' = dirty
  /\ Goto(w, "clear")
  /\ UNCHANGED <<adding, phase, started, handle, stopped, dirty, outrun, data>>

\* _state_sender_prepare_props_from_device_props, one repository at a time.
Snapshot(w, kind, next) ==
  /\ pc[w] = kind
  /\ snapshot' = [snapshot EXCEPT ![w][kind] = Printed(holds[kind])]
  /\ dirty' = dirty \ {kind}
  /\ missed' = missed \ {kind}
  /\ Goto(w, next)
  /\ UNCHANGED <<adding, phase, started, handle, stopped, outrun, holds, known, reported>>

SnapshotFlags(w)      == Snapshot(w, "flag", "property")
SnapshotProperties(w) == Snapshot(w, "property", "CDN")

\* The custom properties are missing from the state's MD5.
StateMd5OfFlags(d) == [k \in {"flag"} |-> d[k]]

\* The MD5 of what _state_sender_get_state_md5 lists, which is every text; that
\* different texts may have one MD5 is left out.
StateMd5(d) == [k \in Kinds |-> d[k]]

\* The application's key and the MD5: the address of both requests.
Path(d) == <<"app key", StateMd5(d)>>

\* What the API is sent there: the properties listed in relevant_api_call_params,
\* raw, in one JSON object that is printed into a buffer of the same size.
TextSize(x) == IF x \in AnyContents THEN Size[x] ELSE BufferSize
BodyFits(d) == TextSize(d["flag"]) + TextSize(d["property"]) < BufferSize
CutOff == [k \in Kinds |-> Nothing]
Body(d) == IF BodyFits(d) THEN d ELSE CutOff
Report(d) == [path |-> Path(d), body |-> Body(d)]

\* The send ends; a failed one is logged and not repeated.
SendEnds(w, ok) ==
  /\ reported' = IF ok THEN snapshot[w] ELSE Unread
  /\ snapshot' = [snapshot EXCEPT ![w] = Unread]
  /\ Goto(w, "clear")
  /\ UNCHANGED <<adding, phase, started, handle, stopped, dirty, missed, outrun, holds>>

\* The CDN has something under this path, or it has not, or not yet (403, 404 or
\* "result": 404), which sends the thread to the API, or the request fails.
CdnReplies(w) ==
  /\ pc[w] = "CDN"
  /\ \/ /\ \E r \in known : r.path = Path(snapshot[w])
        /\ SendEnds(w, TRUE)
        /\ UNCHANGED known
     \/ SendEnds(w, FALSE) /\ UNCHANGED known
     \/ /\ Goto(w, "API")
        /\ UNCHANGED <<adding, phase, started, handle, stopped, dirty, missed, outrun, data>>

\* The API keeps what it is sent.
Keep(d) == known' = {r \in known : r.path # Path(d)} \cup {Report(d)}

\* It may do so although its answer gets lost.
ApiReplies(w) ==
  /\ pc[w] = "API"
  /\ \/ Keep(snapshot[w]) /\ \E ok \in BOOLEAN : SendEnds(w, ok)
     \/ SendEnds(w, FALSE) /\ UNCHANGED known

\* thread_started is left set.
ClearForgotten(w) ==
  /\ pc[w] = "clear"
  /\ Goto(w, "detach")
  /\ UNCHANGED <<adding, phase, started, handle, stopped, dirty, missed, outrun, data>>

\* thread_started = false, which is overwritten if it is still to be assigned.
Clear(w) ==
  /\ pc[w] = "clear"
  /\ started' = FALSE
  /\ outrun' = (outrun \/ \E a \in Apps : pc[a] = "assign")
  /\ Goto(w, "detach")
  /\ UNCHANGED <<adding, phase, handle, stopped, dirty, missed, data>>

Detach(w) ==
  /\ pc[w] = "detach"
  /\ Goto(w, "none")
  /\ UNCHANGED <<adding, phase, started, handle, stopped, dirty, missed, outrun, data>>

\* pthread_cancel takes effect in the timed wait or in a request.
Cancelled(w) ==
  /\ phase = "down"
  /\ w = handle /\ started
  /\ \E a \in Apps : pc[a] = "join"
  /\ pc[w] \in {"wait", "CDN", "API"}
  /\ Goto(w, "none")
  /\ snapshot' = [snapshot EXCEPT ![w] = Unread]
  /\ UNCHANGED <<adding, phase, started, handle, stopped, dirty, missed, outrun, holds, known, reported>>

-----------------------------------------------------------------------------
Application(a) ==
  \/ Setup(a) \/ CheckStarted(a) \/ Create(a) \/ Assign(a)
  \/ Free(a) \/ FreeStarted(a) \/ Join(a)
  \/ \E k \in Kinds : Register(a, k) \/ Add(a, k)

Worker(w) ==
  \/ Begin(w) \/ Elapse(w) \/ Woken(w)
  \/ SnapshotFlags(w) \/ SnapshotProperties(w)
  \/ CdnReplies(w) \/ ApiReplies(w)
  \/ Clear(w) \/ Detach(w) \/ Cancelled(w)

Next == (\E a \in Apps : Application(a)) \/ (\E w \in Workers : Worker(w))

Spec == Init /\ [][Next]_vars

\* A thread that can run does run, the interval passes, and a request ends
\* (curl gets a timeout of 30 seconds).  The application need not do anything
\* but finish the calls it has made.
Fairness ==
  /\ \A a \in Apps : WF_vars(CheckStarted(a) \/ Create(a) \/ Assign(a)
                               \/ FreeStarted(a) \/ Join(a))
  /\ \A w \in Workers : WF_vars(Worker(w))

FairSpec == Spec /\ Fairness

-----------------------------------------------------------------------------
(***************************************************************************)
(* Properties.                                                             *)
(***************************************************************************)
TypeOK ==
  /\ pc \in [Apps \cup Workers -> AppSteps \cup WorkerSteps]
  /\ adding \in [Apps -> Kinds \cup {"nothing"}]
  /\ phase \in {"new", "up", "down", "gone"}
  /\ started \in BOOLEAN /\ stopped \in BOOLEAN /\ outrun \in BOOLEAN
  /\ handle \in Workers \cup {Nobody}
  /\ missed \subseteq dirty /\ dirty \subseteq Kinds
  /\ holds \in Repositories
  /\ snapshot \in [Workers -> [Kinds -> Texts \cup {Nothing}]]
  /\ known \subseteq {Report(d) : d \in Documents}
  /\ reported \in Documents \cup {Unread}

\* At most one send is being prepared or made, however often and whenever the
\* debouncer is invoked (by one application thread).
OneSender ==
  Cardinality({w \in Workers : pc[w] \notin {"none", "detach"}}) <= 1

\* When debouncer_free has returned no debouncer thread reads the debouncer
\* or the state sender any more.
NoSenderAfterFree ==
  phase = "gone" => \A w \in Workers : pc[w] \in {"none", "detach"}

\* When no addition waits for a snapshot, no send is in progress and the last one
\* succeeded, the servers hold something where this state is looked for, and, if
\* the state fits the print buffer, exactly this state: the CDN, which is only
\* asked whether it has something, has not answered for another state, be it one
\* whose text was cut off, and nothing added during the send is taken for reported.
SettledIsKnown ==
  /\ phase = "up" /\ dirty = {} /\ reported # Unread
  /\ \A w \in Workers : pc[w] \notin {"property", "CDN", "API"}
  => \E r \in known :
       /\ r.path = Path(Document(holds))
       /\ BodyFits(Document(holds)) => r.body = holds

\* An addition whose invoke starts a thread, or finds one that has yet to read the
\* repository, is eventually in a snapshot, or the thread is woken early (which
\* makes it one of missed), or the SDK shuts down.  This is so until a thread has
\* ended before the thread that created it assigned thread_started: that stays
\* set with no thread behind it, and nothing is sent any more.
EventuallyInSnapshot ==
  \A k \in Kinds :
    k \in dirty \ missed /\ phase = "up" ~>
      k \notin dirty \/ k \in missed \/ outrun \/ phase # "up"
=============================================================================
