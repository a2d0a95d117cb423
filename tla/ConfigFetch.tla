----------------------------- MODULE ConfigFetch ------------------------------
(***************************************************************************)
(* One setup after another fetching its configuration: the local storage *)
(* copy, the CDN with the API behind it, or Roxy; the parser's verdict;    *)
(* the event the configuration fetched handlers hear.  Fetches are serial  *)
(* here because RoxCore runs them under fetch_lock (RoxCore!FetchMutex);   *)
(* RoxCore in turn leaves out where a configuration comes from.            *)
(***************************************************************************)
EXTENDS Sequences, Naturals

CONSTANTS
  Payloads,     \* JSON documents a server or the storage may hold
  Miss,         \* those with "result": 404, the CDN's way to say not found
  Flaws,        \* what is wrong with each document
  Large,        \* those whose text exceeds ROX_JSON_PRINT_BUFFER_SIZE
  NoPayload,
  Torn          \* a storage file without a document: an interrupted or failed
                \* write, or one of a document printed in part

\* The flaws configuration_parser_parse looks for, in this order: no data or no
\* date, no signature, one of another length than the key's, or of other data;
\* data that is no JSON, of no application, of another one, with lists that are
\* malformed.
Checks == <<"incomplete", "unsigned", "length", "signature", "inner", "anonymous", "key", "lists">>

ASSUME ConfigFetchAssumption ==
  /\ Miss \subseteq Payloads /\ Large \subseteq Payloads
  /\ Flaws \in [Payloads -> SUBSET {Checks[i] : i \in DOMAIN Checks}]
  /\ \A p \in Miss : "incomplete" \in Flaws[p]
  /\ NoPayload \notin Payloads /\ Torn \notin Payloads \cup {NoPayload}
  /\ Payloads \cap {"none", "empty", "corrupt", "missing", "error"} = {}

VARIABLES
  client,     \* built with ROX_CLIENT: there is a storage, whose location can be made
  roxy,       \* is a Roxy URL set in the options of this rox_setup?
  platform,   \* is ROLLOUT_MODE set to PLATFORM in this process's environment?
  pc,         \* where the fetch is; "off" when the SDK is not set up
  cacheRead,  \* fetcher->cache_read
  disk,       \* the storage entry "config"
  body,       \* parsed_data of the result in hand
  source,     \* and its source
  last,       \* core->last_configuration
  applied,    \* the configuration in force
  before,     \* the one in force when this fetch began
  online,     \* has this process received a configuration from a server?
  outcome     \* the events the handlers heard from this fetch

vars == <<client, roxy, platform, pc, cacheRead, disk, body, source,
          last, applied, before, online, outcome>>

Sources == {"storage", "CDN", "API", "Roxy"}
Errors  == {"NetworkError", "EmptyJson", "CorruptedJson", "UnknownError",
            "SignatureVerificationError", "MismatchAppKey"}
Events  == Errors \cup {"AppliedFromNetwork", "AppliedFromLocalStorage"}
Aborts  == {"abort_result", "abort_signature", "abort_lists"}

\* An unsuccessful reply: no message at all, a status other than 2xx ("missing"
\* is 403 or 404), or a 2xx whose body is empty or not JSON.
Failures == {"none", "error", "missing", "empty", "corrupt"}

Init ==
  /\ client \in BOOLEAN
  /\ roxy = FALSE /\ platform = FALSE
  /\ pc = "off"
  /\ cacheRead = FALSE
  /\ disk = NoPayload
  /\ body = NoPayload
  /\ source = "storage"
  /\ last = NoPayload /\ applied = NoPayload /\ before = NoPayload
  /\ online = FALSE
  /\ outcome = <<>>

-----------------------------------------------------------------------------
(***************************************************************************)
(* configuration_fetcher_fetch.                                            *)
(***************************************************************************)
\* The storage is not asked first.
FirstStepOnline(useRoxy, read) == IF useRoxy THEN "roxy" ELSE "CDN"

\* Roxy, or the storage once in a process of a client, or the CDN.
FirstStep(useRoxy, read) ==
  IF useRoxy THEN "roxy" ELSE IF client /\ ~read THEN "cache" ELSE "CDN"

NewFetcher == cacheRead' = FALSE

\* An API key that is a UUID is the platform's: rox_core_setup says so in the
\* environment, where nothing ever takes it back.  With Roxy it asks for no key.
KeyKinds == {"ObjectId", "UUID"}
ModeAfter(useRoxy, key) == platform \/ (~useRoxy /\ key = "UUID")

\* rox_setup: everything but the environment and the disk starts afresh, and
\* rox_core_setup fetches at once.
Start ==
  /\ pc = "off"
  /\ roxy' \in BOOLEAN
  /\ \E key \in KeyKinds : platform' = ModeAfter(roxy', key)
  /\ NewFetcher /\ online' = FALSE
  /\ last' = NoPayload /\ applied' = NoPayload /\ before' = NoPayload
  /\ outcome' = <<>>
  /\ pc' = FirstStep(roxy', FALSE)
  /\ UNCHANGED <<client, disk, body, source>>

Fetch ==
  /\ pc = "idle"
  /\ before' = applied
  /\ outcome' = <<>>
  /\ pc' = FirstStep(roxy, cacheRead)
  /\ UNCHANGED <<client, roxy, platform, cacheRead, disk, body, source, last, applied, online>>

\* rox_shutdown, behind which the process may call rox_setup again.
Shutdown ==
  /\ pc = "idle"
  /\ pc' = "off"
  /\ UNCHANGED <<client, roxy, platform, cacheRead, disk, body, source,
                 last, applied, before, online, outcome>>

\* The process ends, at any point of a fetch, and another one takes its place.
Exit ==
  /\ pc' = "off"
  /\ platform' = FALSE
  /\ UNCHANGED <<client, roxy, cacheRead, disk, body, source,
                 last, applied, before, online, outcome>>

\* cache_read is not set.
ReadCacheForgets ==
  /\ pc = "cache"
  /\ \/ disk \in Payloads /\ body' = disk /\ source' = "storage" /\ pc' = "receive"
     \/ disk \notin Payloads /\ pc' = "CDN" /\ UNCHANGED <<body, source>>
  /\ UNCHANGED <<client, roxy, platform, cacheRead, disk, last, applied, before, online, outcome>>

\* What the file holds is taken for a document without parsing it.
ReadCacheUnparsed ==
  /\ pc = "cache"
  /\ cacheRead' = TRUE
  /\ \/ disk # NoPayload /\ body' = disk /\ source' = "storage" /\ pc' = "receive"
     \/ disk = NoPayload /\ pc' = "CDN" /\ UNCHANGED <<body, source>>
  /\ UNCHANGED <<client, roxy, platform, disk, last, applied, before, online, outcome>>

\* _configuration_fetcher_fetch_from_cache, which answers only once.
ReadCache ==
  /\ pc = "cache"
  /\ cacheRead' = TRUE
  /\ \/ disk \in Payloads /\ body' = disk /\ source' = "storage" /\ pc' = "receive"
     \/ disk \notin Payloads /\ pc' = "CDN" /\ UNCHANGED <<body, source>>
  /\ UNCHANGED <<client, roxy, platform, disk, last, applied, before, online, outcome>>

\* An event to the handlers that ends this fetch at loc.
Raise(event, loc) ==
  /\ outcome' = Append(outcome, event)
  /\ pc' = loc
  /\ UNCHANGED <<client, roxy, platform, cacheRead, disk, body, source,
                 last, applied, before, online>>

\* A result in hand, to be processed from loc on.
Result(p, from, loc) ==
  /\ body' = p
  /\ source' = from
  /\ pc' = loc
  /\ UNCHANGED <<client, roxy, platform, cacheRead, disk, last, applied, before, online, outcome>>

\* The error _configuration_fetcher_create_result or _handle_error raises.
ErrorOf(reply) ==
  IF reply = "empty" THEN "EmptyJson"
  ELSE IF reply = "corrupt" THEN "CorruptedJson" ELSE "NetworkError"

\* The CDN's 403 or 404 raises the error although the API is asked next.
AskApiRaises ==
  /\ outcome' = Append(outcome, "NetworkError")
  /\ pc' = "API"
  /\ UNCHANGED <<client, roxy, platform, cacheRead, disk, body, source,
                 last, applied, before, online>>

\* The CDN has nothing: the API is asked, and no error is raised.
AskApi ==
  /\ pc' = "API"
  /\ UNCHANGED <<client, roxy, platform, cacheRead, disk, body, source,
                 last, applied, before, online, outcome>>

\* Only a client build has a storage to update.
AfterResult == IF client THEN "store" ELSE "receive"

CdnReplies ==
  /\ pc = "CDN"
  /\ \/ \E p \in Payloads \ Miss : Result(p, "CDN", AfterResult)
     \/ AskApi
     \/ \E f \in Failures \ {"missing"} : Raise(ErrorOf(f), "idle")

\* update_cache only for what the CDN sent.
ApiRepliesUncached ==
  /\ pc = "API"
  /\ \/ \E p \in Payloads : Result(p, "API", "receive")
     \/ \E f \in {"none", "error", "missing"} : Raise("NetworkError", "idle")
     \/ \E f \in {"empty", "corrupt"} :
          Raise(ErrorOf(f), IF client THEN "abort_result" ELSE "idle")

\* The API's answer is not tested for "result": 404; and update_cache is
\* called, and asserts its result, even if there is none.
ApiReplies ==
  /\ pc = "API"
  /\ \/ \E p \in Payloads : Result(p, "API", AfterResult)
     \/ \E f \in {"none", "error", "missing"} : Raise("NetworkError", "idle")
     \/ \E f \in {"empty", "corrupt"} :
          Raise(ErrorOf(f), IF client THEN "abort_result" ELSE "idle")

RoxyReplies ==
  /\ pc = "roxy"
  /\ \/ \E p \in Payloads : Result(p, "Roxy", "receive")
     \/ \E f \in Failures : Raise(ErrorOf(f), "idle")

\* _configuration_fetcher_update_cache: str_to_file truncates the file, and
\* what it then writes is complete when the file is closed and the disk had
\* room (Storage has the files and directories behind this).
Truncate ==
  /\ pc = "store"
  /\ disk' = Torn
  /\ pc' = "write"
  /\ UNCHANGED <<client, roxy, platform, cacheRead, body, source,
                 last, applied, before, online, outcome>>

Printed(p) == IF p \in Large THEN Torn ELSE p

Write ==
  /\ pc = "write"
  /\ disk' \in {Printed(body), Torn}
  /\ pc' = "receive"
  /\ UNCHANGED <<client, roxy, platform, cacheRead, body, source,
                 last, applied, before, online, outcome>>

-----------------------------------------------------------------------------
(***************************************************************************)
(* rox_core_fetch once there is a result.                                  *)
(***************************************************************************)
Receive ==
  /\ pc = "receive"
  /\ last' = body
  /\ online' = (online \/ source # "storage")
  /\ pc' = "parse"
  /\ UNCHANGED <<client, roxy, platform, cacheRead, disk, body, source, applied, before, outcome>>

\* The verifiers rox_core_setup installs: those of Roxy look at nothing.
SignatureVerifier == IF roxy THEN {} ELSE {"length", "signature"}
APIKeyVerifier    == IF roxy THEN {} ELSE {"key"}

SignatureChecks == IF platform THEN {} ELSE {"unsigned"} \cup SignatureVerifier
APIKeyChecks    == {"anonymous"} \cup APIKeyVerifier
ListChecks      == {"lists"}

\* The checks that are made of a document, and the first one it fails.
ChecksMade == {"incomplete", "inner"} \cup SignatureChecks \cup APIKeyChecks \cup ListChecks
Failed(p)  == {i \in DOMAIN Checks : Checks[i] \in ChecksMade \cap Flaws[p]}

Finding(p) ==
  IF Failed(p) = {} THEN "ok" ELSE Checks[CHOOSE i \in Failed(p) : \A j \in Failed(p) : i <= j]

Complaint(flaw) ==
  CASE flaw \in {"unsigned", "signature"} -> "SignatureVerificationError"
    [] flaw = "inner"                      -> "CorruptedJson"
    [] flaw \in {"anonymous", "key"}       -> "MismatchAppKey"
    [] OTHER                               -> "UnknownError"

\* A rejected document is rejected without a word.
ParseSilently ==
  /\ pc = "parse"
  /\ pc' = IF Finding(body) = "ok" THEN "apply" ELSE "idle"
  /\ UNCHANGED <<client, roxy, platform, cacheRead, disk, body, source,
                 last, applied, before, online, outcome>>

\* configuration_parser_parse.  When the experiments or the target groups
\* cannot be parsed it raises the error and goes on, to configuration_create;
\* the length of a signature is asserted.
Parse ==
  /\ pc = "parse"
  /\ \/ /\ Finding(body) = "ok"
        /\ pc' = "apply"
        /\ UNCHANGED <<client, roxy, platform, cacheRead, disk, body, source,
                       last, applied, before, online, outcome>>
     \/ /\ Finding(body) = "length"
        /\ pc' = "abort_signature"
        /\ UNCHANGED <<client, roxy, platform, cacheRead, disk, body, source,
                       last, applied, before, online, outcome>>
     \/ /\ Finding(body) \notin {"ok", "length", "lists"}
        /\ Raise(Complaint(Finding(body)), "idle")
     \/ /\ Finding(body) = "lists"
        /\ Raise("UnknownError", "abort_lists")

\* The experiments, the target groups and the flags are set, and the handlers
\* are told.
Apply ==
  /\ pc = "apply"
  /\ applied' = body
  /\ outcome' = Append(outcome, IF source = "storage" THEN "AppliedFromLocalStorage"
                                                      ELSE "AppliedFromNetwork")
  /\ pc' = "idle"
  /\ UNCHANGED <<client, roxy, platform, cacheRead, disk, body, source, last, before, online>>

-----------------------------------------------------------------------------
Next ==
  \/ Start \/ Fetch \/ Shutdown \/ Exit
  \/ ReadCache \/ CdnReplies \/ ApiReplies \/ RoxyReplies
  \/ Truncate \/ Write
  \/ Receive \/ Parse \/ Apply

Spec == Init /\ [][Next]_vars

-----------------------------------------------------------------------------
(***************************************************************************)
(* Properties.                                                             *)
(***************************************************************************)
Documents == Payloads \cup {NoPayload}

TypeOK ==
  /\ client \in BOOLEAN /\ roxy \in BOOLEAN /\ platform \in BOOLEAN
  /\ pc \in {"off", "idle", "cache", "CDN", "API", "roxy", "store", "write",
             "receive", "parse", "apply"} \cup Aborts
  /\ cacheRead \in BOOLEAN /\ online \in BOOLEAN
  /\ disk \in Documents \cup {Torn}
  /\ body \in Documents
  /\ source \in Sources
  /\ last \in Documents /\ applied \in Documents /\ before \in Documents
  /\ outcome \in Seq(Events)

\* Whatever happens between the servers, the storage and the parser, a fetch
\* that returns has told the handlers of exactly one outcome.
OneOutcome == pc = "idle" => Len(outcome) = 1

\* The outcome says what is in force: after "applied" it is the document
\* received last, after an error it is what was in force before the fetch.
OutcomeIsTruthful ==
  pc = "idle" =>
    IF outcome[Len(outcome)] \in Errors
    THEN applied = before
    ELSE /\ applied = last /\ Finding(applied) = "ok"
         /\ outcome[Len(outcome)] = "AppliedFromNetwork" <=> online

\* Once the servers have been heard in this process the copy on the disk is
\* what they sent last, or none if it did not fit or the disk was full: the
\* next process never starts from an older one.
DiskFollowsServers ==
  client /\ ~roxy /\ online /\ pc \in {"idle", "CDN", "API", "parse", "apply"} =>
    disk \in {Printed(last), Torn}

\* A client that cannot reach any server works with the good document on its
\* disk from its first fetch on, however that document got there and whatever
\* went wrong since.
WorksOffline ==
  client /\ ~roxy /\ ~online /\ pc = "idle" /\ disk \in Payloads =>
    Finding(disk) # "ok" \/ applied = disk

=============================================================================
