-------------------------- MODULE ConfigFetchProofs ---------------------------
(***************************************************************************)
(* For any set of documents, whatever is wrong with each of them: exactly  *)
(* one outcome per fetch, and the true one; a storage copy that follows    *)
(* the servers; a client that works from it when they are away.  And of    *)
(* the storage that keeps the copy: it implements DurableMap.              *)
(***************************************************************************)
EXTENDS ConfigFetch, Storage, TLAPS

\* Where a fetch is under way and no handler has heard of it yet.
Underway == {"cache", "CDN", "API", "roxy", "store", "write", "receive", "parse", "apply"}

\* One outcome at the end of a fetch, none before; what is in force changes with
\* the outcome and not earlier.
OutcomeInv ==
  /\ pc \in Underway => outcome = <<>> /\ applied = before
  /\ pc = "idle" => Len(outcome) = 1 /\ OutcomeIsTruthful

\* The storage is asked before any server, by a client without Roxy, and its
\* answer is told from a server's at each place.
SourceInv ==
  /\ pc = "cache" => client /\ ~roxy /\ ~online
  /\ pc \in {"CDN", "API", "idle", "store", "write"} /\ client /\ ~roxy => cacheRead
  /\ pc \in {"store", "write"} => client /\ ~roxy
  /\ pc = "roxy" => roxy
  /\ pc \in {"CDN", "API"} => ~roxy
  /\ pc \in {"store", "write"} => source \in {"CDN", "API"}
  /\ pc = "receive" /\ source = "storage" => client /\ ~roxy /\ cacheRead /\ ~online
  /\ pc \in {"receive", "parse", "apply"} /\ client /\ ~roxy => cacheRead
  /\ pc \in {"parse", "apply"} => last = body /\ (online <=> source # "storage")
  /\ pc = "apply" => Finding(body) = "ok"

\* What the disk holds at each place: the copy of the document in hand once it
\* is stored, that of the last one otherwise, and a good one is in force unless
\* a server has been heard.
DiskInv ==
  /\ pc = "receive" /\ client /\ ~roxy /\ source # "storage" => disk \in {Printed(body), Torn}
  /\ pc \in {"receive", "parse", "apply"} /\ source = "storage" => disk = body
  /\ DiskFollowsServers
  /\ pc \in {"CDN", "API", "idle"} /\ client /\ ~roxy /\ ~online /\ disk \in Payloads =>
       Finding(disk) # "ok" \/ applied = disk

Inv == TypeOK /\ OutcomeInv /\ SourceInv /\ DiskInv

-----------------------------------------------------------------------------
\* What is found in a document depends on the setup and the environment only.
LEMMA FindingStays ==
  ASSUME UNCHANGED <<roxy, platform>>, NEW p
  PROVE  Finding(p)' = Finding(p)
<1>1. ChecksMade' = ChecksMade
  BY DEF ChecksMade, SignatureChecks, SignatureVerifier, APIKeyChecks, APIKeyVerifier,
     ListChecks
<1>2. Failed(p)' = Failed(p)
  BY <1>1 DEF Failed
<1> QED  BY <1>2 DEF Finding

\* Every complaint is an error, whatever it is about.
LEMMA ComplaintIsError ==
  ASSUME NEW flaw
  PROVE  Complaint(flaw) \in Errors
BY DEF Complaint, Errors

\* What the handlers have heard after an event, if they had heard nothing.
LEMMA OneEvent ==
  ASSUME NEW event
  PROVE  Len(Append(<<>>, event)) = 1 /\ Append(<<>>, event)[1] = event
OBVIOUS

\* Whatever a server fails with is an error to the handlers.
LEMMA ErrorOfIsError == \A reply : ErrorOf(reply) \in Errors
BY DEF ErrorOf, Errors

-----------------------------------------------------------------------------
\* Every variable keeps its type.
THEOREM TypeCorrect == Spec => []TypeOK
<1> USE ConfigFetchAssumption DEF TypeOK, Documents, Sources, Events, Errors, Aborts
<1>1. Init => TypeOK
  <2> SUFFICES ASSUME Init
               PROVE  TypeOK
    OBVIOUS
  <2>1. client \in BOOLEAN /\ roxy \in BOOLEAN /\ platform \in BOOLEAN
        /\ cacheRead \in BOOLEAN /\ online \in BOOLEAN
    BY DEF Init
  <2>2. /\ pc = "off" /\ disk = NoPayload /\ body = NoPayload /\ source = "storage"
        /\ last = NoPayload /\ applied = NoPayload /\ before = NoPayload
        /\ outcome = <<>>
    BY DEF Init
  <2> QED  BY <2>1, <2>2
<1>2. TypeOK /\ [Next]_vars => TypeOK'
  <2> SUFFICES ASSUME TypeOK, [Next]_vars
               PROVE  TypeOK'
    OBVIOUS
  <2>1. CASE Start
    <3>1. client' \in BOOLEAN /\ roxy' \in BOOLEAN /\ platform' \in BOOLEAN
          /\ cacheRead' \in BOOLEAN /\ online' \in BOOLEAN
      BY <2>1 DEF Start, ModeAfter, NewFetcher
    <3>2. /\ pc' \in {"roxy", "cache", "CDN"}
          /\ last' = NoPayload /\ applied' = NoPayload /\ before' = NoPayload
          /\ outcome' = <<>>
          /\ UNCHANGED <<disk, body, source>>
      BY <2>1 DEF Start, FirstStep
    <3> QED  BY <3>1, <3>2
  <2>2. CASE Fetch  BY <2>2 DEF Fetch, FirstStep
  <2>3. CASE Shutdown  BY <2>3 DEF Shutdown
  <2>4. CASE Exit
    <3>1. client' \in BOOLEAN /\ roxy' \in BOOLEAN /\ platform' = FALSE
          /\ cacheRead' \in BOOLEAN /\ online' \in BOOLEAN
      BY <2>4 DEF Exit
    <3> QED  BY <2>4, <3>1 DEF Exit
  <2>5. CASE ReadCache  BY <2>5 DEF ReadCache
  <2>6. CASE CdnReplies
    BY <2>6 DEF CdnReplies, Result, AskApi, Raise, AfterResult, ErrorOf, Failures
  <2>7. CASE ApiReplies  BY <2>7 DEF ApiReplies, Result, Raise, AfterResult, ErrorOf
  <2>8. CASE RoxyReplies  BY <2>8 DEF RoxyReplies, Result, Raise, ErrorOf, Failures
  <2>9. CASE Truncate  BY <2>9 DEF Truncate
  <2>10. CASE Write  BY <2>10 DEF Write, Printed
  <2>11. CASE Receive  BY <2>11 DEF Receive
  <2>12. CASE Parse  BY <2>12, ComplaintIsError DEF Parse, Raise
  <2>13. CASE Apply  BY <2>13 DEF Apply
  <2>14. CASE UNCHANGED vars  BY <2>14 DEF vars
  <2> QED
    BY <2>1, <2>2, <2>3, <2>4, <2>5, <2>6, <2>7, <2>8, <2>9, <2>10, <2>11, <2>12, <2>13,
       <2>14 DEF Next
<1> QED  BY <1>1, <1>2, PTL DEF Spec

-----------------------------------------------------------------------------
\* The place of a fetch tells the source of what it has in hand.
LEMMA SourceKept ==
  ASSUME Inv, [Next]_vars
  PROVE  SourceInv'
<1> USE ConfigFetchAssumption DEF Inv, TypeOK, Documents, SourceInv, Aborts
<1>1. CASE Start  BY <1>1 DEF Start, FirstStep, NewFetcher
<1>2. CASE Fetch  BY <1>2 DEF Fetch, FirstStep
<1>3. CASE Shutdown  BY <1>3 DEF Shutdown
<1>4. CASE Exit  BY <1>4 DEF Exit
<1>5. CASE ReadCache  BY <1>5 DEF ReadCache
<1>6. CASE CdnReplies  BY <1>6 DEF CdnReplies, Result, AskApi, Raise, AfterResult, ErrorOf
<1>7. CASE ApiReplies  BY <1>7 DEF ApiReplies, Result, Raise, AfterResult, ErrorOf
<1>8. CASE RoxyReplies  BY <1>8 DEF RoxyReplies, Result, Raise, ErrorOf
<1>9. CASE Truncate  BY <1>9 DEF Truncate
<1>10. CASE Write  BY <1>10 DEF Write, Printed
<1>11. CASE Receive  BY <1>11 DEF Receive
<1>12. CASE Parse  BY <1>12, FindingStays DEF Parse, Raise
<1>13. CASE Apply  BY <1>13, FindingStays DEF Apply
<1>14. CASE UNCHANGED vars  BY <1>14, FindingStays DEF vars
<1> QED
  BY <1>1, <1>2, <1>3, <1>4, <1>5, <1>6, <1>7, <1>8, <1>9, <1>10, <1>11, <1>12, <1>13,
     <1>14 DEF Next

-----------------------------------------------------------------------------
\* A fetch has one outcome, which says what is in force.
LEMMA OutcomeKept ==
  ASSUME Inv, [Next]_vars
  PROVE  OutcomeInv'
<1> USE ConfigFetchAssumption DEF Inv, TypeOK, Documents, OutcomeInv, SourceInv, Underway,
        Aborts, OutcomeIsTruthful, Errors
<1>1. CASE Start  BY <1>1, FindingStays DEF Start, FirstStep, NewFetcher
<1>2. CASE Fetch  BY <1>2, FindingStays DEF Fetch, FirstStep
<1>3. CASE Shutdown  BY <1>3, FindingStays DEF Shutdown
<1>4. CASE Exit  BY <1>4, FindingStays DEF Exit
<1>5. CASE ReadCache  BY <1>5, FindingStays DEF ReadCache
<1>6. CASE CdnReplies
  BY <1>6, OneEvent, ErrorOfIsError, FindingStays DEF CdnReplies, Result, AskApi, Raise,
     AfterResult
<1>7. CASE ApiReplies
  BY <1>7, OneEvent, ErrorOfIsError, FindingStays DEF ApiReplies, Result, Raise,
     AfterResult
<1>8. CASE RoxyReplies
  <2>1. pc = "roxy" /\ outcome = <<>> /\ applied = before
    BY <1>8 DEF RoxyReplies
  <2>2. ASSUME NEW p \in Payloads, Result(p, "Roxy", "receive")
        PROVE  OutcomeInv'
    BY <2>1, <2>2 DEF Result
  <2>3. ASSUME NEW f \in Failures, Raise(ErrorOf(f), "idle")
        PROVE  OutcomeInv'
    BY <2>1, <2>3, OneEvent, ErrorOfIsError DEF Raise
  <2> QED  BY <1>8, <2>2, <2>3 DEF RoxyReplies
<1>9. CASE Truncate  BY <1>9, FindingStays DEF Truncate
<1>10. CASE Write  BY <1>10, FindingStays DEF Write, Printed
<1>11. CASE Receive  BY <1>11, FindingStays DEF Receive
<1>12. CASE Parse
  BY <1>12, OneEvent, ErrorOfIsError, FindingStays, ComplaintIsError DEF Parse, Raise
<1>13. CASE Apply  BY <1>13, OneEvent, ErrorOfIsError, FindingStays DEF Apply
<1>14. CASE UNCHANGED vars  BY <1>14, FindingStays DEF vars
<1> QED
  BY <1>1, <1>2, <1>3, <1>4, <1>5, <1>6, <1>7, <1>8, <1>9, <1>10, <1>11, <1>12, <1>13,
     <1>14 DEF Next

-----------------------------------------------------------------------------
\* The disk holds what the place of a fetch says.
LEMMA DiskKept ==
  ASSUME Inv, [Next]_vars
  PROVE  DiskInv'
<1> USE ConfigFetchAssumption DEF Inv, TypeOK, Documents, SourceInv, DiskInv,
        DiskFollowsServers, Printed, Aborts
<1>1. CASE Start  BY <1>1, FindingStays DEF Start, FirstStep, NewFetcher
<1>2. CASE Fetch  BY <1>2, FindingStays DEF Fetch, FirstStep
<1>3. CASE Shutdown  BY <1>3, FindingStays DEF Shutdown
<1>4. CASE Exit  BY <1>4, FindingStays DEF Exit
<1>5. CASE ReadCache  BY <1>5, FindingStays DEF ReadCache
<1>6. CASE CdnReplies
  BY <1>6, FindingStays DEF CdnReplies, Result, AskApi, Raise, AfterResult, ErrorOf
<1>7. CASE ApiReplies
  BY <1>7, FindingStays DEF ApiReplies, Result, Raise, AfterResult, ErrorOf
<1>8. CASE RoxyReplies  BY <1>8, FindingStays DEF RoxyReplies, Result, Raise, ErrorOf
<1>9. CASE Truncate  BY <1>9, FindingStays DEF Truncate
<1>10. CASE Write  BY <1>10, FindingStays DEF Write, Printed
<1>11. CASE Receive  BY <1>11, FindingStays DEF Receive
<1>12. CASE Parse  BY <1>12, FindingStays DEF Parse, Raise
<1>13. CASE Apply  BY <1>13, FindingStays DEF Apply
<1>14. CASE UNCHANGED vars  BY <1>14, FindingStays DEF vars
<1> QED
  BY <1>1, <1>2, <1>3, <1>4, <1>5, <1>6, <1>7, <1>8, <1>9, <1>10, <1>11, <1>12, <1>13,
     <1>14 DEF Next

-----------------------------------------------------------------------------
\* The inductive invariant: what has been told and applied, whose answer is in
\* hand and what the disk holds, at each place of a fetch.
THEOREM InvariantHolds == Spec => []Inv
<1>1. Init => OutcomeInv /\ SourceInv /\ DiskInv
  BY DEF Init, OutcomeInv, SourceInv, DiskInv, DiskFollowsServers, Underway
<1>2. Inv /\ [Next]_vars => (OutcomeInv /\ SourceInv /\ DiskInv)'
  BY SourceKept, OutcomeKept, DiskKept
<1>3. TypeOK /\ OutcomeInv /\ SourceInv /\ DiskInv <=> Inv
  BY DEF Inv
<1> QED  BY <1>1, <1>2, <1>3, TypeCorrect, PTL DEF Spec

\* The handlers hear exactly once of every fetch that returns.
THEOREM HeardOnce == Spec => []OneOutcome
<1>1. Inv => OneOutcome
  BY DEF Inv, OutcomeInv, OneOutcome
<1> QED  BY <1>1, InvariantHolds, PTL

\* What they hear is what is in force.
THEOREM HeardTruth == Spec => []OutcomeIsTruthful
<1>1. Inv => OutcomeIsTruthful
  BY DEF Inv, OutcomeInv, OutcomeIsTruthful
<1> QED  BY <1>1, InvariantHolds, PTL

\* The copy on the disk never falls behind the servers.
THEOREM DiskNeverStale == Spec => []DiskFollowsServers
<1>1. Inv => DiskFollowsServers
  BY DEF Inv, DiskInv
<1> QED  BY <1>1, InvariantHolds, PTL

\* A client without servers works with the good document on its disk.
THEOREM OfflineWorks == Spec => []WorksOffline
<1>1. Inv => WorksOffline
  BY DEF Inv, DiskInv, WorksOffline
<1> QED  BY <1>1, InvariantHolds, PTL

-----------------------------------------------------------------------------
(***************************************************************************)
(* The storage that a configuration's copy is kept in.  For any entries,   *)
(* any maps and any depth of the location it implements DurableMap: what   *)
(* is stored abstracts the file, what is being put abstracts the writing,  *)
(* and the directories are its own affair.                                 *)
(***************************************************************************)
\* What the process can be doing with an entry.
Operations ==
  {Idle} \cup {Opening(i) : i \in 1 .. Depth} \cup {Writing(m) : m \in Maps}

\* The part of the state that DurableMap sees; a write that is under way has
\* truncated its file.
StorageInv ==
  /\ file \in [Names -> Maps \cup {"missing", "torn"}]
  /\ op \in [Names -> Operations]
  /\ read \in [Names -> Maps \cup {Nothing}]
  /\ \A n \in Names : op[n].doing = "write" => file[n] = "torn"

-----------------------------------------------------------------------------
\* An operation is one of the three, which its first field tells apart.
LEMMA OperationKinds ==
  ASSUME NEW o \in Operations
  PROVE  /\ o.doing = "nothing" => o = Idle
         /\ o.doing = "mkdirs" => \E i \in 1 .. Depth : o = Opening(i)
         /\ o.doing = "write" => o.map \in Maps /\ o = Writing(o.map)
         /\ o.doing \in {"nothing", "mkdirs", "write"}
BY DEF Operations, Idle, Opening, Writing

\* The files and the operations stay what they are, and a write's file is torn.
THEOREM StorageInvariantHolds == StorageSpec => []StorageInv
<1> USE StorageAssumption DEF StorageInv
<1>1. StorageInit => StorageInv
  BY DEF StorageInit, Operations, Idle
<1>2. StorageInv /\ [StorageNext]_storageVars => StorageInv'
  <2> SUFFICES ASSUME StorageInv, [StorageNext]_storageVars
               PROVE  StorageInv'
    OBVIOUS
  <2>1. CASE Create  BY <2>1 DEF Create
  <2>2. CASE Stop  BY <2>2 DEF Stop, Operations, Idle
  <2>3. CASE Unblock  BY <2>3 DEF Unblock
  <2>4. ASSUME NEW n \in Names, GetEntry(n) \/ DeleteEntry(n)
        PROVE  StorageInv'
    <3>1. Opening(1) \in Operations /\ Opening(1).doing = "mkdirs"
      BY DEF Operations, Opening
    <3>2. op' = [op EXCEPT ![n] = Opening(1)] /\ UNCHANGED <<file, read>>
      BY <2>4 DEF GetEntry, DeleteEntry
    <3> QED  BY <3>1, <3>2
  <2>5. ASSUME NEW n \in Names, MakeDirectory(n)
        PROVE  StorageInv'
    BY <2>5 DEF MakeDirectory, Operations, Idle, Opening, Writing
  <2>6. ASSUME NEW n \in Names, NEW m \in Maps, BeginWrite(n, m)
        PROVE  StorageInv'
    BY <2>6 DEF BeginWrite, Operations, Writing
  <2>7. ASSUME NEW n \in Names, EndWrite(n)
        PROVE  StorageInv'
    BY <2>7, OperationKinds DEF EndWrite, TextWritten, Operations, Idle
  <2>8. ASSUME NEW n \in Names, Read(n)
        PROVE  StorageInv'
    BY <2>8 DEF Read, Parsed
  <2>9. CASE UNCHANGED storageVars  BY <2>9 DEF storageVars
  <2> QED
    BY <2>1, <2>2, <2>3, <2>4, <2>5, <2>6, <2>7, <2>8, <2>9 DEF StorageNext
<1> QED  BY <1>1, <1>2, PTL DEF StorageSpec

-----------------------------------------------------------------------------
\* What cannot be seen through the interface changes nothing of what is stored.
LEMMA Unseen ==
  ASSUME UNCHANGED <<file, read>>,
         \A n \in Names : Putting(n)' = Putting(n)
  PROVE  UNCHANGED Durable!vars
BY DEF Durable!vars, Parsed

\* Who makes directories does not write.
LEMMA NotWriting == Idle.doing # "write" /\ \A i : Opening(i).doing # "write"
<1>1. Idle.doing = "nothing"
  BY DEF Idle
<1>2. ASSUME NEW i
      PROVE  Opening(i).doing = "mkdirs"
  BY DEF Opening
<1> QED  BY <1>1, <1>2

\* Making directories is no part of a put.
LEMMA DirectoriesUnseen ==
  ASSUME StorageInv, NEW n \in Names,
         GetEntry(n) \/ DeleteEntry(n) \/ MakeDirectory(n)
  PROVE  UNCHANGED Durable!vars
<1>1. UNCHANGED <<file, read>>
  BY DEF GetEntry, DeleteEntry, MakeDirectory
<1>2. ASSUME NEW k \in Names
      PROVE  Putting(k)' = Putting(k)
  <2>1. op[n].doing # "write"
    BY NotWriting DEF GetEntry, DeleteEntry, MakeDirectory, IsIdle
  <2>2. op'[n] = Idle \/ \E i : op'[n] = Opening(i)
    BY DEF StorageInv, GetEntry, DeleteEntry, MakeDirectory
  <2>3. op'[n].doing # "write"
    BY <2>2, NotWriting
  <2>4. k # n => op'[k] = op[k]
    BY DEF StorageInv, GetEntry, DeleteEntry, MakeDirectory
  <2> QED  BY <2>1, <2>3, <2>4 DEF Putting
<1> QED  BY <1>1, <1>2, Unseen

\* Truncating the file begins a put.
LEMMA BeginWriteBeginsPut ==
  ASSUME StorageInv, NEW n \in Names, NEW m \in Maps, BeginWrite(n, m)
  PROVE  Durable!BeginPut(n, m)
<1> USE StorageAssumption DEF StorageInv, BeginWrite, Putting, Parsed
<1>1. Putting(n) = Nothing
  BY DEF IsIdle, Idle
<1>2. [k \in Names |-> Putting(k)'] = [[k \in Names |-> Putting(k)] EXCEPT ![n] = m]
  BY DEF Writing
<1>3. [k \in Names |-> Parsed(file'[k])]
        = [[k \in Names |-> Parsed(file[k])] EXCEPT ![n] = Nothing]
  OBVIOUS
<1> QED  BY <1>1, <1>2, <1>3 DEF Durable!BeginPut

\* A write that fills the file ends the put; one that does not fit, or finds the
\* disk full, fails it.
LEMMA EndWriteEndsPut ==
  ASSUME StorageInv, NEW n \in Names, EndWrite(n)
  PROVE  Durable!EndPut(n) \/ Durable!FailPut(n)
<1> USE StorageAssumption DEF StorageInv, EndWrite
<1> DEFINE m == op[n].map
<1>1. m \in Maps /\ Putting(n) = m /\ file[n] = "torn"
  BY OperationKinds DEF Putting
<1>2. [k \in Names |-> Putting(k)']
        = [[k \in Names |-> Putting(k)] EXCEPT ![n] = Nothing]
  BY DEF Putting, Idle
<1>3. UNCHANGED read
  OBVIOUS
<1>4. CASE file' = file
  BY <1>2, <1>3, <1>4 DEF Durable!FailPut
<1>5. CASE file' = [file EXCEPT ![n] = TextWritten(m)] /\ m \in Oversized
  <2>1. file' = file
    BY <1>1, <1>5 DEF TextWritten
  <2> QED  BY <2>1, <1>4
<1>6. CASE file' = [file EXCEPT ![n] = TextWritten(m)] /\ m \notin Oversized
  <2>1. [k \in Names |-> Parsed(file'[k])]
          = [[k \in Names |-> Parsed(file[k])] EXCEPT ![n] = m]
    BY <1>1, <1>6 DEF TextWritten, Parsed
  <2> QED  BY <1>1, <1>2, <1>3, <2>1 DEF Durable!EndPut
<1> QED  BY <1>4, <1>5, <1>6

\* A read gets what is stored, or nothing when it is out of reach.
LEMMA ReadGets ==
  ASSUME StorageInv, NEW n \in Names, Read(n)
  PROVE  Durable!Get(n) \/ Durable!GetNothing(n)
<1> USE DEF StorageInv, Read
<1>1. Putting(n) = Nothing
  BY DEF IsIdle, Idle, Putting
<1>2. \A k \in Names : Putting(k)' = Putting(k)
  BY DEF Putting
<1>3. \A k \in Names : Parsed(file'[k]) = Parsed(file[k])
  OBVIOUS
<1>4. CASE Reachable(n)
  BY <1>1, <1>2, <1>3, <1>4 DEF Durable!Get
<1>5. CASE ~Reachable(n)
  BY <1>2, <1>3, <1>5 DEF Durable!GetNothing
<1> QED  BY <1>4, <1>5

-----------------------------------------------------------------------------
\* The storage implements DurableMap: whatever fails and wherever the process
\* dies, a read returns the map written last under that name, or nothing.
THEOREM StorageIsDurableMap == StorageSpec => ImplementsDurableMap
<1>1. StorageInit => Durable!Init
  BY StorageAssumption DEF StorageInit, Durable!Init, Parsed, Putting, Idle
<1>2. StorageInv /\ [StorageNext]_storageVars => [Durable!Next]_(Durable!vars)
  <2> SUFFICES ASSUME StorageInv, [StorageNext]_storageVars
               PROVE  Durable!Next \/ UNCHANGED Durable!vars
    OBVIOUS
  <2>1. CASE Create \/ Unblock \/ UNCHANGED storageVars
    BY <2>1, Unseen DEF Create, Unblock, storageVars, Putting
  <2>2. CASE Stop
    <3>1. Durable!Stop
      BY <2>2 DEF Stop, Durable!Stop, Parsed, Putting, Idle
    <3> QED  BY <3>1 DEF Durable!Next
  <2>3. ASSUME NEW n \in Names, GetEntry(n) \/ DeleteEntry(n) \/ MakeDirectory(n)
        PROVE  UNCHANGED Durable!vars
    BY <2>3, DirectoriesUnseen
  <2>4. ASSUME NEW n \in Names, NEW m \in Maps, BeginWrite(n, m)
        PROVE  Durable!Next
    BY <2>4, BeginWriteBeginsPut DEF Durable!Next
  <2>5. ASSUME NEW n \in Names, EndWrite(n) \/ Read(n)
        PROVE  Durable!Next
    BY <2>5, EndWriteEndsPut, ReadGets DEF Durable!Next
  <2> QED  BY <2>1, <2>2, <2>3, <2>4, <2>5 DEF StorageNext
<1> QED  BY <1>1, <1>2, StorageInvariantHolds, PTL DEF StorageSpec, ImplementsDurableMap, Durable!Spec
=============================================================================
