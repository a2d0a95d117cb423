-------------------------- MODULE StateSenderProofs ---------------------------
(***************************************************************************)
(* For any number of debouncer threads and any contents: with one          *)
(* application thread there is at most one sender, none after the free,    *)
(* and what is settled is known.                                           *)
(***************************************************************************)
EXTENDS StateSender, FiniteSetTheorems, TLAPS

\* One thread uses the SDK, which is what the debouncer is made for.
OneThread == \A a, b \in Apps : a = b

Active(w) == pc[w] \notin {"none", "detach"}

\* Where a thread has something in its snapshot.
Sending == {"property", "CDN", "API"}

\* What a sender has in hand at each place; together with TypeOK this is
\* preserved by every step.
TypeInv ==
  /\ TypeOK
  /\ \A a \in Apps : pc[a] \in AppSteps
  /\ \A w \in Workers :
       /\ pc[w] \in WorkerSteps
       /\ pc[w] = "property" => \E c \in Contents["flag"] : snapshot[w]["flag"] = Printed(c)
       /\ pc[w] \in {"CDN", "API"} => snapshot[w] \in Documents

\* Calls end before the shutdown, and the shutdown is one call.
PhaseInv ==
  /\ stopped => phase \in {"down", "gone"}
  /\ phase \in {"new", "gone"} => \A a \in Apps : pc[a] = "idle"
  /\ phase = "down" => \A a \in Apps : pc[a] \in {"idle", "free", "join"}
  /\ phase = "up" => \A a \in Apps : pc[a] \notin {"free", "join"}

\* Who sends is the thread the debouncer knows, and thread_started says so, but
\* while the thread that created it has yet to set it.
SenderInv ==
  /\ \A w \in Workers : Active(w) =>
       /\ w = handle
       /\ started \/ \E a \in Apps : pc[a] = "assign"
  /\ \A a \in Apps : pc[a] = "create" => ~started
  /\ phase = "gone" => \A w \in Workers : ~Active(w)

\* What has been read and not been touched since is as it was read, by the
\* sender and, when it has ended, by the servers.
ReportInv ==
  /\ \A w \in Workers : \A k \in Kinds \ dirty :
       pc[w] \in {"CDN", "API"} \/ (pc[w] = "property" /\ k = "flag")
         => snapshot[w][k] = Printed(holds[k])
  /\ reported # Unread => Report(reported) \in known
  /\ phase \in {"new", "up"} /\ reported # Unread
     /\ (\A w \in Workers : pc[w] \notin Sending)
     => \A k \in Kinds \ dirty : reported[k] = Printed(holds[k])

Inv == TypeInv /\ PhaseInv /\ SenderInv /\ ReportInv

-----------------------------------------------------------------------------
\* A document is a text of either repository.
LEMMA DocumentsAre ==
  /\ \A d \in Documents : d \in [Kinds -> Texts] /\ d # Unread
  /\ \A d \in [Kinds -> Texts \cup {Nothing}] :
       (\A k \in Kinds : \E c \in Contents[k] : d[k] = Printed(c)) => d \in Documents
  /\ \A h \in Repositories : Document(h) \in Documents
  /\ Unread \in [Kinds -> Texts \cup {Nothing}]
  /\ \A h \in Repositories : \A k \in Kinds :
       h[k] \in Contents[k] /\ Printed(h[k]) \in Texts
<1>1. \A c \in AnyContents : Printed(c) \in Texts /\ Printed(c) # Nothing
  BY StateSenderAssumption DEF Texts, Printed
<1>2. \A h \in Repositories : \A k \in Kinds : h[k] \in AnyContents
  BY DEF Repositories
<1>3. ASSUME NEW d \in Documents
      PROVE  d \in [Kinds -> Texts] /\ d # Unread
  <2>1. PICK h \in Repositories : d = [k \in Kinds |-> Printed(h[k])]
    BY DEF Documents, Document
  <2>2. d["flag"] # Nothing
    BY <1>1, <1>2, <2>1 DEF Kinds
  <2> QED  BY <1>1, <1>2, <2>1, <2>2 DEF Unread, Kinds
<1>4. ASSUME NEW d \in [Kinds -> Texts \cup {Nothing}],
             \A k \in Kinds : \E c \in Contents[k] : d[k] = Printed(c)
      PROVE  d \in Documents
  <2> DEFINE h == [k \in Kinds |-> CHOOSE c \in Contents[k] : d[k] = Printed(c)]
  <2>1. \A k \in Kinds : h[k] \in Contents[k] /\ d[k] = Printed(h[k])
    BY <1>4
  <2>2. h \in [Kinds -> AnyContents]
    BY <2>1 DEF AnyContents
  <2>3. h \in Repositories
    BY <2>1, <2>2 DEF Repositories
  <2>4. d = Document(h)
    BY <2>1 DEF Document
  <2> QED  BY <2>3, <2>4 DEF Documents
<1>5. \A h \in Repositories : Document(h) \in Documents
  BY DEF Documents
<1>6. \A h \in Repositories : \A k \in Kinds :
        h[k] \in Contents[k] /\ Printed(h[k]) \in Texts
  BY <1>1, <1>2 DEF Repositories
<1> QED  BY <1>3, <1>4, <1>5, <1>6 DEF Unread

\* An addition leaves the other repository as it is.
LEMMA Entered ==
  ASSUME holds \in Repositories, NEW kind \in Kinds, Enters(kind)
  PROVE  /\ holds' \in Repositories /\ dirty' = dirty \cup {kind}
         /\ \A k \in Kinds \ {kind} : holds'[k] = holds[k]
<1>1. PICK c \in Contents[kind] : holds' = [holds EXCEPT ![kind] = c]
  BY DEF Enters
<1>2. c \in AnyContents
  BY DEF AnyContents
<1> QED  BY <1>1, <1>2 DEF Repositories, Enters

\* A body that fits is of two whole texts.
LEMMA WholeBody ==
  ASSUME NEW h \in Repositories, BodyFits(Document(h))
  PROVE  Document(h) = h
<1> DEFINE x == Document(h)["flag"]
           y == Document(h)["property"]
<1>1. h \in [Kinds -> AnyContents] /\ h["flag"] \in AnyContents /\ h["property"] \in AnyContents
  BY DEF Repositories, Kinds
<1>2. x = Printed(h["flag"]) /\ y = Printed(h["property"])
  BY DEF Document, Kinds
<1>3. TextSize(x) + TextSize(y) < BufferSize
  BY DEF BodyFits
<1>4. TextSize(x) \in Nat /\ TextSize(y) \in Nat /\ BufferSize \in Nat
  BY StateSenderAssumption DEF TextSize
<1>5. TextSize(x) # BufferSize /\ TextSize(y) # BufferSize
  <2> HIDE DEF x, y
  <2> QED  BY <1>3, <1>4
<1>6. x \in AnyContents /\ y \in AnyContents
  BY <1>5 DEF TextSize
<1>7. x = h["flag"] /\ y = h["property"]
  BY StateSenderAssumption, <1>1, <1>2, <1>6 DEF Printed
<1>8. \A k \in Kinds : Document(h)[k] = h[k]
  BY <1>7 DEF Kinds
<1>9. Document(h) = [k \in Kinds |-> Document(h)[k]]
  BY DEF Document
<1> QED  BY <1>1, <1>8, <1>9

\* The MD5 tells printed states apart, so the path tells what is kept under it.
LEMMA PathTellsReport ==
  ASSUME NEW d \in Documents, NEW e \in Documents
  PROVE  /\ Path(d) = Path(e) => d = e
         /\ Report(d).path = Path(d) /\ Report(d).body = Body(d)
<1>1. [k \in Kinds |-> d[k]] = d /\ [k \in Kinds |-> e[k]] = e
  BY DocumentsAre
<1> QED  BY <1>1 DEF Path, StateMd5, Report

\* What the API keeps under one path does not touch what is known under others.
LEMMA KeepKeeps ==
  ASSUME TypeOK, NEW d \in Documents, Keep(d)
  PROVE  /\ Report(d) \in known'
         /\ known' \subseteq {Report(e) : e \in Documents}
         /\ \A e \in Documents : Report(e) \in known => Report(e) \in known'
<1>1. ASSUME NEW e \in Documents, Report(e) \in known
      PROVE  Report(e) \in known'
  <2>1. CASE Path(e) = Path(d)
    BY <2>1, PathTellsReport DEF Keep
  <2>2. CASE Path(e) # Path(d)
    BY <1>1, <2>2, PathTellsReport DEF Keep
  <2> QED  BY <2>1, <2>2
<1> QED  BY <1>1 DEF Keep, TypeOK

\* What the CDN has under a path is the report of that state.
LEMMA FoundIsReport ==
  ASSUME TypeOK, NEW d \in Documents, NEW r \in known, r.path = Path(d)
  PROVE  r = Report(d)
<1>1. PICK e \in Documents : r = Report(e)
  BY DEF TypeOK
<1> QED  BY <1>1, PathTellsReport

-----------------------------------------------------------------------------
\* Every variable keeps its type, and what is sent has been read.
THEOREM TypeInvHolds == Spec => []TypeInv
<1> USE StateSenderAssumption DEF TypeInv, TypeOK, AppSteps, WorkerSteps, data
<1>1. Init => TypeInv
  <2> SUFFICES ASSUME Init
               PROVE  TypeInv
    OBVIOUS
  <2>1. started \in BOOLEAN /\ stopped \in BOOLEAN /\ outrun \in BOOLEAN
    BY DEF Init, NewDebouncer
  <2>2. pc \in [Apps \cup Workers -> {"idle", "none"}]
        /\ (\A a \in Apps : pc[a] = "idle") /\ (\A w \in Workers : pc[w] = "none")
    BY DEF Init
  <2>3. handle = Nobody /\ phase = "new" /\ dirty = {} /\ missed = {} /\ known = {}
        /\ adding = [a \in Apps |-> "nothing"] /\ holds \in Repositories
        /\ snapshot = [w \in Workers |-> Unread] /\ reported = Unread
    BY DEF Init, NewDebouncer
  <2>4. Unread \in [Kinds -> Texts \cup {Nothing}]
    BY DEF Unread
  <2> QED  BY <2>1, <2>2, <2>3, <2>4
<1>2. TypeInv /\ [Next]_vars => TypeInv'
  <2> SUFFICES ASSUME TypeInv, [Next]_vars
               PROVE  TypeInv'
    OBVIOUS
  <2>1. ASSUME NEW a \in Apps, Setup(a)
        PROVE  TypeInv'
    BY <2>1 DEF Setup, Debounce, Goto
  <2>2. ASSUME NEW a \in Apps, NEW k \in Kinds, Register(a, k)
        PROVE  TypeInv'
    BY <2>2, Entered DEF Register, Enters
  <2>3. ASSUME NEW a \in Apps, NEW k \in Kinds, Add(a, k)
        PROVE  TypeInv'
    BY <2>3, Entered DEF Add, Enters, Debounce, Goto
  <2>4. ASSUME NEW a \in Apps, CheckStarted(a)
        PROVE  TypeInv'
    <3>1. missed' \subseteq dirty /\ UNCHANGED dirty
      BY <2>4 DEF CheckStarted
    <3>2. pc' \in {[pc EXCEPT ![a] = "idle"], [pc EXCEPT ![a] = "create"]}
          /\ adding' \in {adding, [adding EXCEPT ![a] = "nothing"]}
          /\ UNCHANGED <<phase, started, handle, stopped, outrun, data>>
      BY <2>4 DEF CheckStarted, Goto
    <3> QED  BY <3>1, <3>2
  <2>5. ASSUME NEW a \in Apps, Create(a)
        PROVE  TypeInv'
    BY <2>5 DEF Create
  <2>6. ASSUME NEW a \in Apps, Assign(a)
        PROVE  TypeInv'
    BY <2>6 DEF Assign, Goto
  <2>7. ASSUME NEW a \in Apps, Free(a)
        PROVE  TypeInv'
    BY <2>7 DEF Free, Goto
  <2>8. ASSUME NEW a \in Apps, FreeStarted(a)
        PROVE  TypeInv'
    BY <2>8 DEF FreeStarted, Goto
  <2>9. ASSUME NEW a \in Apps, Join(a)
        PROVE  TypeInv'
    BY <2>9 DEF Join, Goto
  <2>10. ASSUME NEW w \in Workers, Begin(w)
        PROVE  TypeInv'
    BY <2>10 DEF Begin, Goto
  <2>11. ASSUME NEW w \in Workers, Elapse(w)
        PROVE  TypeInv'
    BY <2>11 DEF Elapse, Goto
  <2>12. ASSUME NEW w \in Workers, Woken(w)
        PROVE  TypeInv'
    BY <2>12 DEF Woken, Goto
  <2>13. ASSUME NEW w \in Workers, SnapshotFlags(w)
        PROVE  TypeInv'
    <3>1. Printed(holds["flag"]) \in Texts /\ holds["flag"] \in Contents["flag"]
      BY DocumentsAre DEF Kinds
    <3>2. /\ pc[w] = "flag" /\ pc' = [pc EXCEPT ![w] = "property"]
          /\ snapshot' = [snapshot EXCEPT ![w]["flag"] = Printed(holds["flag"])]
          /\ dirty' = dirty \ {"flag"} /\ missed' = missed \ {"flag"}
          /\ UNCHANGED <<adding, phase, started, handle, stopped, outrun, holds, known, reported>>
      BY <2>13 DEF SnapshotFlags, Snapshot, Goto
    <3>3. snapshot' \in [Workers -> [Kinds -> Texts \cup {Nothing}]]
          /\ snapshot'[w]["flag"] = Printed(holds["flag"])
          /\ \A v \in Workers \ {w} : snapshot'[v] = snapshot[v]
      BY <3>1, <3>2 DEF Kinds
    <3> QED  BY <3>1, <3>2, <3>3
  <2>14. ASSUME NEW w \in Workers, SnapshotProperties(w)
        PROVE  TypeInv'
    <3>1. Printed(holds["property"]) \in Texts /\ holds["property"] \in Contents["property"]
      BY DocumentsAre DEF Kinds
    <3>2. /\ pc[w] = "property" /\ pc' = [pc EXCEPT ![w] = "CDN"]
          /\ snapshot' = [snapshot EXCEPT ![w]["property"] = Printed(holds["property"])]
          /\ dirty' = dirty \ {"property"} /\ missed' = missed \ {"property"}
          /\ UNCHANGED <<adding, phase, started, handle, stopped, outrun, holds, known, reported>>
      BY <2>14 DEF SnapshotProperties, Snapshot, Goto
    <3>3. /\ snapshot' \in [Workers -> [Kinds -> Texts \cup {Nothing}]]
          /\ snapshot'[w]["property"] = Printed(holds["property"])
          /\ snapshot'[w]["flag"] = snapshot[w]["flag"]
          /\ \A v \in Workers \ {w} : snapshot'[v] = snapshot[v]
      BY <3>1, <3>2 DEF Kinds
    <3>4. \A k \in Kinds : \E c \in Contents[k] : snapshot'[w][k] = Printed(c)
      BY <3>1, <3>2, <3>3 DEF Kinds
    <3>5. snapshot'[w] \in Documents
      BY <3>3, <3>4, DocumentsAre
    <3> QED  BY <3>2, <3>3, <3>5
  <2>15. ASSUME NEW w \in Workers, CdnReplies(w)
        PROVE  TypeInv'
    <3>1. snapshot[w] \in Documents /\ pc[w] = "CDN"
      BY <2>15 DEF CdnReplies
    <3>2. CASE Goto(w, "API")
               /\ UNCHANGED <<adding, phase, started, handle, stopped, dirty, missed, outrun, data>>
      BY <3>1, <3>2 DEF Goto
    <3>3. ASSUME NEW ok \in BOOLEAN, SendEnds(w, ok), known' = known
          PROVE  TypeInv'
      BY <3>1, <3>3, DocumentsAre DEF SendEnds, Goto
    <3> QED  BY <2>15, <3>2, <3>3 DEF CdnReplies
  <2>16. ASSUME NEW w \in Workers, ApiReplies(w)
        PROVE  TypeInv'
    <3>1. snapshot[w] \in Documents /\ pc[w] = "API"
      BY <2>16 DEF ApiReplies
    <3>2. ASSUME NEW ok \in BOOLEAN, SendEnds(w, ok), known' \subseteq {Report(d) : d \in Documents}
          PROVE  TypeInv'
      BY <3>1, <3>2, DocumentsAre DEF SendEnds, Goto
    <3>3. Keep(snapshot[w]) => known' \subseteq {Report(d) : d \in Documents}
      BY <3>1 DEF Keep
    <3> QED  BY <2>16, <3>2, <3>3 DEF ApiReplies
  <2>17. ASSUME NEW w \in Workers, Clear(w)
        PROVE  TypeInv'
    BY <2>17 DEF Clear, Goto
  <2>18. ASSUME NEW w \in Workers, Detach(w)
        PROVE  TypeInv'
    BY <2>18 DEF Detach, Goto
  <2>19. ASSUME NEW w \in Workers, Cancelled(w)
        PROVE  TypeInv'
    BY <2>19, DocumentsAre DEF Cancelled, Goto
  <2>20. CASE UNCHANGED vars
    BY <2>20 DEF vars
  <2> QED
    BY <2>1, <2>2, <2>3, <2>4, <2>5, <2>6, <2>7, <2>8, <2>9, <2>10,
       <2>11, <2>12, <2>13, <2>14, <2>15, <2>16, <2>17, <2>18, <2>19, <2>20
       DEF Next, Application, Worker
<1> QED  BY <1>1, <1>2, PTL DEF Spec

-----------------------------------------------------------------------------
\* Nobody is in a call when the debouncer is gone.
LEMMA PhaseKept ==
  ASSUME OneThread, Inv, TypeInv', [Next]_vars
  PROVE  PhaseInv'
<1> USE StateSenderAssumption DEF Inv, TypeInv, TypeOK, AppSteps, WorkerSteps, data, OneThread, PhaseInv
<1>1. ASSUME NEW a \in Apps, Setup(a)
      PROVE  PhaseInv'
  BY <1>1 DEF Setup, Debounce, Goto
<1>2. ASSUME NEW a \in Apps, NEW k \in Kinds, Register(a, k)
      PROVE  PhaseInv'
  BY <1>2 DEF Register, Enters
<1>3. ASSUME NEW a \in Apps, NEW k \in Kinds, Add(a, k)
      PROVE  PhaseInv'
  BY <1>3 DEF Add, Enters, Debounce, Goto
<1>4. ASSUME NEW a \in Apps, CheckStarted(a)
      PROVE  PhaseInv'
  BY <1>4 DEF CheckStarted, Goto
<1>5. ASSUME NEW a \in Apps, Create(a)
      PROVE  PhaseInv'
  BY <1>5 DEF Create
<1>6. ASSUME NEW a \in Apps, Assign(a)
      PROVE  PhaseInv'
  BY <1>6 DEF Assign, Goto
<1>7. ASSUME NEW a \in Apps, Free(a)
      PROVE  PhaseInv'
  BY <1>7 DEF Free, Goto
<1>8. ASSUME NEW a \in Apps, FreeStarted(a)
      PROVE  PhaseInv'
  BY <1>8 DEF FreeStarted, Goto
<1>9. ASSUME NEW a \in Apps, Join(a)
      PROVE  PhaseInv'
  BY <1>9 DEF Join, Goto
<1>10. ASSUME NEW w \in Workers, Begin(w)
      PROVE  PhaseInv'
  BY <1>10 DEF Begin, Goto
<1>11. ASSUME NEW w \in Workers, Elapse(w)
      PROVE  PhaseInv'
  BY <1>11 DEF Elapse, Goto
<1>12. ASSUME NEW w \in Workers, Woken(w)
      PROVE  PhaseInv'
  BY <1>12 DEF Woken, Goto
<1>13. ASSUME NEW w \in Workers, SnapshotFlags(w)
      PROVE  PhaseInv'
  BY <1>13 DEF SnapshotFlags, Snapshot, Goto
<1>14. ASSUME NEW w \in Workers, SnapshotProperties(w)
      PROVE  PhaseInv'
  BY <1>14 DEF SnapshotProperties, Snapshot, Goto
<1>15. ASSUME NEW w \in Workers, CdnReplies(w)
      PROVE  PhaseInv'
  BY <1>15 DEF CdnReplies, SendEnds, Goto
<1>16. ASSUME NEW w \in Workers, ApiReplies(w)
      PROVE  PhaseInv'
  BY <1>16 DEF ApiReplies, SendEnds, Keep, Goto
<1>17. ASSUME NEW w \in Workers, Clear(w)
      PROVE  PhaseInv'
  BY <1>17 DEF Clear, Goto
<1>18. ASSUME NEW w \in Workers, Detach(w)
      PROVE  PhaseInv'
  BY <1>18 DEF Detach, Goto
<1>19. ASSUME NEW w \in Workers, Cancelled(w)
      PROVE  PhaseInv'
  BY <1>19 DEF Cancelled, Goto
<1>20. CASE UNCHANGED vars
  BY <1>20 DEF vars
<1> QED
  BY <1>1, <1>2, <1>3, <1>4, <1>5, <1>6, <1>7, <1>8, <1>9, <1>10,
     <1>11, <1>12, <1>13, <1>14, <1>15, <1>16, <1>17, <1>18, <1>19, <1>20
     DEF Next, Application, Worker

-----------------------------------------------------------------------------
\* A thread is created where there is none.
LEMMA SenderKept ==
  ASSUME OneThread, Inv, TypeInv', [Next]_vars
  PROVE  SenderInv'
<1> USE StateSenderAssumption DEF Inv, TypeInv, TypeOK, AppSteps, WorkerSteps, data, OneThread, PhaseInv, SenderInv, Active
<1>1. ASSUME NEW a \in Apps, Setup(a)
      PROVE  SenderInv'
  BY <1>1 DEF Setup, Debounce, Goto
<1>2. ASSUME NEW a \in Apps, NEW k \in Kinds, Register(a, k)
      PROVE  SenderInv'
  BY <1>2 DEF Register, Enters
<1>3. ASSUME NEW a \in Apps, NEW k \in Kinds, Add(a, k)
      PROVE  SenderInv'
  BY <1>3 DEF Add, Enters, Debounce, Goto
<1>4. ASSUME NEW a \in Apps, CheckStarted(a)
      PROVE  SenderInv'
  BY <1>4 DEF CheckStarted, Goto
<1>5. ASSUME NEW a \in Apps, Create(a)
      PROVE  SenderInv'
  BY <1>5 DEF Create
<1>6. ASSUME NEW a \in Apps, Assign(a)
      PROVE  SenderInv'
  BY <1>6 DEF Assign, Goto
<1>7. ASSUME NEW a \in Apps, Free(a)
      PROVE  SenderInv'
  BY <1>7 DEF Free, Goto
<1>8. ASSUME NEW a \in Apps, FreeStarted(a)
      PROVE  SenderInv'
  BY <1>8 DEF FreeStarted, Goto
<1>9. ASSUME NEW a \in Apps, Join(a)
      PROVE  SenderInv'
  BY <1>9 DEF Join, Goto
<1>10. ASSUME NEW w \in Workers, Begin(w)
      PROVE  SenderInv'
  BY <1>10 DEF Begin, Goto
<1>11. ASSUME NEW w \in Workers, Elapse(w)
      PROVE  SenderInv'
  BY <1>11 DEF Elapse, Goto
<1>12. ASSUME NEW w \in Workers, Woken(w)
      PROVE  SenderInv'
  BY <1>12 DEF Woken, Goto
<1>13. ASSUME NEW w \in Workers, SnapshotFlags(w)
      PROVE  SenderInv'
  BY <1>13 DEF SnapshotFlags, Snapshot, Goto
<1>14. ASSUME NEW w \in Workers, SnapshotProperties(w)
      PROVE  SenderInv'
  BY <1>14 DEF SnapshotProperties, Snapshot, Goto
<1>15. ASSUME NEW w \in Workers, CdnReplies(w)
      PROVE  SenderInv'
  BY <1>15 DEF CdnReplies, SendEnds, Goto
<1>16. ASSUME NEW w \in Workers, ApiReplies(w)
      PROVE  SenderInv'
  BY <1>16 DEF ApiReplies, SendEnds, Keep, Goto
<1>17. ASSUME NEW w \in Workers, Clear(w)
      PROVE  SenderInv'
  BY <1>17 DEF Clear, Goto
<1>18. ASSUME NEW w \in Workers, Detach(w)
      PROVE  SenderInv'
  BY <1>18 DEF Detach, Goto
<1>19. ASSUME NEW w \in Workers, Cancelled(w)
      PROVE  SenderInv'
  BY <1>19 DEF Cancelled, Goto
<1>20. CASE UNCHANGED vars
  BY <1>20 DEF vars
<1> QED
  BY <1>1, <1>2, <1>3, <1>4, <1>5, <1>6, <1>7, <1>8, <1>9, <1>10,
     <1>11, <1>12, <1>13, <1>14, <1>15, <1>16, <1>17, <1>18, <1>19, <1>20
     DEF Next, Application, Worker

-----------------------------------------------------------------------------
\* Who sends, or is about to, sends alone.
LEMMA OnlySender ==
  ASSUME Inv, NEW w \in Workers, Active(w), NEW loc, Goto(w, loc)
  PROVE  \A v \in Workers \ {w} : pc'[v] \notin Sending
<1>1. \A v \in Workers \ {w} : pc[v] \notin Sending
  BY DEF Inv, SenderInv, Active, Sending
<1>2. \A v \in Workers \ {w} : pc'[v] = pc[v]
  BY DEF Inv, TypeInv, TypeOK, Goto
<1> QED
  BY <1>1, <1>2

\* What has been sent and not been touched since is known.
LEMMA ReportKept ==
  ASSUME OneThread, Inv, TypeInv', [Next]_vars
  PROVE  ReportInv'
<1> USE StateSenderAssumption DEF Inv, TypeInv, TypeOK, AppSteps, WorkerSteps, data, OneThread, PhaseInv, SenderInv, Active, Sending,
        ReportInv
<1>1. ASSUME NEW a \in Apps, Setup(a)
      PROVE  ReportInv'
  BY <1>1 DEF Setup, Debounce, Goto
<1>2. ASSUME NEW a \in Apps, NEW k \in Kinds, Register(a, k)
      PROVE  ReportInv'
  BY <1>2 DEF Register, Enters
<1>3. ASSUME NEW a \in Apps, NEW k \in Kinds, Add(a, k)
      PROVE  ReportInv'
  BY <1>3 DEF Add, Enters, Debounce, Goto
<1>4. ASSUME NEW a \in Apps, CheckStarted(a)
      PROVE  ReportInv'
  BY <1>4 DEF CheckStarted, Goto
<1>5. ASSUME NEW a \in Apps, Create(a)
      PROVE  ReportInv'
  BY <1>5 DEF Create
<1>6. ASSUME NEW a \in Apps, Assign(a)
      PROVE  ReportInv'
  BY <1>6 DEF Assign, Goto
<1>7. ASSUME NEW a \in Apps, Free(a)
      PROVE  ReportInv'
  BY <1>7 DEF Free, Goto
<1>8. ASSUME NEW a \in Apps, FreeStarted(a)
      PROVE  ReportInv'
  BY <1>8 DEF FreeStarted, Goto
<1>9. ASSUME NEW a \in Apps, Join(a)
      PROVE  ReportInv'
  BY <1>9 DEF Join, Goto
<1>10. ASSUME NEW w \in Workers, Begin(w)
      PROVE  ReportInv'
  BY <1>10 DEF Begin, Goto
<1>11. ASSUME NEW w \in Workers, Elapse(w)
      PROVE  ReportInv'
  BY <1>11 DEF Elapse, Goto
<1>12. ASSUME NEW w \in Workers, Woken(w)
      PROVE  ReportInv'
  BY <1>12 DEF Woken, Goto
<1>13. ASSUME NEW w \in Workers, SnapshotFlags(w)
      PROVE  ReportInv'
  <2>1. /\ pc[w] = "flag" /\ pc' = [pc EXCEPT ![w] = "property"]
        /\ snapshot' = [snapshot EXCEPT ![w]["flag"] = Printed(holds["flag"])]
        /\ UNCHANGED <<holds, known, reported>>
    BY <1>13 DEF SnapshotFlags, Snapshot, Goto
  <2>2. \A v \in Workers \ {w} : pc'[v] \notin Sending
    <3>1. Active(w)
      BY <2>1
    <3>2. Goto(w, "property")
      BY <2>1 DEF Goto
    <3> HIDE DEF Inv, Active, Sending
    <3> QED  BY <3>1, <3>2, OnlySender
  <2>3. pc'[w] = "property" /\ snapshot'[w]["flag"] = Printed(holds["flag"])
    BY <2>1
  <2>4. \A v \in Workers : \A k \in Kinds \ dirty' :
          pc'[v] \in {"CDN", "API"} \/ (pc'[v] = "property" /\ k = "flag")
            => snapshot'[v][k] = Printed(holds[k])
    BY <2>2, <2>3
  <2>5. reported' # Unread => Report(reported') \in known'
    BY <2>1
  <2> QED  BY <2>1, <2>3, <2>4, <2>5
<1>14. ASSUME NEW w \in Workers, SnapshotProperties(w)
      PROVE  ReportInv'
  <2>1. /\ pc[w] = "property" /\ pc' = [pc EXCEPT ![w] = "CDN"]
        /\ snapshot' = [snapshot EXCEPT ![w]["property"] = Printed(holds["property"])]
        /\ dirty' = dirty \ {"property"}
        /\ UNCHANGED <<holds, known, reported>>
    BY <1>14 DEF SnapshotProperties, Snapshot, Goto
  <2>2. \A v \in Workers \ {w} : pc'[v] \notin Sending
    <3>1. Active(w)
      BY <2>1
    <3>2. Goto(w, "CDN")
      BY <2>1 DEF Goto
    <3> HIDE DEF Inv, Active, Sending
    <3> QED  BY <3>1, <3>2, OnlySender
  <2>3. pc'[w] = "CDN" /\ snapshot'[w]["property"] = Printed(holds["property"])
        /\ snapshot'[w]["flag"] = snapshot[w]["flag"]
    BY <2>1
  <2>4. "flag" \notin dirty' => snapshot'[w]["flag"] = Printed(holds["flag"])
    BY <2>1, <2>3 DEF Kinds
  <2>5. \A v \in Workers : \A k \in Kinds \ dirty' :
          pc'[v] \in {"CDN", "API"} \/ (pc'[v] = "property" /\ k = "flag")
            => snapshot'[v][k] = Printed(holds[k])
    BY <2>2, <2>3, <2>4 DEF Kinds
  <2>6. reported' # Unread => Report(reported') \in known'
    BY <2>1
  <2> QED  BY <2>1, <2>3, <2>5, <2>6
<1>15. ASSUME NEW w \in Workers, CdnReplies(w)
      PROVE  ReportInv'
  <2>1. snapshot[w] \in Documents /\ pc[w] = "CDN"
    BY <1>15 DEF CdnReplies
  <2>2. CASE SendEnds(w, TRUE) /\ known' = known /\ \E r \in known : r.path = Path(snapshot[w])
    <3>1. Report(snapshot[w]) \in known
      BY <2>1, <2>2, FoundIsReport
    <3> QED  BY <2>1, <2>2, <3>1 DEF SendEnds, Goto
  <2>3. CASE SendEnds(w, FALSE) /\ known' = known
    BY <2>1, <2>3 DEF SendEnds, Goto
  <2>4. CASE Goto(w, "API")
             /\ UNCHANGED <<adding, phase, started, handle, stopped, dirty, missed, outrun, data>>
    BY <2>1, <2>4 DEF Goto
  <2> QED  BY <1>15, <2>2, <2>3, <2>4 DEF CdnReplies
<1>16. ASSUME NEW w \in Workers, ApiReplies(w)
      PROVE  ReportInv'
  <2>1. snapshot[w] \in Documents /\ pc[w] = "API"
    BY <1>16 DEF ApiReplies
  <2>2. ASSUME NEW ok \in BOOLEAN, SendEnds(w, ok), Keep(snapshot[w])
        PROVE  ReportInv'
    <3>1. Report(snapshot[w]) \in known'
      BY <2>2 DEF Keep
    <3> QED  BY <2>1, <2>2, <3>1 DEF SendEnds, Goto
  <2>3. CASE SendEnds(w, FALSE) /\ known' = known
    BY <2>1, <2>3 DEF SendEnds, Goto
  <2> HIDE DEF ReportInv
  <2> QED  BY <1>16, <2>2, <2>3 DEF ApiReplies
<1>17. ASSUME NEW w \in Workers, Clear(w)
      PROVE  ReportInv'
  BY <1>17 DEF Clear, Goto
<1>18. ASSUME NEW w \in Workers, Detach(w)
      PROVE  ReportInv'
  BY <1>18 DEF Detach, Goto
<1>19. ASSUME NEW w \in Workers, Cancelled(w)
      PROVE  ReportInv'
  BY <1>19 DEF Cancelled, Goto
<1>20. CASE UNCHANGED vars
  BY <1>20 DEF vars
<1> QED
  BY <1>1, <1>2, <1>3, <1>4, <1>5, <1>6, <1>7, <1>8, <1>9, <1>10,
     <1>11, <1>12, <1>13, <1>14, <1>15, <1>16, <1>17, <1>18, <1>19, <1>20
     DEF Next, Application, Worker

-----------------------------------------------------------------------------
\* The inductive invariant: who is in which call, who sends, and what the servers
\* know of it.
THEOREM InvariantHolds == OneThread => (Spec => []Inv)
<1> SUFFICES ASSUME OneThread
             PROVE  Spec => []Inv
  OBVIOUS
<1> DEFINE Rest == PhaseInv /\ SenderInv /\ ReportInv
<1>1. Init => Rest
  BY StateSenderAssumption
     DEF Init, NewDebouncer, PhaseInv, SenderInv, ReportInv, Active, Sending
<1>2. Inv /\ TypeInv' /\ [Next]_vars => Rest'
  BY PhaseKept, SenderKept, ReportKept
<1>3. TypeInv /\ Rest <=> Inv
  BY DEF Inv
<1> QED  BY <1>1, <1>2, <1>3, TypeInvHolds, PTL DEF Spec

\* The types of the variables.
THEOREM TypeCorrect == Spec => []TypeOK
<1>1. TypeInv => TypeOK
  BY DEF TypeInv
<1> QED  BY <1>1, TypeInvHolds, PTL

\* There is at most one sender.
THEOREM AtMostOneSender == OneThread => (Spec => []OneSender)
<1> SUFFICES ASSUME OneThread
             PROVE  Spec => []OneSender
  OBVIOUS
<1>1. Inv => OneSender
  <2> SUFFICES ASSUME Inv
               PROVE  OneSender
    OBVIOUS
  <2> DEFINE Senders == {w \in Workers : pc[w] \notin {"none", "detach"}}
  <2>1. Senders = {} \/ Senders = {handle}
    BY DEF Inv, SenderInv, Active
  <2>2. Cardinality(Senders) \in {0, 1}
    BY <2>1, FS_EmptySet, FS_Singleton
  <2> QED  BY <2>2 DEF OneSender
<1> QED  BY <1>1, InvariantHolds, PTL

\* There is none when the debouncer has been freed.
THEOREM NoneAfterFree == OneThread => (Spec => []NoSenderAfterFree)
<1> SUFFICES ASSUME OneThread
             PROVE  Spec => []NoSenderAfterFree
  OBVIOUS
<1>1. Inv => NoSenderAfterFree
  BY DEF Inv, SenderInv, Active, NoSenderAfterFree
<1> QED  BY <1>1, InvariantHolds, PTL

\* What is settled is known to the servers.
THEOREM ServersKnow == OneThread => (Spec => []SettledIsKnown)
<1> SUFFICES ASSUME OneThread
             PROVE  Spec => []SettledIsKnown
  OBVIOUS
<1>1. Inv => SettledIsKnown
  <2> SUFFICES ASSUME Inv, phase = "up" /\ dirty = {} /\ reported # Unread,
                      \A w \in Workers : pc[w] \notin {"property", "CDN", "API"}
               PROVE  \E r \in known : /\ r.path = Path(Document(holds))
                                       /\ BodyFits(Document(holds)) => r.body = holds
    BY Zenon DEF SettledIsKnown
  <2>1. reported \in Documents /\ holds \in Repositories
    BY DEF Inv, TypeInv, TypeOK
  <2>2. \A k \in Kinds : reported[k] = Printed(holds[k])
    BY DEF Inv, ReportInv, Sending
  <2>3. reported = Document(holds)
    BY <2>1, <2>2, DocumentsAre DEF Document
  <2>4. Report(reported) \in known /\ Report(reported).path = Path(Document(holds))
        /\ Report(reported).body = Body(Document(holds))
    BY <2>1, <2>3, PathTellsReport DEF Inv, ReportInv
  <2>5. BodyFits(Document(holds)) => Body(Document(holds)) = holds
    BY <2>1, WholeBody DEF Body
  <2> QED  BY <2>4, <2>5
<1> QED  BY <1>1, InvariantHolds, PTL
=============================================================================
