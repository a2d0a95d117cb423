----------------------------- MODULE EventSource ------------------------------
(***************************************************************************)
(* The parser of the push server's event stream: what curl delivers, chunk *)
(* by chunk, to the write callback of a reader that is not stopped, read   *)
(* character by character, up to the events the listener's handlers hear.  *)
(* A name on the wire is its first character and the rest of it, a value   *)
(* is one character: what the parser loses or confuses is the beginning of *)
(* a line.                                                                 *)
(***************************************************************************)
EXTENDS Naturals, FiniteSets, SequencesExt

CONSTANTS
  Messages,   \* what the server may send: sequences of fields
  Numerals,   \* the values that are integers other than 0
  Null,       \* no string
  MaxSent     \* bound: messages sent

FieldNames == {"event", "data", "id", "retry", "comment"}
Field == [name : FieldNames, value : STRING]

\* What a server sends: no value is one of the signs that cut a stream into
\* lines and fields, a message has at most one event and one id, and a comment
\* keeps the connection alive and says nothing else.
Signs == {"CR", "LF", "SP", ":"}
WellFormed(m) ==
  /\ \A i \in DOMAIN m : m[i].value \notin Signs
  /\ \A i, j \in DOMAIN m :
       m[i].name = m[j].name /\ m[i].name \in {"event", "id"} => i = j
  /\ (\E i \in DOMAIN m : m[i].name = "comment") => Len(m) = 1

ASSUME EventSourceAssumption ==
  /\ MaxSent \in Nat
  /\ \A m \in Messages : m \in Seq(Field) /\ WellFormed(m)
  /\ Null \notin Seq(STRING)

VARIABLES
  crlf,         \* does the server end its lines with \r\n?
  sent,         \* the messages the server sent
  stream,       \* their characters
  ends,         \* where each of them ends in the stream
  from, to,     \* the chunk curl delivered: stream[from + 1] to stream[to]
  at,           \* the character being read
  state,        \* fsm->state
  event,        \* fsm->event, or Null
  message,      \* fsm->message: its lines
  id,           \* fsm->id, or Null
  nameStart, nameEnd, valueStart, valueEnd,   \* the fsm's indexes
  timeout,      \* reader->reconnect_timeout_millis
  fired,        \* the events fired so far
  firedBefore,  \* how many of them before this chunk
  aborted       \* an assertion failed

streamVars == <<crlf, sent, stream, ends>>
chunkVars  == <<from, to, firedBefore>>
indexVars  == <<nameStart, nameEnd, valueStart, valueEnd>>
fieldVars  == <<event, message, id>>
vars == <<streamVars, chunkVars, at, state, indexVars, fieldVars,
          timeout, fired, aborted>>

DefaultTimeout == "default"

-----------------------------------------------------------------------------
(***************************************************************************)
(* The wire.                                                               *)
(***************************************************************************)
Spelling(name) ==
  CASE name = "event" -> <<"e", "vent">>
    [] name = "data"  -> <<"d", "ata">>
    [] name = "id"    -> <<"i", "d">>
    [] name = "retry" -> <<"r", "etry">>
    [] name = "comment" -> <<>>

LineEnd == IF crlf THEN <<"CR", "LF">> ELSE <<"LF">>

Line(field) == Spelling(field.name) \o <<":", "SP", field.value>> \o LineEnd

\* The first i lines of a message.
Lines(m) ==
  LET text[i \in 0 .. Len(m)] == IF i = 0 THEN <<>> ELSE text[i - 1] \o Line(m[i])
  IN text

\* A message and the blank line behind it.
Characters(m) == Lines(m)[Len(m)] \o LineEnd

Init ==
  /\ crlf \in BOOLEAN
  /\ sent = <<>> /\ stream = <<>> /\ ends = <<>>
  /\ from = 0 /\ to = 0 /\ firedBefore = 0
  /\ at = 1
  /\ state = "initial"
  /\ event = Null /\ message = <<>> /\ id = Null
  /\ nameStart = 1 /\ nameEnd = 1 /\ valueStart = 1 /\ valueEnd = 1
  /\ timeout = DefaultTimeout
  /\ fired = <<>>
  /\ aborted = FALSE

Reading == at <= to
c == stream[at]

Send(m) ==
  /\ ~Reading /\ ~aborted
  /\ Len(sent) < MaxSent
  /\ sent' = Append(sent, m)
  /\ stream' = stream \o Characters(m)
  /\ ends' = Append(ends, Len(stream'))
  /\ UNCHANGED <<crlf, chunkVars, at, state, indexVars, fieldVars, timeout, fired, aborted>>

\* The data of the message just dispatched is left in place.
ResetKeepsData(index) ==
  /\ event' = Null /\ id' = Null /\ UNCHANGED message
  /\ nameStart' = index /\ nameEnd' = index
  /\ valueStart' = index /\ valueEnd' = index
  /\ state' = "initial"

\* _event_source_reader_reset_state.
Reset(index) ==
  /\ event' = Null /\ message' = <<>> /\ id' = Null
  /\ nameStart' = index /\ nameEnd' = index
  /\ valueStart' = index /\ valueEnd' = index
  /\ state' = "initial"

\* The write callback gets what has arrived up to the end of the chunk.  A
\* chunk that begins with a colon is taken for a comment as a whole.
Deliver(end) ==
  /\ ~Reading /\ ~aborted
  /\ from' = to /\ to' = end
  /\ firedBefore' = Len(fired)
  /\ at' = IF stream[to + 1] = ":" THEN end + 1 ELSE to + 1
  /\ Reset(to + 1)
  /\ UNCHANGED <<streamVars, timeout, fired, aborted>>

-----------------------------------------------------------------------------
(***************************************************************************)
(* _event_source_reader_update_state, one character after another.         *)
(***************************************************************************)
Step(now, then, next) ==
  /\ Reading /\ ~aborted
  /\ state = now /\ state' = then
  /\ at' = next
  /\ UNCHANGED <<streamVars, chunkVars>>

\* The state machine is not reset.
BlankKeepsFields ==
  /\ Reading /\ ~aborted
  /\ state = "initial" /\ c = "LF"
  /\ fired' = IF event = Null THEN fired
              ELSE Append(fired, [event |-> event, data |-> message])
  /\ at' = at + 2
  /\ UNCHANGED <<streamVars, chunkVars, state, indexVars, fieldVars, timeout, aborted>>

\* A blank line: the message is dispatched, and the state machine reset for
\* the character after the next one.
Blank ==
  /\ Reading /\ ~aborted
  /\ state = "initial" /\ c = "LF"
  /\ fired' = IF event = Null THEN fired
              ELSE Append(fired, [event |-> event, data |-> message])
  /\ at' = at + 2
  /\ Reset(at + 1)
  /\ UNCHANGED <<streamVars, chunkVars, timeout, aborted>>

SkipCarriageReturn ==
  /\ Step("initial", "initial", at + 1)
  /\ c = "CR"
  /\ UNCHANGED <<indexVars, fieldVars, timeout, fired, aborted>>

StartName ==
  /\ Step("initial", "name", at)
  /\ c \notin {"LF", "CR"}
  /\ nameStart' = at
  /\ UNCHANGED <<nameEnd, valueStart, valueEnd, fieldVars, timeout, fired, aborted>>

EndName ==
  /\ Step("name", "space", at + 1)
  /\ c = ":"
  /\ nameEnd' = at
  /\ UNCHANGED <<nameStart, valueStart, valueEnd, fieldVars, timeout, fired, aborted>>

\* Everything up to a colon, line ends included, is part of the name.
ContinueName ==
  /\ Step("name", "name", at + 1)
  /\ c # ":"
  /\ UNCHANGED <<indexVars, fieldVars, timeout, fired, aborted>>

SkipSpace ==
  /\ Step("space", "space", at + 1)
  /\ c = "SP"
  /\ UNCHANGED <<indexVars, fieldVars, timeout, fired, aborted>>

StartValue ==
  /\ Step("space", "value", at)
  /\ c # "SP"
  /\ valueStart' = at
  /\ UNCHANGED <<nameStart, nameEnd, valueEnd, fieldVars, timeout, fired, aborted>>

\* The carriage return is taken for a character of the value.
EndValueBehindCarriageReturn ==
  /\ Step("value", "value", at + 1)
  /\ c = "CR"
  /\ valueEnd' = at + 1
  /\ UNCHANGED <<nameStart, nameEnd, valueStart, fieldVars, timeout, fired, aborted>>

EndValueAtCarriageReturn ==
  /\ Step("value", "value", at + 1)
  /\ c = "CR"
  /\ valueEnd' = at
  /\ UNCHANGED <<nameStart, nameEnd, valueStart, fieldVars, timeout, fired, aborted>>

ContinueValue ==
  /\ Step("value", "value", at + 1)
  /\ c \notin {"LF", "CR"}
  /\ UNCHANGED <<indexVars, fieldVars, timeout, fired, aborted>>

\* str_eq_n compares as many characters as the name has: the name may be any
\* beginning of the one it is compared with.
IsNamed(name) == IsPrefix(SubSeq(stream, nameStart, nameEnd - 1), Spelling(name))

\* _event_source_reader_message_read.
ReadField(value) ==
  IF IsNamed("event")
  THEN /\ IF event = Null THEN event' = value /\ UNCHANGED aborted
                          ELSE aborted' = TRUE /\ UNCHANGED event
       /\ UNCHANGED <<message, id, timeout>>
  ELSE IF IsNamed("data")
  THEN message' = Append(message, value) /\ UNCHANGED <<event, id, timeout, aborted>>
  ELSE IF IsNamed("id")
  THEN /\ IF id = Null THEN id' = value /\ UNCHANGED aborted
                       ELSE aborted' = TRUE /\ UNCHANGED id
       /\ UNCHANGED <<event, message, timeout>>
  ELSE /\ timeout' = IF IsNamed("retry") /\ Len(value) = 1 /\ value[1] \in Numerals
                     THEN value[1] ELSE timeout
       /\ UNCHANGED <<event, message, id, aborted>>

EndValue ==
  /\ Step("value", "initial", at + 1)
  /\ c = "LF"
  /\ valueEnd' = IF valueEnd < valueStart THEN at ELSE valueEnd
  /\ ReadField(SubSeq(stream, valueStart, valueEnd' - 1))
  /\ UNCHANGED <<nameStart, nameEnd, valueStart, fired>>

Next ==
  \/ \E m \in Messages : Send(m)
  \/ \E end \in to + 1 .. Len(stream) : Deliver(end)
  \/ Blank \/ SkipCarriageReturn \/ StartName \/ EndName \/ ContinueName
  \/ SkipSpace \/ StartValue
  \/ EndValueAtCarriageReturn \/ ContinueValue \/ EndValue

Spec == Init /\ [][Next]_vars

-----------------------------------------------------------------------------
(***************************************************************************)
(* Properties.                                                             *)
(***************************************************************************)
\* The data of a message in the lines behind the s-th, up to the i-th.
DataBehind(m, s) ==
  LET data[i \in s .. Len(m)] ==
        IF i = s THEN <<>>
        ELSE IF m[i].name = "data" THEN Append(data[i - 1], <<m[i].value>>)
        ELSE data[i - 1]
  IN data

Data(m, s) == DataBehind(m, s)[Len(m)]

\* The event that a field of the message names, with all of the message's data.
Events(m) ==
  {[event |-> <<m[i].value>>, data |-> Data(m, 0)] :
     i \in {j \in DOMAIN m : m[j].name = "event"}}

\* Is the chunk exactly the messages from the j-th to the k-th?
ChunkIs(j, k) ==
  /\ to = ends[k]
  /\ from = IF j = 1 THEN 0 ELSE ends[j - 1]

FiredInChunk == SubSeq(fired, firedBefore + 1, Len(fired))

\* However the chunks before it were cut, a chunk that holds one message, with
\* whatever fields in whatever order and with either kind of line end, fires
\* the event of this message with all of its data, if it has one, and nothing else.
WholeMessageFires ==
  ~Reading =>
    \A k \in DOMAIN sent : ChunkIs(k, k) =>
      IF Events(sent[k]) = {} THEN FiredInChunk = <<>>
      ELSE \E e \in Events(sent[k]) : FiredInChunk = <<e>>

\* Is fired what the parser may make of m: its event with the last lines of
\* its data, or at worst its own id in front of those behind the id; or, since
\* a comment that is not the first line of its chunk has the empty name and the
\* empty name is a beginning of "event", the text of a comment, which no handler
\* listens to?
Tells(m, firing) ==
  \E i \in DOMAIN m :
    /\ firing.event = <<m[i].value>>
    /\ \/ /\ m[i].name = "event"
          /\ \/ \E s \in 0 .. Len(m) : firing.data = Data(m, s)
             \/ \E s \in DOMAIN m :
                  m[s].name = "id" /\ firing.data = <<<<m[s].value>>>> \o Data(m, s)
       \/ m[i].name = "comment" /\ firing.data = <<>>

\* Wherever curl cuts the stream, an event that fires is one that was sent,
\* once and in the order they were sent in, with no data of another message.
FiredWasSent ==
  \E which \in [DOMAIN fired -> DOMAIN sent] :
    /\ \A j, k \in DOMAIN fired : j < k => which[j] < which[k]
    /\ \A j \in DOMAIN fired : Tells(sent[which[j]], fired[j])

\* No well-formed stream, wherever it is cut, runs into the assertions that a
\* message has one event field and one id.
NeverAborts == ~aborted

=============================================================================
