-------------------------- MODULE EventSourceProofs ---------------------------
(***************************************************************************)
(* For any set of well-formed messages, any cut of the stream into chunks  *)
(* and either line end: the parser never aborts, fires nothing that was    *)
(* not sent, and fires the whole event of a message that comes in a chunk  *)
(* of its own.                                                             *)
(*                                                                         *)
(* The invariant speaks of a function w that says of every character of    *)
(* the stream which character of which line of which message it is         *)
(* (Layout).  The parser, which sees characters only, either knows where   *)
(* it is (Full: it read the lines behind the s-th from their beginning and *)
(* its fields say just that) or lost the beginning of a line to the cut of *)
(* a chunk (Part: it has collected nothing, and the name it reads is no    *)
(* field's but by accident).  Told says which message each event fired     *)
(* came from, Whole what is known of a chunk that is one message.          *)
(***************************************************************************)
EXTENDS EventSource, SequenceTheorems, FiniteSetTheorems, TLAPS

-----------------------------------------------------------------------------
(***************************************************************************)
(* Induction and recursion.                                                *)
(***************************************************************************)
\* Induction over the natural numbers, for what can be said with a set: a
\* smallest number outside of it would begin the smallest interval that ends
\* outside of it.
LEMMA SetInduction ==
  ASSUME NEW S, 0 \in S, \A n \in Nat : n \in S => n + 1 \in S
  PROVE  Nat \subseteq S
<1> SUFFICES ASSUME NEW k \in Nat, k \notin S
             PROVE  FALSE
  OBVIOUS
<1> DEFINE T == {0 .. n : n \in Nat \ S}
<1>1. T \subseteq FiniteSubsetsOf(Nat)
  <2> SUFFICES ASSUME NEW n \in Nat
               PROVE  0 .. n \in FiniteSubsetsOf(Nat)
    OBVIOUS
  <2>1. IsFiniteSet(0 .. n)  BY FS_Interval
  <2> QED  BY <2>1 DEF FiniteSubsetsOf
<1>2. T # {}  OBVIOUS
<1>3. IsWellFoundedOn(StrictSubsetOrdering(Nat), FiniteSubsetsOf(Nat))
  BY FS_StrictSubsetOrderingWellFounded
<1>4. PICK t \in T : \A u \in T : <<u, t>> \notin StrictSubsetOrdering(Nat)
  <2> HIDE DEF T
  <2> QED  BY <1>1, <1>2, <1>3, WFMin
<1>5. PICK n \in Nat \ S : t = 0 .. n  OBVIOUS
<1>6. n - 1 \in Nat \ S  OBVIOUS
<1>7. 0 .. n - 1 \in T  BY <1>6
<1>8. <<0 .. n - 1, t>> \in StrictSubsetOrdering(Nat)
  BY <1>5 DEF StrictSubsetOrdering
<1> QED  BY <1>4, <1>7, <1>8

\* Is f what step makes of base, from a to b?
Recurs(f, a, b, base, step) ==
  f[a] = base /\ \A i \in a + 1 .. b : f[i] = step[i][f[i - 1]]

\* The steps of a recursion over a .. b.
Steps(a, b, T) == [a .. b -> [T -> T]]

\* What is defined by recursion over an interval exists.
LEMMA Recursion ==
  ASSUME NEW a \in Nat, NEW b \in Nat, a <= b, NEW T, NEW base \in T,
         NEW step \in Steps(a, b, T)
  PROVE  \E f \in [a .. b -> T] : Recurs(f, a, b, base, step)
<1> USE DEF Steps, Recurs
<1> DEFINE Good(f, z) == Recurs(f, a, z, base, step)
           S == {n \in Nat : a + n <= b => \E f \in [a .. a + n -> T] : Good(f, a + n)}
<1>1. 0 \in S
  <2>1. [i \in a .. a + 0 |-> base] \in [a .. a + 0 -> T]  OBVIOUS
  <2>2. Good([i \in a .. a + 0 |-> base], a + 0)  OBVIOUS
  <2> QED  BY <2>1, <2>2
<1>2. ASSUME NEW n \in Nat, n \in S
      PROVE  n + 1 \in S
  <2> SUFFICES ASSUME a + (n + 1) <= b
               PROVE  \E f \in [a .. a + (n + 1) -> T] : Good(f, a + (n + 1))
    OBVIOUS
  <2> DEFINE z == a + (n + 1)
  <2>1. PICK f \in [a .. z - 1 -> T] : Good(f, z - 1)
    <3>1. a + n <= b /\ z - 1 = a + n  OBVIOUS
    <3> QED  BY <1>2, <3>1
  <2> DEFINE g == [i \in a .. z |-> IF i = z THEN step[z][f[z - 1]] ELSE f[i]]
  <2>2. z \in Nat /\ a < z /\ z <= b  OBVIOUS
  <2> HIDE DEF z
  <2>3. step[z] \in [T -> T] /\ f[z - 1] \in T  BY <2>2
  <2>4. g \in [a .. z -> T]  BY <2>2, <2>3
  <2>5. g[a] = base  BY <2>1, <2>2
  <2>6. ASSUME NEW i \in a + 1 .. z
        PROVE  g[i] = step[i][g[i - 1]]
    <3>1. g[i - 1] = f[i - 1]  BY <2>2
    <3>2. CASE i = z  BY <3>1, <3>2
    <3>3. CASE i # z
      <4>1. i \in a + 1 .. z - 1 /\ g[i] = f[i]  BY <2>2, <3>3
      <4> QED  BY <2>1, <3>1, <4>1
    <3> QED  BY <3>2, <3>3
  <2> HIDE DEF g
  <2>7. \E h \in [a .. z -> T] : Good(h, z)  BY <2>4, <2>5, <2>6
  <2> QED  BY <2>7 DEF z
<1>3. Nat \subseteq S
  <2> HIDE DEF S
  <2> QED  BY <1>1, <1>2, SetInduction
<1>4. b - a \in Nat /\ a + (b - a) = b  OBVIOUS
<1>5. b - a \in S
  <2> HIDE DEF S
  <2> QED  BY <1>3, <1>4
<1> QED  BY <1>4, <1>5

-----------------------------------------------------------------------------
(***************************************************************************)
(* The data of a message.                                                  *)
(***************************************************************************)
Texts == Seq(Seq(STRING))

\* The data behind the s-th line, line by line.
LEMMA DataLineByLine ==
  ASSUME NEW m \in Seq(Field), NEW s \in 0 .. Len(m)
  PROVE  /\ DataBehind(m, s) \in [s .. Len(m) -> Texts]
         /\ DataBehind(m, s)[s] = <<>>
         /\ \A i \in s + 1 .. Len(m) :
              DataBehind(m, s)[i] = IF m[i].name = "data"
                                    THEN Append(DataBehind(m, s)[i - 1], <<m[i].value>>)
                                    ELSE DataBehind(m, s)[i - 1]
<1> DEFINE N == Len(m)
           step == [i \in s .. N |-> [t \in Texts |->
                      IF i \in 1 .. N /\ m[i].name = "data"
                      THEN Append(t, <<m[i].value>>) ELSE t]]
           IsData(g) == g = [i \in s .. N |->
                          IF i = s THEN <<>>
                          ELSE IF m[i].name = "data" THEN Append(g[i - 1], <<m[i].value>>)
                          ELSE g[i - 1]]
<1>1. step \in Steps(s, N, Texts)
  <2> SUFFICES ASSUME NEW i \in s .. N, NEW t \in Texts, i \in 1 .. N
               PROVE  Append(t, <<m[i].value>>) \in Texts
    BY DEF Steps
  <2>1. m[i] \in Field  BY ElementOfSeq
  <2>2. m[i].value \in STRING  BY <2>1 DEF Field
  <2>3. <<m[i].value>> \in Seq(STRING)  BY <2>2
  <2> QED  BY <2>3, AppendProperties DEF Texts
<1>2. <<>> \in Texts  BY DEF Texts
<1>0. N \in Nat /\ s \in Nat /\ s <= N  OBVIOUS
<1>3. PICK f \in [s .. N -> Texts] : f[s] = <<>> /\ \A i \in s + 1 .. N : f[i] = step[i][f[i - 1]]
  <2> HIDE DEF step, N
  <2>1. PICK f \in [s .. N -> Texts] : Recurs(f, s, N, <<>>, step)
    BY <1>0, <1>1, <1>2, Recursion
  <2> QED  BY <2>1 DEF Recurs
<1>4. \A i \in s + 1 .. N : f[i] = IF m[i].name = "data" THEN Append(f[i - 1], <<m[i].value>>)
                                   ELSE f[i - 1]
  <2> TAKE i \in s + 1 .. N
  <2>1. i \in s .. N /\ i - 1 \in s .. N /\ i \in 1 .. N  OBVIOUS
  <2>2. f[i] = step[i][f[i - 1]] /\ f[i - 1] \in Texts  BY <1>3, <2>1
  <2> HIDE DEF N
  <2> QED  BY <2>1, <2>2
<1> HIDE DEF N, step
<1>5. IsData(f)
  <2>1. f = [i \in s .. N |-> f[i]]  OBVIOUS
  <2>2. \A i \in s .. N : i # s => i \in s + 1 .. N  BY <1>0
  <2> QED  BY <1>3, <1>4, <2>1, <2>2
<1>6. DataBehind(m, s) = CHOOSE g : IsData(g)
  BY DEF DataBehind, N
<1>7. IsData(DataBehind(m, s))
  <2> HIDE DEF IsData
  <2> QED  BY <1>5, <1>6
<1> DEFINE g == DataBehind(m, s)
<1>8. g[s] = <<>> /\ \A i \in s + 1 .. N : g[i] = IF m[i].name = "data"
                                                  THEN Append(g[i - 1], <<m[i].value>>) ELSE g[i - 1]
  <2>1. ASSUME NEW h, IsData(h), NEW i \in s .. N
        PROVE  h[i] = IF i = s THEN <<>>
                      ELSE IF m[i].name = "data" THEN Append(h[i - 1], <<m[i].value>>)
                      ELSE h[i - 1]
    BY <2>1
  <2>2. \A i \in s + 1 .. N : i \in s .. N /\ i # s  BY <1>0
  <2>3. s \in s .. N  BY <1>0
  <2> HIDE DEF IsData
  <2> QED  BY <1>7, <2>1, <2>2, <2>3
<1>9. \A n \in Nat : n <= N - s => g[s + n] = f[s + n]
  <2> DEFINE S == {n \in Nat : n <= N - s => g[s + n] = f[s + n]}
  <2> HIDE DEF g
  <2>1. 0 \in S  BY <1>3, <1>8
  <2>2. ASSUME NEW n \in Nat, n \in S PROVE n + 1 \in S
    <3> SUFFICES ASSUME n + 1 <= N - s PROVE g[s + (n + 1)] = f[s + (n + 1)]
      OBVIOUS
    <3> DEFINE j == s + (n + 1)
    <3>1. g[j - 1] = f[j - 1]
      <4>1. j - 1 = s + n /\ n <= N - s  BY <1>0
      <4> QED  BY <2>2, <4>1
    <3>2. j \in s + 1 .. N  BY <1>0
    <3> HIDE DEF j
    <3>3. g[j] = f[j]  BY <3>1, <3>2, <1>4, <1>8
    <3> QED  BY <3>3 DEF j
  <2>3. Nat \subseteq S
    <3> HIDE DEF S
    <3> QED  BY <2>1, <2>2, SetInduction
  <2> QED  BY <2>3
<1>10. g = f
  <2>1. \A i \in s .. N : g[i] = f[i]
    <3> TAKE i \in s .. N
    <3>1. i - s \in Nat /\ i - s <= N - s /\ s + (i - s) = i  BY <1>0
    <3> QED  BY <3>1, <1>9
  <2>2. g = [i \in s .. N |-> g[i]]
    BY <1>7
  <2> QED  BY <2>1, <2>2
<1> QED  BY <1>8, <1>10 DEF N
-----------------------------------------------------------------------------
(***************************************************************************)
(* The lines of a message.                                                 *)
(***************************************************************************)
\* What the stream consists of.
Letters == {"e", "vent", "d", "ata", "i", "r", "etry"}

\* The characters of a stream.
Alphabet == STRING \cup Signs \cup Letters

\* The sequences of one, two and three characters.
LEMMA Tuples ==
  \A x, y, z \in Alphabet :
    /\ <<x>> \in Seq(Alphabet) /\ Len(<<x>>) = 1 /\ <<x>>[1] = x
    /\ <<x, y>> \in Seq(Alphabet) /\ Len(<<x, y>>) = 2 /\ <<x, y>>[1] = x /\ <<x, y>>[2] = y
    /\ <<x, y, z>> \in Seq(Alphabet) /\ Len(<<x, y, z>>) = 3
    /\ <<x, y, z>>[1] = x /\ <<x, y, z>>[2] = y /\ <<x, y, z>>[3] = z
OBVIOUS

\* The letters of the names are characters and no signs, and the signs are characters.
LEMMA InAlphabet ==
  /\ Letters \subseteq Alphabet \ Signs
  /\ {"CR", "LF", "SP", ":"} \subseteq Alphabet
BY DEF Alphabet, Letters, Signs

\* The characters of a concatenation.
Joined(s, t, st) ==
  /\ st \in Seq(Alphabet)
  /\ Len(st) = Len(s) + Len(t)
  /\ \A i \in 1 .. Len(s) : st[i] = s[i]
  /\ \A i \in 1 .. Len(t) : st[Len(s) + i] = t[i]

\* What is known of a concatenation.
LEMMA Concatenation == \A s, t \in Seq(Alphabet) : Joined(s, t, s \o t)
BY DEF Joined

\* Every name but the comment's, which is empty, has two characters on the wire,
\* neither of them a sign.
Short(t) ==
  /\ t \in Seq(Alphabet) /\ Len(t) = 2
  /\ \A o \in 1 .. Len(t) : t[o] \in Alphabet \ Signs

\* The spelling of a name: nothing for a comment, two letters otherwise.
LEMMA Spellings ==
  ASSUME NEW n \in FieldNames
  PROVE  /\ Spelling(n) \in Seq(Alphabet)
         /\ Len(Spelling(n)) = IF n = "comment" THEN 0 ELSE 2
         /\ \A o \in 1 .. Len(Spelling(n)) : Spelling(n)[o] \in Alphabet \ Signs
<1>1. Spelling(n) = CASE n = "event" -> <<"e", "vent">> [] n = "data" -> <<"d", "ata">>
                      [] n = "id" -> <<"i", "d">> [] n = "retry" -> <<"r", "etry">>
                      [] n = "comment" -> <<>>
  BY DEF Spelling
<1>2. ASSUME NEW x \in Alphabet \ Signs, NEW y \in Alphabet \ Signs, Spelling(n) = <<x, y>>
      PROVE  Short(Spelling(n))
  <2>1. Spelling(n) \in Seq(Alphabet) /\ Len(Spelling(n)) = 2 /\ Spelling(n)[1] = x /\ Spelling(n)[2] = y
    BY <1>2, Tuples
  <2>2. ASSUME NEW o \in 1 .. 2
        PROVE  Spelling(n)[o] \in Alphabet \ Signs
    <3>1. o = 1 \/ o = 2  OBVIOUS
    <3>2. CASE o = 1  BY <2>1, <3>2
    <3>3. CASE o = 2  BY <2>1, <3>3
    <3> QED  BY <3>1, <3>2, <3>3
  <2> QED  BY <2>1, <2>2 DEF Short
<1>3. \A x \in {"e", "vent", "d", "ata", "i", "r", "etry"} : x \in Alphabet \ Signs
  BY InAlphabet DEF Letters
<1>4. n = "event" => Short(Spelling(n))
  <2> HAVE n = "event"
  <2>1. Spelling(n) = <<"e", "vent">>  BY <1>1
  <2> QED  BY <2>1, <1>2, <1>3
<1>5. n = "data" => Short(Spelling(n))
  <2> HAVE n = "data"
  <2>1. Spelling(n) = <<"d", "ata">>  BY <1>1
  <2> QED  BY <2>1, <1>2, <1>3
<1>6. n = "id" => Short(Spelling(n))
  <2> HAVE n = "id"
  <2>1. Spelling(n) = <<"i", "d">>  BY <1>1
  <2> QED  BY <2>1, <1>2, <1>3
<1>7. n = "retry" => Short(Spelling(n))
  <2> HAVE n = "retry"
  <2>1. Spelling(n) = <<"r", "etry">>  BY <1>1
  <2> QED  BY <2>1, <1>2, <1>3
<1>8. CASE n = "comment"
  <2>1. Spelling(n) = <<>>  BY <1>1, <1>8
  <2>2. Spelling(n) \in Seq(Alphabet) /\ Len(Spelling(n)) = 0  BY <2>1
  <2>3. \A o \in 1 .. Len(Spelling(n)) : FALSE  BY <2>2
  <2> QED  BY <1>8, <2>2, <2>3
<1>9. n \in {"event", "data", "id", "retry", "comment"}  BY DEF FieldNames
<1>10. CASE n # "comment"
  <2>1. Short(Spelling(n))  BY <1>4, <1>5, <1>6, <1>7, <1>9, <1>10
  <2> QED  BY <1>10, <2>1 DEF Short
<1> QED  BY <1>8, <1>10

\* How long a name is on the wire.
Sp(field) == Len(Spelling(field.name))

\* A line ends with \n, or with \r\n.
LEMMA LineEnds ==
  /\ LineEnd \in Seq(Alphabet)
  /\ Len(LineEnd) \in {1, 2}
  /\ Len(LineEnd) = 1 => LineEnd[1] = "LF"
  /\ Len(LineEnd) = 2 => LineEnd[1] = "CR" /\ LineEnd[2] = "LF"
<1>1. CASE crlf
  <2>1. LineEnd = <<"CR", "LF">>  BY <1>1 DEF LineEnd
  <2>2. "CR" \in Alphabet /\ "LF" \in Alphabet  BY InAlphabet
  <2> QED  BY <2>1, <2>2, Tuples
<1>2. CASE ~crlf
  <2>1. LineEnd = <<"LF">>  BY <1>2 DEF LineEnd
  <2>2. "LF" \in Alphabet  BY InAlphabet
  <2> QED  BY <2>1, <2>2, Tuples
<1> QED  BY <1>1, <1>2

\* A line, character by character.
LEMMA LineText ==
  ASSUME NEW f \in Field
  PROVE  /\ Line(f) \in Seq(Alphabet)
         /\ Len(Line(f)) = Sp(f) + 3 + Len(LineEnd)
         /\ \A o \in 1 .. Sp(f) : Line(f)[o] = Spelling(f.name)[o]
         /\ Line(f)[Sp(f) + 1] = ":" /\ Line(f)[Sp(f) + 2] = "SP"
         /\ Line(f)[Sp(f) + 3] = f.value
         /\ \A o \in 1 .. Len(LineEnd) : Line(f)[Sp(f) + 3 + o] = LineEnd[o]
<1> DEFINE name == Spelling(f.name)
           rest == <<":", "SP", f.value>>
<1>1. name \in Seq(Alphabet) /\ Len(name) \in Nat /\ Sp(f) = Len(name)
  BY Spellings DEF Field, Sp
<1>2. rest \in Seq(Alphabet) /\ Len(rest) = 3 /\ rest[1] = ":" /\ rest[2] = "SP" /\ rest[3] = f.value
  <2>1. f.value \in Alphabet  BY DEF Field, Alphabet
  <2>2. ":" \in Alphabet /\ "SP" \in Alphabet  BY InAlphabet
  <2> QED  BY <2>1, <2>2, Tuples
<1>3. Line(f) = (name \o rest) \o LineEnd
  BY DEF Line
<1>4. LineEnd \in Seq(Alphabet) /\ Len(LineEnd) \in Nat
  BY LineEnds
<1> HIDE DEF name, rest
<1> DEFINE head == name \o rest
<1>5. /\ head \in Seq(Alphabet)
      /\ Len(head) = Len(name) + 3
      /\ \A o \in 1 .. Len(name) : head[o] = name[o]
      /\ \A j \in 1 .. 3 : head[Len(name) + j] = rest[j]
  <2>1. Joined(name, rest, head)  BY <1>1, <1>2, Concatenation
  <2>2. Len(rest) = 3  BY <1>2
  <2> QED  BY <2>1, <2>2 DEF Joined
<1> HIDE DEF head
<1>6. /\ Line(f) \in Seq(Alphabet)
      /\ Len(Line(f)) = Len(head) + Len(LineEnd)
      /\ \A o \in 1 .. Len(head) : Line(f)[o] = head[o]
      /\ \A o \in 1 .. Len(LineEnd) : Line(f)[Len(head) + o] = LineEnd[o]
  <2>1. Line(f) = head \o LineEnd  BY <1>3 DEF head
  <2>2. Joined(head, LineEnd, Line(f))  BY <1>4, <1>5, <2>1, Concatenation
  <2> QED  BY <2>2 DEF Joined
<1>7. \A o \in 1 .. Sp(f) : Line(f)[o] = name[o]
  <2> TAKE o \in 1 .. Sp(f)
  <2>1. o \in 1 .. Len(name) /\ o \in 1 .. Len(head)  BY <1>1, <1>5
  <2> QED  BY <1>5, <1>6, <2>1
<1>8. \A j \in 1 .. 3 : Line(f)[Sp(f) + j] = rest[j]
  <2> TAKE j \in 1 .. 3
  <2>1. Len(name) + j \in 1 .. Len(head)  BY <1>1, <1>5
  <2>2. head[Len(name) + j] = rest[j]  BY <1>5
  <2> QED  BY <1>1, <1>6, <2>1, <2>2
<1>9. /\ Line(f)[Sp(f) + 1] = ":" /\ Line(f)[Sp(f) + 2] = "SP" /\ Line(f)[Sp(f) + 3] = f.value
  <2>1. 1 \in 1 .. 3 /\ 2 \in 1 .. 3 /\ 3 \in 1 .. 3  OBVIOUS
  <2>2. Line(f)[Sp(f) + 1] = rest[1] /\ Line(f)[Sp(f) + 2] = rest[2] /\ Line(f)[Sp(f) + 3] = rest[3]
    BY <1>8, <2>1
  <2> QED  BY <1>2, <2>2
<1>10. Len(head) = Sp(f) + 3 /\ Len(head) \in Nat
  BY <1>1, <1>5
<1> QED  BY <1>6, <1>7, <1>9, <1>10 DEF name

\* The i-th line of m; the blank one behind the last.
LineWith(field, le) == Spelling(field.name) \o <<":", "SP", field.value>> \o le

\* The characters of the i-th line, the blank one behind the last field included.
TextAt(m, i, le) == IF i <= Len(m) THEN LineWith(m[i], le) ELSE le

\* What the o-th character x of a field's line can be.
FieldCharacter(f, o, x) ==
  /\ o <= Sp(f) => x = Spelling(f.name)[o] /\ x \notin Signs
  /\ x = ":" <=> o = Sp(f) + 1
  /\ x = "SP" <=> o = Sp(f) + 2
  /\ o = Sp(f) + 3 => x = f.value /\ x \notin Signs
  /\ x \in {"CR", "LF"} <=> o > Sp(f) + 3

\* What the o-th character x of the i-th line of m can be.
LineFacts(m, i, o, x) ==
  /\ i <= Len(m) => /\ m[i] \in Field /\ Sp(m[i]) \in {0, 2}
                    /\ Len(TextAt(m, i, LineEnd)) = Sp(m[i]) + 3 + Len(LineEnd)
                    /\ FieldCharacter(m[i], o, x)
  /\ i = Len(m) + 1 => Len(TextAt(m, i, LineEnd)) = Len(LineEnd) /\ x \in {"CR", "LF"}
  /\ x = "LF" <=> o = Len(TextAt(m, i, LineEnd))
  /\ x = "CR" <=> (o = Len(TextAt(m, i, LineEnd)) - 1 /\ Len(LineEnd) = 2)

\* Of a line's characters, each sign stands in one place only.
LEMMA Offsets ==
  ASSUME NEW x, NEW s \in Nat, NEW e \in {1, 2}, NEW o \in 1 .. s + 5,
         o <= s \/ o = s + 3 => x \notin {":", "SP", "CR", "LF"},
         o = s + 1 => x = ":", o = s + 2 => x = "SP",
         o = s + 4 => x = IF e = 1 THEN "LF" ELSE "CR",
         o = s + 5 => x = "LF" /\ e = 2
  PROVE  /\ x = ":" <=> o = s + 1
         /\ x = "SP" <=> o = s + 2
         /\ x \in {"CR", "LF"} <=> o > s + 3
         /\ x = "LF" <=> o = s + 3 + e
         /\ x = "CR" <=> (o = (s + 3 + e) - 1 /\ e = 2)
<1>1. o <= s \/ o = s + 1 \/ o = s + 2 \/ o = s + 3 \/ o = s + 4 \/ o = s + 5
  OBVIOUS
<1> QED  BY <1>1

\* Where a character stands in its line follows from what it is, and the other way round.
LEMMA LineCharacters ==
  ASSUME NEW m \in Seq(Field), WellFormed(m), NEW i \in 1 .. Len(m) + 1,
         NEW o \in 1 .. Len(TextAt(m, i, LineEnd))
  PROVE  LineFacts(m, i, o, TextAt(m, i, LineEnd)[o])
<1> DEFINE x == TextAt(m, i, LineEnd)[o]
<1>1. CASE i = Len(m) + 1
  <2>1. TextAt(m, i, LineEnd) = LineEnd  BY <1>1 DEF TextAt
  <2>2. Len(LineEnd) \in {1, 2} /\ o \in 1 .. Len(LineEnd) /\ x = LineEnd[o]  BY <2>1, LineEnds
  <2> HIDE DEF x
  <2>3. x = "LF" <=> o = Len(LineEnd)
    <3>1. CASE Len(LineEnd) = 1  BY <2>2, <3>1, LineEnds
    <3>2. CASE Len(LineEnd) = 2 /\ o = 1  BY <2>2, <3>2, LineEnds
    <3>3. CASE Len(LineEnd) = 2 /\ o = 2  BY <2>2, <3>3, LineEnds
    <3> QED  BY <2>2, <3>1, <3>2, <3>3
  <2>4. x = "CR" <=> (o = Len(LineEnd) - 1 /\ Len(LineEnd) = 2)
    <3>1. CASE Len(LineEnd) = 1  BY <2>2, <3>1, LineEnds
    <3>2. CASE Len(LineEnd) = 2 /\ o = 1  BY <2>2, <3>2, LineEnds
    <3>3. CASE Len(LineEnd) = 2 /\ o = 2  BY <2>2, <3>3, LineEnds
    <3> QED  BY <2>2, <3>1, <3>2, <3>3
  <2>5. x \in {"CR", "LF"}
    <3>1. CASE Len(LineEnd) = 1  BY <2>2, <3>1, LineEnds
    <3>2. CASE Len(LineEnd) = 2 /\ o = 1  BY <2>2, <3>2, LineEnds
    <3>3. CASE Len(LineEnd) = 2 /\ o = 2  BY <2>2, <3>3, LineEnds
    <3> QED  BY <2>2, <3>1, <3>2, <3>3
  <2>6. ~(i <= Len(m))  BY <1>1
  <2> QED  BY <1>1, <2>1, <2>3, <2>4, <2>5, <2>6 DEF LineFacts, x
<1>2. CASE i \in 1 .. Len(m)
  <2> DEFINE f == m[i]
             s == Sp(f)
             e == Len(LineEnd)
  <2>1. f \in Field /\ f.value \notin Signs /\ f.name \in FieldNames
    <3>1. f \in Field  BY <1>2, ElementOfSeq
    <3> QED  BY <1>2, <3>1 DEF WellFormed, Field
  <2>2. TextAt(m, i, LineEnd) = Line(f)  BY <1>2 DEF TextAt, LineWith, Line
  <2>3. s \in {0, 2} /\ e \in {1, 2}
    BY <2>1, Spellings, LineEnds DEF Sp
  <2>4. o \in 1 .. s + 3 + e /\ Len(TextAt(m, i, LineEnd)) = s + 3 + e
    BY <2>1, <2>2, LineText
  <2>5. /\ \A j \in 1 .. s : Line(f)[j] = Spelling(f.name)[j]
        /\ Line(f)[s + 1] = ":" /\ Line(f)[s + 2] = "SP" /\ Line(f)[s + 3] = f.value
        /\ \A j \in 1 .. e : Line(f)[s + 3 + j] = LineEnd[j]
    BY <2>1, LineText
  <2>6. \A j \in 1 .. s : Spelling(f.name)[j] \notin Signs
    BY <2>1, Spellings DEF Sp
  <2>7. x = Line(f)[o]  BY <2>2
  <2>8. (e = 1 /\ LineEnd[1] = "LF") \/ (e = 2 /\ LineEnd[1] = "CR" /\ LineEnd[2] = "LF")
    BY LineEnds
  <2> HIDE DEF x, f, s, e
  <2>9. /\ o \in 1 .. s => x = Spelling(f.name)[o] /\ x \notin Signs
        /\ o = s + 1 => x = ":"
        /\ o = s + 2 => x = "SP"
        /\ o = s + 3 => x = f.value /\ x \notin Signs
    BY <2>1, <2>5, <2>6, <2>7
  <2>10. o = s + 4 => x = LineEnd[1]
    <3>1. 1 \in 1 .. e /\ s + 4 = s + 3 + 1  BY <2>3
    <3> QED  BY <2>5, <2>7, <3>1
  <2>11. o = s + 5 => e = 2 /\ x = LineEnd[2]
    <3> SUFFICES ASSUME o = s + 5 PROVE e = 2 /\ x = LineEnd[2]
      OBVIOUS
    <3>1. e = 2  BY <2>3, <2>4
    <3>2. 2 \in 1 .. e /\ s + 5 = s + 3 + 2  BY <2>3, <3>1
    <3> QED  BY <2>5, <2>7, <3>1, <3>2
  <2>12. /\ x = ":" <=> o = s + 1
         /\ x = "SP" <=> o = s + 2
         /\ x \in {"CR", "LF"} <=> o > s + 3
         /\ x = "LF" <=> o = s + 3 + e
         /\ x = "CR" <=> (o = (s + 3 + e) - 1 /\ e = 2)
    <3>1. o \in Nat /\ s \in Nat /\ e \in {1, 2} /\ o \in 1 .. s + 5
      BY <2>3, <2>4
    <3>2. o <= s \/ o = s + 3 => x \notin {":", "SP", "CR", "LF"}
      <4>1. o <= s => o \in 1 .. s  BY <2>3, <2>4
      <4> QED  BY <2>9, <4>1 DEF Signs
    <3>3. /\ o = s + 1 => x = ":"
          /\ o = s + 2 => x = "SP"
          /\ o = s + 4 => x = IF e = 1 THEN "LF" ELSE "CR"
          /\ o = s + 5 => x = "LF" /\ e = 2
      BY <2>3, <2>8, <2>9, <2>10, <2>11
    <3> QED  BY <3>1, <3>2, <3>3, Offsets
  <2>13. i # Len(m) + 1  BY <1>2
  <2>14. o <= s => o \in 1 .. s  BY <2>3, <2>4
  <2>15. /\ o <= s => x = Spelling(f.name)[o] /\ x \notin Signs
         /\ o = s + 3 => x = f.value /\ x \notin Signs
    BY <2>9, <2>14
  <2>16. FieldCharacter(f, o, x)
    BY <2>12, <2>15 DEF FieldCharacter, s
  <2>17. /\ x = "LF" <=> o = Len(TextAt(m, i, LineEnd))
         /\ x = "CR" <=> (o = Len(TextAt(m, i, LineEnd)) - 1 /\ e = 2)
    <3>1. Len(TextAt(m, i, LineEnd)) = s + 3 + e  BY <2>4
    <3>2. (s + 3 + e) - 1 = Len(TextAt(m, i, LineEnd)) - 1  BY <3>1
    <3> QED  BY <2>12, <3>1, <3>2
  <2> QED  BY <2>1, <2>3, <2>4, <2>13, <2>16, <2>17 DEF LineFacts, x, f, s, e
<1> QED  BY <1>1, <1>2
-----------------------------------------------------------------------------
(***************************************************************************)
(* The characters of a message.                                            *)
(***************************************************************************)
LEMMA LineByLine ==
  ASSUME NEW m \in Seq(Field)
  PROVE  /\ Lines(m)[0] = <<>>
         /\ \A i \in 1 .. Len(m) : Lines(m)[i] = Lines(m)[i - 1] \o Line(m[i])
<1> DEFINE N == Len(m)
           T == Seq(Alphabet)
           step == [i \in 0 .. N |-> [t \in T |-> IF i \in 1 .. N THEN t \o Line(m[i]) ELSE t]]
           IsText(g) == g = [i \in 0 .. N |-> IF i = 0 THEN <<>> ELSE g[i - 1] \o Line(m[i])]
<1>1. step \in Steps(0, N, T)
  <2> SUFFICES ASSUME NEW i \in 0 .. N, NEW t \in T, i \in 1 .. N
               PROVE  t \o Line(m[i]) \in T
    BY DEF Steps
  <2>1. m[i] \in Field  BY ElementOfSeq
  <2>2. Line(m[i]) \in T  BY <2>1, LineText
  <2> QED  BY <2>2, Concatenation DEF Joined
<1>2. <<>> \in T  OBVIOUS
<1>0. N \in Nat  OBVIOUS
<1>3. PICK f \in [0 .. N -> T] : f[0] = <<>> /\ \A i \in 0 + 1 .. N : f[i] = step[i][f[i - 1]]
  <2> HIDE DEF step, N, T
  <2>1. PICK f \in [0 .. N -> T] : Recurs(f, 0, N, <<>>, step)
    BY <1>0, <1>1, <1>2, Recursion
  <2> QED  BY <2>1 DEF Recurs
<1>4. \A i \in 1 .. N : f[i] = f[i - 1] \o Line(m[i])
  <2> TAKE i \in 1 .. N
  <2>1. i \in 0 .. N /\ i - 1 \in 0 .. N /\ i \in 0 + 1 .. N  OBVIOUS
  <2>2. f[i] = step[i][f[i - 1]] /\ f[i - 1] \in T  BY <1>3, <2>1
  <2> HIDE DEF N, T
  <2> QED  BY <2>1, <2>2
<1> HIDE DEF N, step, T
<1>5. IsText(f)
  <2>1. f = [i \in 0 .. N |-> f[i]]  OBVIOUS
  <2>2. \A i \in 0 .. N : i # 0 => i \in 1 .. N  BY <1>0
  <2> QED  BY <1>3, <1>4, <2>1, <2>2
<1>6. Lines(m) = CHOOSE g : IsText(g)
  BY DEF Lines, N
<1>7. IsText(Lines(m))
  <2> HIDE DEF IsText
  <2> QED  BY <1>5, <1>6
<1> DEFINE g == Lines(m)
<1>8. ASSUME NEW h, IsText(h), NEW i \in 0 .. N
      PROVE  h[i] = IF i = 0 THEN <<>> ELSE h[i - 1] \o Line(m[i])
  BY <1>8
<1>9. \A i \in 1 .. N : i \in 0 .. N /\ i # 0  BY <1>0
<1>10. 0 \in 0 .. N  BY <1>0
<1> HIDE DEF IsText
<1> QED  BY <1>7, <1>8, <1>9, <1>10 DEF N

\* A place in a message: a character of a line.
Spot == [line : Nat, off : Nat]

Further(m, p) ==
  IF p.off < Len(TextAt(m, p.line, LineEnd)) THEN [line |-> p.line, off |-> p.off + 1]
  ELSE [line |-> p.line + 1, off |-> 1]

LastSpot(m, n) == [line |-> n, off |-> Len(TextAt(m, n, LineEnd))]

SpotIn(m, n, t, p, q) ==
  /\ q \in Spot
  /\ q.line \in 1 .. n
  /\ q.off \in 1 .. Len(TextAt(m, q.line, LineEnd))
  /\ t[p] = TextAt(m, q.line, LineEnd)[q.off]

\* u says where every character of the first n lines t of the message comes from.
Laid(m, n, t, u) ==
  /\ t \in Seq(Alphabet)
  /\ u \in [1 .. Len(t) -> Spot]
  /\ \A p \in 1 .. Len(t) : SpotIn(m, n, t, p, u[p])
  /\ \A p \in 1 .. Len(t) : p + 1 <= Len(t) => u[p + 1] = Further(m, u[p])
  /\ \A p \in 1 .. Len(t) : u[p] = LastSpot(m, n) => p = Len(t)
  /\ n = 0 => Len(t) = 0
  /\ n # 0 => /\ 1 <= Len(t)
              /\ u[1] = [line |-> 1, off |-> 1]
              /\ u[Len(t)] = LastSpot(m, n)

\* One line more is laid out behind the lines before it.
LEMMA AddLine ==
  ASSUME NEW m, NEW n \in Nat, NEW t, NEW u, Laid(m, n, t, u),
         TextAt(m, n + 1, LineEnd) \in Seq(Alphabet), Len(TextAt(m, n + 1, LineEnd)) # 0
  PROVE  \E v : Laid(m, n + 1, t \o TextAt(m, n + 1, LineEnd), v)
<1> DEFINE x == TextAt(m, n + 1, LineEnd)
           tx == t \o x
           T == Len(t)
           X == Len(x)
           v == [p \in 1 .. T + X |-> IF p <= T THEN u[p] ELSE [line |-> n + 1, off |-> p - T]]
<1>1. T \in Nat /\ X \in Nat /\ X >= 1
  BY DEF Laid
<1>2. tx \in Seq(Alphabet) /\ Len(tx) = T + X
      /\ (\A p \in 1 .. T : tx[p] = t[p]) /\ (\A p \in 1 .. X : tx[T + p] = x[p])
  <2>1. t \in Seq(Alphabet)  BY DEF Laid
  <2>2. Joined(t, x, tx)  BY <2>1, Concatenation
  <2> QED  BY <2>2 DEF Joined
<1> HIDE DEF tx
<1>3. ASSUME NEW p \in 1 .. T + X, p <= T
      PROVE  p \in 1 .. T /\ v[p] = u[p] /\ SpotIn(m, n, t, p, u[p])
  <2>1. p \in 1 .. T  BY <1>1, <1>3
  <2> QED  BY <1>3, <2>1 DEF Laid
<1>4. ASSUME NEW p \in 1 .. T + X, ~(p <= T)
      PROVE  /\ p - T \in 1 .. X
             /\ v[p] = [line |-> n + 1, off |-> p - T]
             /\ tx[p] = x[p - T]
  <2> HIDE DEF T, X, x
  <2>1. p - T \in 1 .. X /\ T + (p - T) = p  BY <1>1, <1>4
  <2> QED  BY <1>2, <1>4, <2>1
<1>5. v \in [1 .. T + X -> Spot]
  <2> SUFFICES ASSUME NEW p \in 1 .. T + X  PROVE v[p] \in Spot
    OBVIOUS
  <2>1. CASE p <= T
    BY <1>3, <2>1 DEF SpotIn
  <2>2. CASE ~(p <= T)
    <3> HIDE DEF v, T, X, x
    <3>1. p - T \in 1 .. X /\ v[p] = [line |-> n + 1, off |-> p - T]  BY <1>4, <2>2
    <3>2. p - T \in Nat /\ n + 1 \in Nat  BY <1>1, <3>1
    <3>3. [line |-> n + 1, off |-> p - T] \in Spot  BY <3>2 DEF Spot
    <3> QED  BY <3>1, <3>3
  <2> QED  BY <2>1, <2>2
<1>6. ASSUME NEW p \in 1 .. T + X
      PROVE  SpotIn(m, n + 1, tx, p, v[p])
  <2>1. CASE p <= T
    <3>1. SpotIn(m, n, t, p, u[p]) /\ v[p] = u[p] /\ tx[p] = t[p]  BY <1>2, <1>3, <2>1
    <3>2. 1 .. n \subseteq 1 .. n + 1  OBVIOUS
    <3> HIDE DEF v, x, T, X
    <3> QED  BY <3>1, <3>2 DEF SpotIn
  <2>2. CASE ~(p <= T)
    <3>1. v[p].line = n + 1 /\ v[p].off = p - T /\ v[p] \in Spot  BY <1>4, <1>5, <2>2
    <3>2. n + 1 \in 1 .. n + 1  OBVIOUS
    <3> HIDE DEF v, T
    <3> QED  BY <1>4, <2>2, <3>1, <3>2 DEF SpotIn, x, X
  <2> QED  BY <2>1, <2>2
<1>7. ASSUME NEW p \in 1 .. T + X, p + 1 <= T + X
      PROVE  v[p + 1] = Further(m, v[p])
  <2>0. p + 1 \in 1 .. T + X  BY <1>1, <1>7
  <2>1. CASE p + 1 <= T
    <3>1. p \in 1 .. T /\ p <= T  BY <1>1, <2>1
    <3>2. v[p + 1] = u[p + 1] /\ v[p] = u[p]  BY <1>3, <2>0, <2>1, <3>1
    <3>3. u[p + 1] = Further(m, u[p])  BY <2>1, <3>1 DEF Laid
    <3> QED  BY <3>2, <3>3
  <2>2. CASE p = T
    <3>1. v[p] = u[p] /\ p \in 1 .. T  BY <1>1, <1>3, <2>2
    <3>2. n # 0
      <4> SUFFICES ASSUME n = 0 PROVE FALSE  OBVIOUS
      <4>1. T = 0  BY DEF Laid
      <4> QED  BY <2>2, <3>1, <4>1
    <3>3. u[p] = LastSpot(m, n)  BY <2>2, <3>2 DEF Laid
    <3>4. ~(p + 1 <= T) /\ (p + 1) - T = 1  BY <1>1, <2>2
    <3>5. v[p + 1] = [line |-> n + 1, off |-> 1]  BY <1>4, <2>0, <3>4
    <3>6. Len(TextAt(m, n, LineEnd)) \in Nat
      <4>1. SpotIn(m, n, t, p, u[p])  BY <3>1 DEF Laid
      <4> HIDE DEF v
      <4>2. u[p].off \in 1 .. Len(TextAt(m, n, LineEnd)) /\ u[p].off = Len(TextAt(m, n, LineEnd)) /\ u[p].off \in Nat
        BY <3>3, <4>1 DEF SpotIn, LastSpot, Spot
      <4> QED  BY <4>2
    <3>7. v[p].line = n /\ v[p].off = Len(TextAt(m, n, LineEnd))  BY <3>1, <3>3 DEF LastSpot
    <3> HIDE DEF v
    <3>8. Further(m, v[p]) = [line |-> n + 1, off |-> 1]  BY <3>6, <3>7 DEF Further
    <3> QED  BY <3>5, <3>8
  <2>3. CASE p > T
    <3>1. ~(p <= T) /\ ~(p + 1 <= T) /\ (p + 1) - T = (p - T) + 1 /\ p - T < X  BY <1>1, <1>7, <2>3
    <3>2. v[p] = [line |-> n + 1, off |-> p - T]  BY <1>4, <3>1
    <3>3. v[p + 1] = [line |-> n + 1, off |-> (p - T) + 1]  BY <1>4, <2>0, <3>1
    <3>4. v[p].line = n + 1 /\ v[p].off = p - T  BY <3>2
    <3> HIDE DEF v, T
    <3>5. Further(m, v[p]) = [line |-> n + 1, off |-> (p - T) + 1]
      BY <3>1, <3>4 DEF Further, x, X
    <3> QED  BY <3>3, <3>5
  <2>4. p + 1 <= T \/ p = T \/ p > T  BY <1>1
  <2> QED  BY <2>1, <2>2, <2>3, <2>4
<1>8. ASSUME NEW p \in 1 .. T + X, v[p] = LastSpot(m, n + 1)
      PROVE  p = T + X
  <2>1. v[p].line = n + 1 /\ v[p].off = X  BY <1>8 DEF LastSpot
  <2>2. CASE p <= T
    <3>1. v[p].line \in 1 .. n  BY <1>3, <2>2 DEF SpotIn
    <3> QED  BY <2>1, <3>1
  <2>3. CASE ~(p <= T)
    <3>1. p - T = X  BY <1>4, <2>1, <2>3
    <3> HIDE DEF T, X, v
    <3> QED  BY <1>1, <3>1
  <2> QED  BY <2>2, <2>3
<1>9. v[1] = [line |-> 1, off |-> 1]
  <2>1. 1 \in 1 .. T + X  BY <1>1
  <2>2. CASE n = 0
    <3>1. T = 0  BY <2>2 DEF Laid
    <3>2. ~(1 <= T) /\ 1 - T = 1  BY <3>1
    <3> QED  BY <1>4, <2>1, <2>2, <3>2
  <2>3. CASE n # 0
    <3>1. 1 <= T /\ u[1] = [line |-> 1, off |-> 1]  BY <2>3 DEF Laid
    <3> QED  BY <1>3, <2>1, <3>1
  <2> QED  BY <2>2, <2>3
<1>10. v[T + X] = LastSpot(m, n + 1)
  <2>1. T + X \in 1 .. T + X /\ ~(T + X <= T) /\ (T + X) - T = X  BY <1>1
  <2>2. v[T + X] = [line |-> n + 1, off |-> X]  BY <1>4, <2>1
  <2> HIDE DEF v
  <2> QED  BY <2>2 DEF LastSpot
<1>11. 1 <= T + X /\ n + 1 # 0  BY <1>1
<1>12. Laid(m, n + 1, tx, v)
  <2> HIDE DEF v, T, X
  <2> QED  BY <1>2, <1>5, <1>6, <1>7, <1>8, <1>9, <1>10, <1>11 DEF Laid
<1> QED  BY <1>12 DEF tx

\* A message is its lines, one behind the other, and a blank line.
LEMMA MessageLaid ==
  ASSUME NEW m \in Seq(Field)
  PROVE  \E u : Laid(m, Len(m) + 1, Characters(m), u)
<1> DEFINE S == {n \in Nat : n <= Len(m) => \E u : Laid(m, n, Lines(m)[n], u)}
<1>1. 0 \in S
  <2>1. Lines(m)[0] = <<>>  BY LineByLine
  <2> DEFINE u == [p \in 1 .. 0 |-> [line |-> 1, off |-> 1]]
  <2>2. u \in [1 .. 0 -> Spot] /\ Len(<<>>) = 0 /\ <<>> \in Seq(Alphabet)  OBVIOUS
  <2>3. \A p \in 1 .. 0 : FALSE  OBVIOUS
  <2> HIDE DEF u
  <2>4. Laid(m, 0, <<>>, u)  BY <2>2, <2>3 DEF Laid
  <2> QED  BY <2>1, <2>4
<1>2. ASSUME NEW n \in Nat, n \in S
      PROVE  n + 1 \in S
  <2> SUFFICES ASSUME n + 1 <= Len(m)
               PROVE  \E v : Laid(m, n + 1, Lines(m)[n + 1], v)
    OBVIOUS
  <2>1. n + 1 \in 1 .. Len(m) /\ (n + 1) - 1 = n /\ n <= Len(m)  OBVIOUS
  <2>2. PICK u : Laid(m, n, Lines(m)[n], u)  BY <1>2, <2>1
  <2>3. m[n + 1] \in Field  BY <2>1, ElementOfSeq
  <2>4. TextAt(m, n + 1, LineEnd) = Line(m[n + 1])  BY <2>1 DEF TextAt, LineWith, Line
  <2>5. TextAt(m, n + 1, LineEnd) \in Seq(Alphabet) /\ Len(TextAt(m, n + 1, LineEnd)) # 0
    <3>1. Line(m[n + 1]) \in Seq(Alphabet) /\ Len(Line(m[n + 1])) = Sp(m[n + 1]) + 3 + Len(LineEnd)
      BY <2>3, LineText
    <3>2. Sp(m[n + 1]) \in Nat /\ Len(LineEnd) \in Nat
      BY <2>3, Spellings, LineEnds DEF Sp, Field
    <3> QED  BY <2>4, <3>1, <3>2
  <2>6. \E v : Laid(m, n + 1, Lines(m)[n] \o TextAt(m, n + 1, LineEnd), v)
    BY <2>2, <2>5, AddLine
  <2>7. Lines(m)[n + 1] = Lines(m)[n] \o Line(m[n + 1])  BY <2>1, LineByLine
  <2> QED  BY <2>4, <2>6, <2>7
<1>3. Nat \subseteq S
  <2> HIDE DEF S
  <2> QED  BY <1>1, <1>2, SetInduction
<1>4. Len(m) \in Nat  OBVIOUS
<1>5. PICK u : Laid(m, Len(m), Lines(m)[Len(m)], u)  BY <1>3, <1>4
<1>6. TextAt(m, Len(m) + 1, LineEnd) = LineEnd  BY DEF TextAt
<1>7. LineEnd \in Seq(Alphabet) /\ Len(LineEnd) # 0  BY LineEnds
<1>8. \E v : Laid(m, Len(m) + 1, Lines(m)[Len(m)] \o LineEnd, v)
  BY <1>4, <1>5, <1>6, <1>7, AddLine
<1> QED  BY <1>8 DEF Characters

-----------------------------------------------------------------------------
(***************************************************************************)
(* The inductive invariant.                                                *)
(***************************************************************************)
\* A place in the stream: a character of a line of a message.
Place == [msg : Nat, line : Nat, off : Nat]

\* The line it is in; is that the blank line, and it its last character; the
\* next place, with ms the messages sent and le the characters that end a line.
TextOf(p, ms, le) == TextAt(ms[p.msg], p.line, le)
IsBlank(p, ms) == p.line = Len(ms[p.msg]) + 1
AtEnd(p, ms, le) == IsBlank(p, ms) /\ p.off = Len(le)

After(p, ms, le) ==
  IF p.off < Len(TextOf(p, ms, le)) THEN [p EXCEPT !.off = p.off + 1]
  ELSE IF IsBlank(p, ms) THEN [msg |-> p.msg + 1, line |-> 1, off |-> 1]
  ELSE [msg |-> p.msg, line |-> p.line + 1, off |-> 1]

IsPlace(p, ms, le) ==
  /\ p \in Place
  /\ p.msg \in DOMAIN ms
  /\ p.line \in 1 .. Len(ms[p.msg]) + 1
  /\ p.off \in 1 .. Len(TextOf(p, ms, le))

\* Where the k-th message starts, when messages end at en.
StartOf(k, en) == IF k = 1 THEN 1 ELSE en[k - 1] + 1

\* w says where every character of the stream comes from, with st for the stream
\* and en for where the messages end.
LaysOut(w, ms, st, en, le) ==
  /\ w \in [1 .. Len(st) -> Place]
  /\ \A p \in 1 .. Len(st) : IsPlace(w[p], ms, le) /\ st[p] = TextOf(w[p], ms, le)[w[p].off]
  /\ \A p \in 1 .. Len(st) : p + 1 <= Len(st) => w[p + 1] = After(w[p], ms, le)
  /\ \A p, q \in 1 .. Len(st) : p <= q => w[p].msg <= w[q].msg
  /\ Len(en) = Len(ms)
  /\ \A k \in 1 .. Len(ms) :
       /\ en[k] \in 1 .. Len(st) /\ AtEnd(w[en[k]], ms, le) /\ w[en[k]].msg = k
       /\ StartOf(k, en) \in 1 .. Len(st)
       /\ w[StartOf(k, en)] = [msg |-> k, line |-> 1, off |-> 1]
  /\ \A p \in 1 .. Len(st) : AtEnd(w[p], ms, le) => p = en[w[p].msg]
  /\ IF ms = <<>> THEN st = <<>> ELSE Len(st) = en[Len(ms)]

\* Does w lay out the stream?
Layout(w) == LaysOut(w, sent, stream, ends, LineEnd)

\* The types, the order of the indexes, and that no assertion has failed.
Types ==
  /\ crlf \in BOOLEAN
  /\ sent \in Seq(Messages)
  /\ stream \in Seq(Alphabet)
  /\ ends \in Seq(Nat)
  /\ from \in Nat /\ to \in Nat /\ from <= to /\ to <= Len(stream)
  /\ at \in Nat /\ from < at /\ at <= to + 2
  /\ state \in {"initial", "name", "space", "value"}
  /\ nameStart \in Nat \ {0} /\ nameEnd \in Nat \ {0}
  /\ valueStart \in Nat \ {0} /\ valueEnd \in Nat \ {0}
  /\ fired \in Seq([event : Seq(STRING), data : Seq(Seq(STRING))])
  /\ firedBefore \in 0 .. Len(fired)
  /\ ~aborted

\* The name as the parser cuts it out.
NameRead == SubSeq(stream, nameStart, nameEnd - 1)

\* Nothing was read of the message.
Fresh == event = Null /\ id = Null /\ message = <<>>

\* What is known of the event ev, the id nr and the data ms when the lines of m
\* behind the s-th and before the i-th were read.
EventIn(m, s, i, ev) ==
  \/ ev = Null /\ \A j \in s + 1 .. i - 1 : m[j].name \notin {"event", "comment"}
  \/ \E j \in s + 1 .. i - 1 : m[j].name \in {"event", "comment"} /\ ev = <<m[j].value>>
IdIn(m, s, i, nr) ==
  (\A j \in s + 1 .. i - 1 : m[j].name # "id") => nr = Null
\* The value of an id line whose first character was not read is taken for data.
DataIn(m, s, i, ms) ==
  \/ ms = DataBehind(m, s)[i - 1]
  \/ s # 0 /\ m[s].name = "id" /\ ms = <<<<m[s].value>>>> \o DataBehind(m, s)[i - 1]
Collected(m, s, i, ev, nr, ms) == EventIn(m, s, i, ev) /\ IdIn(m, s, i, nr) /\ DataIn(m, s, i, ms)

\* The parser is at the o-th character of the line of field f and takes it for
\* what it is: the name from ns on, the name without its first character, the
\* space, the value from vs on; str is the stream and a the character being read,
\* ve the end of the last value and e the length of a line's end.
NameAt(f, o, str, ns, a) ==
  /\ o <= Sp(f) + 1 /\ ns + (o - 1) = a
  /\ \A q \in 1 .. o - 1 : str[ns + (q - 1)] = Spelling(f.name)[q]
TailAt(f, o, str, ns, a) ==
  \/ o = 2 /\ ns = a
  \/ o = 3 /\ ns + 1 = a /\ str[ns] = Spelling(f.name)[2]
SpaceAt(f, o, ve, a) == o \in {Sp(f) + 2, Sp(f) + 3} /\ ve < a
ValueAt(f, o, e, str, vs, ve, a) ==
  /\ o \in Sp(f) + 3 .. Sp(f) + 3 + e
  /\ vs + (o - (Sp(f) + 3)) = a
  /\ o > Sp(f) + 3 => str[vs] = f.value
  /\ IF o = Sp(f) + 5 THEN ve = vs + 1 ELSE ve < vs

\* The name begins with the space, or with the value, of a line.
Hopeless(w, ms, ns, a) ==
  /\ ns \in 1 .. a
  /\ w[ns].line # Len(ms[w[ns].msg]) + 1
  /\ LET f == ms[w[ns].msg][w[ns].line] IN w[ns].off \in {Sp(f) + 2, Sp(f) + 3}

\* The beginning of no name.
NoName(r) == \A name \in {"event", "data", "id", "retry"} : ~IsPrefix(r, Spelling(name))

\* The parser missed the beginning of the line, or of more than that.
Part(w) ==
  LET p == w[at]  f == sent[p.msg][p.line] IN
  /\ Fresh
  /\ state \in {"initial", "name"} => valueEnd <= at
  /\ state = "initial" /\ c = ":" => p.off = 1
  /\ state = "name" =>
       \/ Hopeless(w, sent, nameStart, at)
       \/ ~IsBlank(p, sent) /\ Sp(f) = 2 /\ TailAt(f, p.off, stream, nameStart, at)
  /\ state \in {"space", "value"} =>
       /\ ~IsBlank(p, sent)
       /\ NoName(NameRead) \/ (Sp(f) = 2 /\ NameRead = <<Spelling(f.name)[2]>>)
  /\ state = "space" => SpaceAt(f, p.off, valueEnd, at)
  /\ state = "value" => ValueAt(f, p.off, Len(LineEnd), stream, valueStart, valueEnd, at)

\* The parser read all the lines behind the s-th from their beginning.
Full(w, s) ==
  LET p == w[at]  m == sent[p.msg]  f == m[p.line] IN
  /\ s \in 0 .. p.line - 1
  /\ Collected(m, s, p.line, event, id, message)
  /\ state \in {"initial", "name"} => valueEnd <= at
  /\ state = "initial" => p.off = 1 \/ IsBlank(p, sent)
  /\ state # "initial" => ~IsBlank(p, sent)
  /\ state = "name" => NameAt(f, p.off, stream, nameStart, at)
  /\ state \in {"space", "value"} => NameRead = Spelling(f.name)
  /\ state = "space" => SpaceAt(f, p.off, valueEnd, at)
  /\ state = "value" => ValueAt(f, p.off, Len(LineEnd), stream, valueStart, valueEnd, at)

\* While a chunk is read the parser knows the message or lost the beginning of a line.
Parse(w) ==
  Reading => Part(w) \/ \E s \in Nat : Full(w, s)

\* The next character to be read, of this chunk or of the next one.
NextUnread == IF Reading THEN at ELSE to + 1

\* Every event fired is told by a message of its own, in their order, and none by a
\* message whose end has not been read.
Told(w) ==
  \E which \in [DOMAIN fired -> DOMAIN sent] :
    /\ \A j, k \in DOMAIN fired : j < k => which[j] < which[k]
    /\ \A j \in DOMAIN fired : Tells(sent[which[j]], fired[j])
    /\ NextUnread <= Len(stream) => \A j \in DOMAIN fired : which[j] < w[NextUnread].msg

\* What WholeMessageFires says of the k-th message.
Outcome(k) ==
  IF Events(sent[k]) = {} THEN FiredInChunk = <<>>
  ELSE \E e \in Events(sent[k]) : FiredInChunk = <<e>>

\* Is m no comment? A chunk that begins with one is skipped.
NoComment(m) == \A j \in DOMAIN m : m[j].name # "comment"

\* In a chunk that is one message the parser knows it from its first line on, and
\* has fired nothing before its end.
Whole(w) ==
  \A k \in DOMAIN sent : ChunkIs(k, k) =>
    IF Reading
    THEN Len(fired) = firedBefore /\ w[at].msg = k /\ Full(w, 0) /\ NoComment(sent[k])
    ELSE Outcome(k)

\* The inductive invariant, for a layout w.
IInv(w) == Types /\ Layout(w) /\ Parse(w) /\ Told(w) /\ Whole(w)

-----------------------------------------------------------------------------
(***************************************************************************)
(* What the parser takes a name for.                                       *)
(***************************************************************************)
\* What is read off s from a to b, when it is t.
LEMMA ReadOff ==
  ASSUME NEW s \in Seq(Alphabet), NEW t \in Seq(Alphabet), NEW a \in Nat \ {0}, NEW b \in Nat,
         b = a + Len(t), b <= Len(s) + 1,
         \A q \in 1 .. Len(t) : s[a + (q - 1)] = t[q]
  PROVE  SubSeq(s, a, b - 1) = t
<1> DEFINE r == SubSeq(s, a, b - 1)
           n == Len(t)
<1>1. n \in Nat /\ a \in Int /\ b - 1 \in Int /\ (b - 1) - a + 1 = n
      /\ (a <= b - 1 <=> n # 0)
  OBVIOUS
<1>2. \A i \in a .. b - 1 : s[i] \in Alphabet
  <2> TAKE i \in a .. b - 1
  <2>1. i \in 1 .. Len(s)  OBVIOUS
  <2> QED  BY <2>1, ElementOfSeq
<1>3. /\ r \in Seq(Alphabet)
      /\ Len(r) = n
      /\ \A i \in 1 .. n : r[i] = s[a + i - 1]
  <2>1. /\ r \in Seq(Alphabet)
        /\ Len(r) = IF a <= b - 1 THEN (b - 1) - a + 1 ELSE 0
        /\ \A i \in 1 .. (b - 1) - a + 1 : r[i] = s[a + i - 1]
    <3> HIDE DEF n
    <3> QED  BY <1>1, <1>2, SubSeqProperties
  <2> HIDE DEF r, n
  <2> QED  BY <1>1, <2>1
<1>4. \A i \in 1 .. n : r[i] = t[i]
  <2> TAKE i \in 1 .. n
  <2>1. a + i - 1 = a + (i - 1)  BY <1>1
  <2> HIDE DEF r
  <2> QED  BY <1>3, <2>1
<1> HIDE DEF r
<1> QED  BY <1>3, <1>4, SeqEqual DEF n, r

\* IsPrefix, character by character.
LEMMA PrefixOf ==
  \A r, t \in Seq(Alphabet) :
    IsPrefix(r, t) <=> Len(r) <= Len(t) /\ \A i \in 1 .. Len(r) : r[i] = t[i]
<1> TAKE r, t \in Seq(Alphabet)
<1> SUFFICES ASSUME Len(r) <= Len(t)
             PROVE  SubSeq(r, 1, Len(r)) = SubSeq(t, 1, Len(r)) <=> \A i \in 1 .. Len(r) : r[i] = t[i]
  BY DEF IsPrefix
<1>1. SubSeq(r, 1, Len(r)) = r  BY SubSeqFull
<1> DEFINE u == SubSeq(t, 1, Len(r))
<1>2. u \in Seq(Alphabet) /\ Len(u) = Len(r) /\ \A i \in 1 .. Len(r) : u[i] = t[i]
  OBVIOUS
<1>3. r = u => \A i \in 1 .. Len(r) : r[i] = t[i]
  <2> HIDE DEF u
  <2> QED  BY <1>2
<1>4. ASSUME \A i \in 1 .. Len(r) : r[i] = t[i]
      PROVE  r = u
  <2> HIDE DEF u
  <2>1. \A i \in 1 .. Len(r) : r[i] = u[i]  BY <1>2, <1>4
  <2> QED  BY <1>2, <2>1, SeqEqual
<1> QED  BY <1>1, <1>3, <1>4

\* The two characters of a name.
Spelled(n, x, y) ==
  /\ Spelling(n) \in Seq(Alphabet) /\ Len(Spelling(n)) = 2
  /\ Spelling(n)[1] = x /\ Spelling(n)[2] = y

\* The two letters of each name.
LEMMA SpelledOut ==
  /\ Spelled("event", "e", "vent") /\ Spelled("data", "d", "ata")
  /\ Spelled("id", "i", "d") /\ Spelled("retry", "r", "etry")
<1>1. {"e", "vent", "d", "ata", "i", "r", "etry"} \subseteq Alphabet
  BY InAlphabet DEF Letters
<1>2. ASSUME NEW n, NEW x \in Alphabet, NEW y \in Alphabet, Spelling(n) = <<x, y>>
      PROVE  Spelled(n, x, y)
  BY <1>2, Tuples DEF Spelled
<1>3. /\ Spelling("event") = <<"e", "vent">> /\ Spelling("data") = <<"d", "ata">>
      /\ Spelling("id") = <<"i", "d">> /\ Spelling("retry") = <<"r", "etry">>
  BY DEF Spelling
<1>5. Spelled("event", "e", "vent")  BY <1>1, <1>2, <1>3
<1>6. Spelled("data", "d", "ata")  BY <1>1, <1>2, <1>3
<1>7. Spelled("id", "i", "d")  BY <1>1, <1>2, <1>3
<1>8. Spelled("retry", "r", "etry")  BY <1>1, <1>2, <1>3
<1> QED  BY <1>5, <1>6, <1>7, <1>8

\* A comment has no name on the wire.
LEMMA NoSpelling == Spelling("comment") = <<>> /\ <<>> \in Seq(Alphabet) /\ Len(<<>>) = 0
BY DEF Spelling

\* A name of two characters is a beginning of itself only.
LEMMA TwoLetters ==
  ASSUME NEW n, NEW o, NEW x, NEW y, NEW u, NEW v, Spelled(n, x, y), Spelled(o, u, v)
  PROVE  IsPrefix(Spelling(n), Spelling(o)) <=> x = u /\ y = v
<1>1. IsPrefix(Spelling(n), Spelling(o))
      <=> \A i \in 1 .. 2 : Spelling(n)[i] = Spelling(o)[i]
  BY PrefixOf DEF Spelled
<1>2. 1 .. 2 = {1, 2}  OBVIOUS
<1> QED  BY <1>1, <1>2 DEF Spelled

\* A name of one character.
LEMMA OneLetter ==
  ASSUME NEW o, NEW x \in Alphabet, NEW u, NEW v, Spelled(o, u, v)
  PROVE  IsPrefix(<<x>>, Spelling(o)) <=> x = u
<1>1. <<x>> \in Seq(Alphabet) /\ Len(<<x>>) = 1 /\ <<x>>[1] = x  BY Tuples
<1>2. Spelling(o) \in Seq(Alphabet) /\ Len(Spelling(o)) = 2 /\ Spelling(o)[1] = u
  BY DEF Spelled
<1> DEFINE r == <<x>>
<1> HIDE DEF r
<1>3. r \in Seq(Alphabet) /\ Len(r) = 1 /\ r[1] = x  BY <1>1 DEF r
<1>4. IsPrefix(r, Spelling(o))
      <=> Len(r) <= Len(Spelling(o)) /\ \A i \in 1 .. Len(r) : r[i] = Spelling(o)[i]
  BY <1>2, <1>3, PrefixOf
<1>5. 1 .. 1 = {1} /\ 1 <= 2  OBVIOUS
<1>6. IsPrefix(r, Spelling(o)) <=> r[1] = Spelling(o)[1]
  BY <1>2, <1>3, <1>4, <1>5
<1> QED  BY <1>2, <1>3, <1>6 DEF r

\* The empty name is a beginning of every name: str_eq_n compares nothing.
LEMMA EmptyName ==
  ASSUME NEW o, NEW u, NEW v, Spelled(o, u, v)
  PROVE  IsPrefix(<<>>, Spelling(o))
<1> DEFINE r == Spelling("comment")
<1>1. r = <<>> /\ r \in Seq(Alphabet) /\ Len(r) = 0  BY NoSpelling
<1>2. Spelling(o) \in Seq(Alphabet) /\ Len(Spelling(o)) = 2  BY DEF Spelled
<1> HIDE DEF r
<1>3. IsPrefix(r, Spelling(o))
      <=> Len(r) <= Len(Spelling(o)) /\ \A i \in 1 .. Len(r) : r[i] = Spelling(o)[i]
  BY <1>1, <1>2, PrefixOf
<1>4. \A i \in 1 .. 0 : FALSE  OBVIOUS
<1> QED  BY <1>1, <1>2, <1>3, <1>4

\* What a whole name is taken for.
LEMMA FullName ==
  ASSUME NEW n \in FieldNames, NameRead = Spelling(n)
  PROVE  /\ IsNamed("event") <=> n \in {"event", "comment"}
         /\ n # "comment" => /\ IsNamed("data") <=> n = "data"
                             /\ IsNamed("id") <=> n = "id"
<1>1. \A o : IsNamed(o) <=> IsPrefix(Spelling(n), Spelling(o))
  BY DEF IsNamed, NameRead
<1>2. n = "event" \/ n = "data" \/ n = "id" \/ n = "retry" \/ n = "comment"
  BY DEF FieldNames
<1>3. CASE n = "event"
  <2>1. IsNamed("event")  BY <1>1, <1>3, SpelledOut, TwoLetters
  <2>2. ~IsNamed("data")  BY <1>1, <1>3, SpelledOut, TwoLetters
  <2>3. ~IsNamed("id")  BY <1>1, <1>3, SpelledOut, TwoLetters
  <2> QED  BY <1>3, <2>1, <2>2, <2>3
<1>4. CASE n = "data"
  <2>1. ~IsNamed("event")  BY <1>1, <1>4, SpelledOut, TwoLetters
  <2>2. IsNamed("data")  BY <1>1, <1>4, SpelledOut, TwoLetters
  <2>3. ~IsNamed("id")  BY <1>1, <1>4, SpelledOut, TwoLetters
  <2> QED  BY <1>4, <2>1, <2>2, <2>3
<1>5. CASE n = "id"
  <2>1. ~IsNamed("event")  BY <1>1, <1>5, SpelledOut, TwoLetters
  <2>2. ~IsNamed("data")  BY <1>1, <1>5, SpelledOut, TwoLetters
  <2>3. IsNamed("id")  BY <1>1, <1>5, SpelledOut, TwoLetters
  <2> QED  BY <1>5, <2>1, <2>2, <2>3
<1>6. CASE n = "retry"
  <2>1. ~IsNamed("event")  BY <1>1, <1>6, SpelledOut, TwoLetters
  <2>2. ~IsNamed("data")  BY <1>1, <1>6, SpelledOut, TwoLetters
  <2>3. ~IsNamed("id")  BY <1>1, <1>6, SpelledOut, TwoLetters
  <2> QED  BY <1>6, <2>1, <2>2, <2>3
<1>7. CASE n = "comment"
  <2>1. IsNamed("event")  BY <1>1, <1>7, NoSpelling, SpelledOut, EmptyName
  <2> QED  BY <1>7, <2>1
<1> QED  BY <1>2, <1>3, <1>4, <1>5, <1>6, <1>7

\* What a name without its first character is taken for: the end of "id" for
\* the beginning of "data".
LEMMA TailName ==
  ASSUME NEW n \in FieldNames, n # "comment", NameRead = <<Spelling(n)[2]>>
  PROVE  /\ ~IsNamed("event") /\ ~IsNamed("id")
         /\ IsNamed("data") <=> n = "id"
<1>0. {"vent", "ata", "d", "etry"} \subseteq Alphabet
  BY InAlphabet DEF Letters
<1>1. \A o : IsNamed(o) <=> IsPrefix(<<Spelling(n)[2]>>, Spelling(o))
  BY DEF IsNamed, NameRead
<1>2. n = "event" \/ n = "data" \/ n = "id" \/ n = "retry"
  BY DEF FieldNames
<1>3. ASSUME NEW x \in Alphabet, Spelling(n)[2] = x
      PROVE  /\ IsNamed("event") <=> x = "e"
             /\ IsNamed("data") <=> x = "d"
             /\ IsNamed("id") <=> x = "i"
  <2>1. IsNamed("event") <=> x = "e"  BY <1>1, <1>3, SpelledOut, OneLetter
  <2>2. IsNamed("data") <=> x = "d"  BY <1>1, <1>3, SpelledOut, OneLetter
  <2>3. IsNamed("id") <=> x = "i"  BY <1>1, <1>3, SpelledOut, OneLetter
  <2> QED  BY <2>1, <2>2, <2>3
<1>4. CASE n = "event"  BY <1>0, <1>3, <1>4, SpelledOut DEF Spelled
<1>5. CASE n = "data"  BY <1>0, <1>3, <1>5, SpelledOut DEF Spelled
<1>6. CASE n = "id"  BY <1>0, <1>3, <1>6, SpelledOut DEF Spelled
<1>7. CASE n = "retry"  BY <1>0, <1>3, <1>7, SpelledOut DEF Spelled
<1> QED  BY <1>2, <1>4, <1>5, <1>6, <1>7

-----------------------------------------------------------------------------
(***************************************************************************)
(* Places.                                                                 *)
(***************************************************************************)
LEMMA MessagesAre ==
  ASSUME Types, NEW k \in DOMAIN sent
  PROVE  sent[k] \in Seq(Field) /\ WellFormed(sent[k])
<1>1. sent[k] \in Messages  BY DEF Types
<1> QED  BY <1>1, EventSourceAssumption

\* What is known of the q-th character of the stream.
At(w, q) ==
  LET p == w[q]  m == sent[p.msg] IN
  /\ p.msg \in 1 .. Len(sent) /\ Len(sent) \in Nat
  /\ m \in Seq(Field) /\ WellFormed(m) /\ Len(m) \in Nat
  /\ p.line \in 1 .. Len(m) + 1
  /\ p.off \in 1 .. Len(TextAt(m, p.line, LineEnd))
  /\ Len(LineEnd) \in {1, 2}
  /\ LineFacts(m, p.line, p.off, stream[q])

\* What is known of a place in the stream.
LEMMA Here ==
  ASSUME NEW w, Types, Layout(w), NEW q \in 1 .. Len(stream)
  PROVE  At(w, q)
<1> DEFINE p == w[q]
           m == sent[p.msg]
<1>1. p \in Place /\ IsPlace(p, sent, LineEnd) /\ stream[q] = TextOf(p, sent, LineEnd)[p.off]
  BY DEF Layout, LaysOut, IsPlace
<1>2. Len(sent) \in Nat /\ DOMAIN sent = 1 .. Len(sent)  BY DEF Types
<1>3. p.msg \in 1 .. Len(sent)  BY <1>1, <1>2 DEF IsPlace
<1>4. m \in Seq(Field) /\ WellFormed(m)  BY <1>2, <1>3, MessagesAre
<1>5. p.line \in 1 .. Len(m) + 1 /\ p.off \in 1 .. Len(TextAt(m, p.line, LineEnd))
      /\ stream[q] = TextAt(m, p.line, LineEnd)[p.off]
  BY <1>1 DEF IsPlace, TextOf
<1>6. Len(m) \in Nat  BY <1>4
<1> HIDE DEF m
<1>7. LineFacts(m, p.line, p.off, stream[q])
  <2> HIDE DEF p
  <2> QED  BY <1>4, <1>5, LineCharacters
<1> QED  BY <1>2, <1>3, <1>4, <1>5, <1>6, <1>7, LineEnds DEF At, m

\* Only a character that ends a message is the last one.
LEMMA Ahead ==
  ASSUME NEW w, Types, Layout(w), NEW q \in 1 .. Len(stream), ~AtEnd(w[q], sent, LineEnd)
  PROVE  /\ q + 1 \in 1 .. Len(stream)
         /\ w[q + 1].msg = w[q].msg
         /\ w[q].off < Len(TextOf(w[q], sent, LineEnd)) =>
              w[q + 1].line = w[q].line /\ w[q + 1].off = w[q].off + 1
         /\ w[q].off = Len(TextOf(w[q], sent, LineEnd)) =>
              w[q + 1].line = w[q].line + 1 /\ w[q + 1].off = 1 /\ ~IsBlank(w[q], sent)
<1> DEFINE p == w[q]
<1>1. At(w, q)  BY Here
<1>2. Len(stream) \in Nat  BY DEF Types
<1>3. sent # <<>>  BY <1>1 DEF At
<1>4. Len(sent) \in 1 .. Len(sent)  BY <1>1 DEF At
<1>5. AtEnd(w[Len(stream)], sent, LineEnd)  BY <1>3, <1>4 DEF Layout, LaysOut
<1>6. q + 1 \in 1 .. Len(stream)  BY <1>2, <1>5
<1>7. w[q + 1] = After(p, sent, LineEnd)  BY <1>6 DEF Layout, LaysOut
<1>8. p \in Place  BY DEF Layout, LaysOut
<1>9. p.off = Len(TextOf(p, sent, LineEnd)) => ~IsBlank(p, sent)
  <2> SUFFICES ASSUME p.off = Len(TextOf(p, sent, LineEnd)), IsBlank(p, sent) PROVE FALSE  OBVIOUS
  <2>1. TextOf(p, sent, LineEnd) = LineEnd
    BY <1>1, SMTT(30) DEF At, TextOf, TextAt, IsBlank
  <2> QED  BY <2>1 DEF AtEnd
<1>10. p.off \in Nat /\ Len(TextOf(p, sent, LineEnd)) \in Nat
  <2>1. p.off \in 1 .. Len(TextOf(p, sent, LineEnd))  BY <1>1 DEF At, TextOf
  <2>2. p.off \in Nat  BY <1>8 DEF Place
  <2>3. p.line = Len(sent[p.msg]) + 1 \/ p.line <= Len(sent[p.msg])
    <3>1. p.line \in 1 .. Len(sent[p.msg]) + 1 /\ Len(sent[p.msg]) \in Nat  BY <1>1 DEF At
    <3> HIDE DEF p
    <3> QED  BY <3>1
  <2>4. CASE p.line = Len(sent[p.msg]) + 1
    BY <1>1, <2>4 DEF At, TextOf, LineFacts
  <2>5. CASE p.line <= Len(sent[p.msg])
    BY <1>1, <2>5, SMTT(30) DEF At, TextOf, LineFacts
  <2> QED  BY <2>2, <2>3, <2>4, <2>5
<1>11. CASE p.off < Len(TextOf(p, sent, LineEnd))
  <2>1. w[q + 1] = [p EXCEPT !.off = p.off + 1]  BY <1>7, <1>11 DEF After
  <2>2. w[q + 1].msg = p.msg /\ w[q + 1].line = p.line /\ w[q + 1].off = p.off + 1
    BY <1>8, <2>1 DEF Place
  <2> QED  BY <1>6, <1>10, <1>11, <2>2
<1>12. CASE ~(p.off < Len(TextOf(p, sent, LineEnd)))
  <2>1. p.off = Len(TextOf(p, sent, LineEnd))
    <3>1. p.off \in 1 .. Len(TextOf(p, sent, LineEnd))  BY <1>1 DEF At, TextOf
    <3> QED  BY <1>10, <1>12, <3>1
  <2>2. w[q + 1] = [msg |-> p.msg, line |-> p.line + 1, off |-> 1]
    BY <1>7, <1>9, <1>12, <2>1 DEF After
  <2> QED  BY <1>6, <1>9, <1>10, <1>12, <2>1, <2>2
<1> QED  BY <1>11, <1>12

\* Behind a message comes the next one.
LEMMA Behind ==
  ASSUME NEW w, Types, Layout(w), NEW q \in 1 .. Len(stream), AtEnd(w[q], sent, LineEnd), q + 1 <= Len(stream)
  PROVE  w[q + 1] = [msg |-> w[q].msg + 1, line |-> 1, off |-> 1]
<1>1. At(w, q)  BY Here
<1>2. TextOf(w[q], sent, LineEnd) = LineEnd  BY <1>1 DEF At, TextOf, TextAt, IsBlank, AtEnd
<1>3. ~(w[q].off < Len(TextOf(w[q], sent, LineEnd)))  BY <1>1, <1>2 DEF At, AtEnd
<1>4. w[q + 1] = After(w[q], sent, LineEnd)  BY DEF Layout, LaysOut
<1> QED  BY <1>3, <1>4 DEF After, AtEnd

\* What a character can be, by where it stands in the line of a field.
LEMMA OnLine ==
  ASSUME NEW w, NEW q, At(w, q), ~IsBlank(w[q], sent),
         NEW f, f = sent[w[q].msg][w[q].line]
  PROVE  /\ f \in Field /\ Sp(f) \in {0, 2} /\ f.name \in FieldNames
         /\ f.value \in STRING /\ f.value \notin Signs
         /\ w[q].line \in 1 .. Len(sent[w[q].msg])
         /\ w[q].off \in 1 .. Sp(f) + 3 + Len(LineEnd)
         /\ Len(TextOf(w[q], sent, LineEnd)) = Sp(f) + 3 + Len(LineEnd)
         /\ FieldCharacter(f, w[q].off, stream[q])
         /\ stream[q] = "LF" <=> w[q].off = Sp(f) + 3 + Len(LineEnd)
         /\ stream[q] = "CR" <=> (w[q].off = Sp(f) + 4 /\ Len(LineEnd) = 2)
<1> DEFINE m == sent[w[q].msg]
           i == w[q].line
<1>1. i \in 1 .. Len(m) /\ Len(m) \in Nat  BY DEF At, IsBlank
<1>2. i <= Len(m)  BY <1>1
<1>3. f = m[i]  OBVIOUS
<1>4. LineFacts(m, i, w[q].off, stream[q]) /\ w[q].off \in 1 .. Len(TextAt(m, i, LineEnd))
  BY DEF At
<1>5. f.value \notin Signs /\ m \in Seq(Field)  BY <1>1, <1>3, SMTT(30) DEF At, WellFormed
<1>6. Len(LineEnd) \in {1, 2}  BY DEF At
<1>7. TextOf(w[q], sent, LineEnd) = TextAt(m, i, LineEnd)  BY DEF TextOf
<1> HIDE DEF m, i
<1>8. /\ f \in Field /\ Sp(f) \in {0, 2} /\ Len(TextAt(m, i, LineEnd)) = Sp(f) + 3 + Len(LineEnd)
      /\ FieldCharacter(f, w[q].off, stream[q])
      /\ stream[q] = "LF" <=> w[q].off = Len(TextAt(m, i, LineEnd))
      /\ stream[q] = "CR" <=> (w[q].off = Len(TextAt(m, i, LineEnd)) - 1 /\ Len(LineEnd) = 2)
  BY <1>2, <1>3, <1>4 DEF LineFacts
<1>9. f.value \in STRING /\ f.name \in FieldNames  BY <1>8 DEF Field
<1>10. Len(LineEnd) = 2 => Len(TextAt(m, i, LineEnd)) - 1 = Sp(f) + 4
  BY <1>6, <1>8
<1> QED  BY <1>1, <1>4, <1>5, <1>7, <1>8, <1>9, <1>10 DEF m, i

\* On a blank line.
LEMMA OnBlank ==
  ASSUME NEW w, NEW q, At(w, q), IsBlank(w[q], sent)
  PROVE  /\ stream[q] \in {"CR", "LF"}
         /\ Len(TextOf(w[q], sent, LineEnd)) = Len(LineEnd)
         /\ w[q].off \in 1 .. Len(LineEnd)
         /\ stream[q] = "LF" <=> AtEnd(w[q], sent, LineEnd)
         /\ stream[q] = "CR" => w[q].off = 1 /\ Len(LineEnd) = 2
<1> DEFINE m == sent[w[q].msg]
           i == w[q].line
<1>1. i = Len(m) + 1 /\ Len(LineEnd) \in {1, 2}  BY DEF At, IsBlank
<1>2. LineFacts(m, i, w[q].off, stream[q]) /\ w[q].off \in 1 .. Len(TextAt(m, i, LineEnd))
  BY DEF At
<1>3. TextOf(w[q], sent, LineEnd) = TextAt(m, i, LineEnd)  BY DEF TextOf
<1> HIDE DEF m, i
<1>4. /\ Len(TextAt(m, i, LineEnd)) = Len(LineEnd) /\ stream[q] \in {"CR", "LF"}
      /\ stream[q] = "LF" <=> w[q].off = Len(TextAt(m, i, LineEnd))
      /\ stream[q] = "CR" <=> (w[q].off = Len(TextAt(m, i, LineEnd)) - 1 /\ Len(LineEnd) = 2)
  BY <1>1, <1>2 DEF LineFacts
<1>5. stream[q] = "LF" <=> AtEnd(w[q], sent, LineEnd)  BY <1>3, <1>4 DEF AtEnd
<1>6. stream[q] = "CR" => w[q].off = 1 /\ Len(LineEnd) = 2
  <2> HAVE stream[q] = "CR"
  <2>1. w[q].off = Len(LineEnd) - 1 /\ Len(LineEnd) = 2  BY <1>4
  <2>2. 2 - 1 = 1  OBVIOUS
  <2> QED  BY <2>1, <2>2
<1>7. w[q].off \in 1 .. Len(LineEnd)  BY <1>2, <1>4
<1> QED  BY <1>3, <1>4, <1>5, <1>6, <1>7

-----------------------------------------------------------------------------
(***************************************************************************)
(* The space and the value of a line, whatever the parser made of its name. *)
(***************************************************************************)
LEMMA FieldSums ==
  ASSUME NEW n \in {0, 2}, NEW e \in {1, 2}
  PROVE  /\ n + 4 \in n + 3 .. n + 3 + e /\ (n + 4) - (n + 3) = 1 /\ n + 4 # n + 5
         /\ n + 3 < n + 3 + e /\ (n + 3) + 1 = n + 4
         /\ n + 3 \in 1 .. n + 3 + e
OBVIOUS

\* Behind the space the value begins.
LEMMA AfterSpace ==
  ASSUME NEW w, Types, Layout(w), at \in 1 .. Len(stream), ~IsBlank(w[at], sent),
         NEW f, f = sent[w[at].msg][w[at].line],
         SpaceAt(f, w[at].off, valueEnd, at), stream[at] = "SP"
  PROVE  /\ Sp(f) \in {0, 2} /\ w[at].off = Sp(f) + 2 /\ w[at].off < Len(TextOf(w[at], sent, LineEnd))
         /\ at + 1 \in 1 .. Len(stream) /\ w[at + 1].msg = w[at].msg
         /\ w[at + 1].line = w[at].line /\ w[at + 1].off = Sp(f) + 3
<1>1. At(w, at)  BY Here
<1>2. /\ Sp(f) \in {0, 2} /\ FieldCharacter(f, w[at].off, stream[at])
      /\ Len(TextOf(w[at], sent, LineEnd)) = Sp(f) + 3 + Len(LineEnd)
      /\ Len(LineEnd) \in {1, 2}
  <2>1. Len(LineEnd) \in {1, 2}  BY <1>1 DEF At
  <2> QED  BY <1>1, <2>1, OnLine
<1>3. w[at].off = Sp(f) + 2  BY <1>2 DEF FieldCharacter
<1>4. w[at].off < Len(TextOf(w[at], sent, LineEnd)) /\ ~AtEnd(w[at], sent, LineEnd)  BY <1>2, <1>3, SMTT(30) DEF AtEnd
<1>5. (Sp(f) + 2) + 1 = Sp(f) + 3  BY <1>2
<1> QED  BY <1>2, <1>3, <1>4, <1>5, Ahead, SMTT(30)

\* What is no space is the value.
LEMMA FirstOfValue ==
  ASSUME NEW w, Types, Layout(w), at \in 1 .. Len(stream), ~IsBlank(w[at], sent),
         NEW f, f = sent[w[at].msg][w[at].line],
         SpaceAt(f, w[at].off, valueEnd, at), stream[at] # "SP"
  PROVE  ValueAt(f, w[at].off, Len(LineEnd), stream, at, valueEnd, at)
<1>1. At(w, at)  BY Here
<1>2. Sp(f) \in {0, 2} /\ FieldCharacter(f, w[at].off, stream[at])  BY <1>1, OnLine
<1>3. Len(LineEnd) \in {1, 2}  BY <1>1 DEF At
<1>4. w[at].off = Sp(f) + 3  BY <1>2 DEF FieldCharacter, SpaceAt
<1>5. valueEnd < at /\ at \in Nat  BY DEF SpaceAt, Types
<1>6. (Sp(f) + 3) - (Sp(f) + 3) = 0 /\ Sp(f) + 3 \in Sp(f) + 3 .. Sp(f) + 3 + Len(LineEnd)
      /\ ~(Sp(f) + 3 > Sp(f) + 3) /\ Sp(f) + 3 # Sp(f) + 5
  BY <1>2, <1>3, SMTT(30)
<1>7. at + 0 = at  BY <1>5
<1> QED  BY <1>4, <1>5, <1>6, <1>7 DEF ValueAt

\* At the carriage return of a value's line the value has been read.
LEMMA ValueAtCarriageReturn ==
  ASSUME NEW w, Types, Layout(w), at \in 1 .. Len(stream), ~IsBlank(w[at], sent),
         NEW f, f = sent[w[at].msg][w[at].line],
         ValueAt(f, w[at].off, Len(LineEnd), stream, valueStart, valueEnd, at), stream[at] = "CR"
  PROVE  /\ at + 1 \in 1 .. Len(stream) /\ w[at + 1].msg = w[at].msg
         /\ w[at + 1].line = w[at].line
         /\ ValueAt(f, w[at + 1].off, Len(LineEnd), stream, valueStart, at, at + 1)
<1>1. At(w, at)  BY Here
<1>2. /\ Sp(f) \in {0, 2} /\ w[at].off = Sp(f) + 4 /\ Len(LineEnd) = 2
      /\ Len(TextOf(w[at], sent, LineEnd)) = Sp(f) + 3 + Len(LineEnd)
  BY <1>1, OnLine
<1>3. w[at].off < Len(TextOf(w[at], sent, LineEnd)) /\ ~AtEnd(w[at], sent, LineEnd)  BY <1>2 DEF AtEnd
<1>4. /\ at + 1 \in 1 .. Len(stream) /\ w[at + 1].msg = w[at].msg
      /\ w[at + 1].line = w[at].line /\ w[at + 1].off = Sp(f) + 5
  <2>1. (Sp(f) + 4) + 1 = Sp(f) + 5  BY <1>2
  <2> QED  BY <1>2, <1>3, <2>1, Ahead, SMTT(30)
<1>5. valueStart + 1 = at /\ stream[valueStart] = f.value /\ valueStart \in Nat
  <2>1. valueStart + ((Sp(f) + 4) - (Sp(f) + 3)) = at
        /\ (Sp(f) + 4 > Sp(f) + 3 => stream[valueStart] = f.value)
    BY <1>2 DEF ValueAt
  <2>2. (Sp(f) + 4) - (Sp(f) + 3) = 1 /\ Sp(f) + 4 > Sp(f) + 3  BY <1>2
  <2>3. valueStart \in Nat  BY DEF Types
  <2> QED  BY <2>1, <2>2, <2>3
<1>6. /\ Sp(f) + 5 \in Sp(f) + 3 .. Sp(f) + 3 + Len(LineEnd)
      /\ (Sp(f) + 5) - (Sp(f) + 3) = 2
  BY <1>2, SMTT(30)
<1>7. valueStart + 2 = at + 1 /\ at = valueStart + 1  BY <1>5
<1>8. ValueAt(f, Sp(f) + 5, Len(LineEnd), stream, valueStart, at, at + 1)
  BY <1>5, <1>6, <1>7 DEF ValueAt
<1> QED  BY <1>4, <1>8

\* At any other character before the end of the line the value goes on.
LEMMA ValueGoesOn ==
  ASSUME NEW w, Types, Layout(w), at \in 1 .. Len(stream), ~IsBlank(w[at], sent),
         NEW f, f = sent[w[at].msg][w[at].line],
         ValueAt(f, w[at].off, Len(LineEnd), stream, valueStart, valueEnd, at),
         stream[at] \notin {"CR", "LF"}
  PROVE  /\ at + 1 \in 1 .. Len(stream) /\ w[at + 1].msg = w[at].msg
         /\ w[at + 1].line = w[at].line
         /\ ValueAt(f, w[at + 1].off, Len(LineEnd), stream, valueStart, valueEnd, at + 1)
<1>1. At(w, at)  BY Here
<1>2. /\ Sp(f) \in {0, 2} /\ FieldCharacter(f, w[at].off, stream[at])
      /\ Len(TextOf(w[at], sent, LineEnd)) = Sp(f) + 3 + Len(LineEnd)
      /\ Len(LineEnd) \in {1, 2}
  <2>1. Len(LineEnd) \in {1, 2}  BY <1>1 DEF At
  <2> QED  BY <1>1, <2>1, OnLine
<1>3. w[at].off = Sp(f) + 3 /\ stream[at] = f.value
  <2>1. w[at].off \in Sp(f) + 3 .. Sp(f) + 3 + Len(LineEnd)  BY DEF ValueAt
  <2>2. ~(w[at].off > Sp(f) + 3)  BY <1>2 DEF FieldCharacter
  <2>3. w[at].off = Sp(f) + 3  BY <1>2, <2>1, <2>2
  <2> QED  BY <1>2, <2>3 DEF FieldCharacter
<1>4. w[at].off < Len(TextOf(w[at], sent, LineEnd)) /\ ~AtEnd(w[at], sent, LineEnd)  
  <2>1. Sp(f) + 3 < Sp(f) + 3 + Len(LineEnd)  BY <1>2, FieldSums
  <2> QED  BY <1>2, <1>3, <2>1 DEF AtEnd
<1>5. /\ at + 1 \in 1 .. Len(stream) /\ w[at + 1].msg = w[at].msg
      /\ w[at + 1].line = w[at].line /\ w[at + 1].off = Sp(f) + 4
  <2>1. (Sp(f) + 3) + 1 = Sp(f) + 4  BY <1>2, FieldSums
  <2>2. /\ at + 1 \in 1 .. Len(stream) /\ w[at + 1].msg = w[at].msg
        /\ w[at + 1].line = w[at].line /\ w[at + 1].off = w[at].off + 1
    BY <1>4, Ahead
  <2> QED  BY <1>3, <2>1, <2>2
<1>6. valueStart = at /\ valueEnd < valueStart /\ at \in Nat
  <2>1. valueStart + ((Sp(f) + 3) - (Sp(f) + 3)) = at
        /\ IF Sp(f) + 3 = Sp(f) + 5 THEN valueEnd = valueStart + 1 ELSE valueEnd < valueStart
    BY <1>3 DEF ValueAt
  <2>2. (Sp(f) + 3) - (Sp(f) + 3) = 0 /\ Sp(f) + 3 # Sp(f) + 5  BY <1>2
  <2>3. valueStart \in Nat /\ at \in Nat  BY DEF Types
  <2> QED  BY <2>1, <2>2, <2>3
<1>7. /\ Sp(f) + 4 \in Sp(f) + 3 .. Sp(f) + 3 + Len(LineEnd)
      /\ (Sp(f) + 4) - (Sp(f) + 3) = 1 /\ Sp(f) + 4 # Sp(f) + 5
  BY <1>2, FieldSums
<1>8. ValueAt(f, Sp(f) + 4, Len(LineEnd), stream, valueStart, valueEnd, at + 1)
  BY <1>3, <1>6, <1>7 DEF ValueAt
<1> QED  BY <1>5, <1>8

\* At the line feed the value is the field's, and the next line begins.
LEMMA ValueEnds ==
  ASSUME NEW w, Types, Layout(w), at \in 1 .. Len(stream), ~IsBlank(w[at], sent),
         NEW f, f = sent[w[at].msg][w[at].line],
         ValueAt(f, w[at].off, Len(LineEnd), stream, valueStart, valueEnd, at),
         stream[at] = "LF",
         NEW v, v = IF valueEnd < valueStart THEN at ELSE valueEnd
  PROVE  /\ at + 1 \in 1 .. Len(stream) /\ w[at + 1].msg = w[at].msg
         /\ w[at + 1].line = w[at].line + 1 /\ w[at + 1].off = 1
         /\ SubSeq(stream, valueStart, v - 1) = <<f.value>>
         /\ v \in Nat \ {0} /\ v <= at
<1>1. At(w, at)  BY Here
<1>2. /\ Sp(f) \in {0, 2} /\ w[at].off = Sp(f) + 3 + Len(LineEnd)
      /\ Len(TextOf(w[at], sent, LineEnd)) = Sp(f) + 3 + Len(LineEnd) /\ f.value \in STRING
  BY <1>1, OnLine
<1>3. Len(LineEnd) \in {1, 2}  BY <1>1 DEF At
<1>4. /\ at + 1 \in 1 .. Len(stream) /\ w[at + 1].msg = w[at].msg
      /\ w[at + 1].line = w[at].line + 1 /\ w[at + 1].off = 1
  <2>1. ~AtEnd(w[at], sent, LineEnd) /\ w[at].off = Len(TextOf(w[at], sent, LineEnd))  BY <1>2 DEF AtEnd
  <2> QED  BY <2>1, Ahead
<1>5. valueStart \in Nat \ {0} /\ at \in Nat /\ stream \in Seq(Alphabet)  BY DEF Types
<1>6. stream[valueStart] = f.value /\ v = valueStart + 1 /\ v <= at
  <2>1. CASE Len(LineEnd) = 1
    <3>1. w[at].off = Sp(f) + 4  BY <1>2, <2>1, FieldSums
    <3>2. /\ valueStart + ((Sp(f) + 4) - (Sp(f) + 3)) = at
          /\ Sp(f) + 4 > Sp(f) + 3 => stream[valueStart] = f.value
          /\ Sp(f) + 4 # Sp(f) + 5 => valueEnd < valueStart
      BY <3>1 DEF ValueAt
    <3>3. (Sp(f) + 4) - (Sp(f) + 3) = 1 /\ Sp(f) + 4 > Sp(f) + 3 /\ Sp(f) + 4 # Sp(f) + 5
      BY <1>2, FieldSums
    <3> QED  BY <1>5, <3>2, <3>3
  <2>2. CASE Len(LineEnd) = 2
    <3>1. w[at].off = Sp(f) + 5  BY <1>2, <2>2, FieldSums
    <3>2. /\ valueStart + ((Sp(f) + 5) - (Sp(f) + 3)) = at
          /\ Sp(f) + 5 > Sp(f) + 3 => stream[valueStart] = f.value
          /\ valueEnd = valueStart + 1
      BY <3>1 DEF ValueAt
    <3>3. (Sp(f) + 5) - (Sp(f) + 3) = 2 /\ Sp(f) + 5 > Sp(f) + 3
      BY <1>2, FieldSums
    <3>4. v = valueEnd  BY <1>5, <3>2
    <3> QED  BY <1>5, <3>2, <3>3, <3>4
  <2> QED  BY <1>3, <2>1, <2>2
<1>7. SubSeq(stream, valueStart, v - 1) = <<f.value>>
  <2>1. f.value \in Alphabet  BY <1>2 DEF Alphabet
  <2>2. <<f.value>> \in Seq(Alphabet) /\ Len(<<f.value>>) = 1 /\ <<f.value>>[1] = f.value
    BY <2>1, Tuples
  <2> DEFINE t == <<f.value>>
  <2> HIDE DEF t
  <2>3. t \in Seq(Alphabet) /\ Len(t) = 1 /\ t[1] = f.value  BY <2>2 DEF t
  <2>4. \A q \in 1 .. Len(t) : stream[valueStart + (q - 1)] = t[q]
    <3>1. \A q \in 1 .. 1 : q = 1  OBVIOUS
    <3>2. valueStart + (1 - 1) = valueStart  BY <1>5
    <3> QED  BY <1>6, <2>3, <3>1, <3>2
  <2>5. v \in Nat /\ v = valueStart + Len(t) /\ v <= Len(stream) + 1
    <3>1. Len(stream) \in Nat /\ at <= Len(stream)  BY <1>5
    <3>2. v = valueStart + Len(t)  BY <1>6, <2>3
    <3>3. v \in Nat  BY <1>5, <1>6
    <3>4. v <= Len(stream) + 1  BY <1>5, <1>6, <3>1, <3>3
    <3> QED  BY <3>2, <3>3, <3>4
  <2>6. SubSeq(stream, valueStart, v - 1) = t
    BY <1>5, <2>3, <2>4, <2>5, ReadOff
  <2> QED  BY <2>6 DEF t
<1> QED  BY <1>4, <1>5, <1>6, <1>7

-----------------------------------------------------------------------------
(***************************************************************************)
(* What is known of a message when one more of its lines was read.         *)
(***************************************************************************)
LEMMA AppendBehind ==
  \A x \in Seq(STRING), d \in Seq(Seq(STRING)), y \in Seq(STRING) :
    Append(<<x>> \o d, y) = <<x>> \o Append(d, y)
<1> TAKE x \in Seq(STRING), d \in Seq(Seq(STRING)), y \in Seq(STRING)
<1>1. Append(<<x>> \o d, y) \in Seq(Seq(STRING)) /\ <<x>> \o Append(d, y) \in Seq(Seq(STRING))
  OBVIOUS
<1>2. Len(Append(<<x>> \o d, y)) = Len(d) + 2 /\ Len(<<x>> \o Append(d, y)) = Len(d) + 2
  OBVIOUS
<1>3. \A i \in 1 .. Len(d) + 2 : Append(<<x>> \o d, y)[i] = (<<x>> \o Append(d, y))[i]
  OBVIOUS
<1> QED  BY <1>1, <1>2, <1>3, SeqEqual

\* One line more, and the data it brings.
LEMMA NextData ==
  ASSUME NEW m \in Seq(Field), NEW i \in 1 .. Len(m), NEW s \in 0 .. i - 1, NEW ms,
         DataIn(m, s, i, ms)
  PROVE  /\ m[i].name = "data" => DataIn(m, s, i + 1, Append(ms, <<m[i].value>>))
         /\ m[i].name # "data" => DataIn(m, s, i + 1, ms)
<1> DEFINE d == DataBehind(m, s)
<1>1. s \in 0 .. Len(m) /\ i \in s + 1 .. Len(m) /\ i - 1 \in s .. Len(m) /\ (i + 1) - 1 = i
  OBVIOUS
<1>2. d[i] = IF m[i].name = "data" THEN Append(d[i - 1], <<m[i].value>>) ELSE d[i - 1]
  BY <1>1, DataLineByLine
<1>3. d[i - 1] \in Seq(Seq(STRING))  BY <1>1, DataLineByLine DEF Texts
<1>4. m[i].value \in STRING
  <2>1. m[i] \in Field  BY ElementOfSeq
  <2> QED  BY <2>1 DEF Field
<1> HIDE DEF d
<1>5. ASSUME m[i].name # "data"
      PROVE  DataIn(m, s, i + 1, ms)
  BY <1>1, <1>2, <1>5 DEF DataIn, d
<1>6. ASSUME m[i].name = "data"
      PROVE  DataIn(m, s, i + 1, Append(ms, <<m[i].value>>))
  <2>1. CASE ms = d[i - 1]
    BY <1>1, <1>2, <1>6, <2>1 DEF DataIn, d
  <2>2. CASE s # 0 /\ m[s].name = "id" /\ ms = <<<<m[s].value>>>> \o d[i - 1]
    <3>1. s \in 1 .. Len(m)  BY <1>1, <2>2
    <3>2. m[s].value \in STRING
      <4>1. m[s] \in Field  BY <3>1, ElementOfSeq
      <4> QED  BY <4>1 DEF Field
    <3>3. <<m[s].value>> \in Seq(STRING) /\ <<m[i].value>> \in Seq(STRING)  BY <1>4, <3>2
    <3>4. Append(ms, <<m[i].value>>) = <<<<m[s].value>>>> \o Append(d[i - 1], <<m[i].value>>)
      BY <1>3, <2>2, <3>3, AppendBehind
    <3> QED  BY <1>1, <1>2, <1>6, <2>2, <3>4 DEF DataIn, d
  <2> QED  BY <2>1, <2>2 DEF DataIn, d
<1> QED  BY <1>5, <1>6

\* One line more, and what it says of the event, the id and the data.
LEMMA NextLine ==
  ASSUME NEW m \in Seq(Field), NEW i \in 1 .. Len(m), NEW s \in 0 .. i - 1,
         NEW ev, NEW nr, NEW ms, Collected(m, s, i, ev, nr, ms)
  PROVE  /\ m[i].name \in {"event", "comment"} => Collected(m, s, i + 1, <<m[i].value>>, nr, ms)
         /\ m[i].name = "data" => Collected(m, s, i + 1, ev, nr, Append(ms, <<m[i].value>>))
         /\ m[i].name = "id" => Collected(m, s, i + 1, ev, <<m[i].value>>, ms)
         /\ m[i].name = "retry" => Collected(m, s, i + 1, ev, nr, ms)
<1>1. /\ (i + 1) - 1 = i /\ i \in s + 1 .. i
      /\ \A j \in s + 1 .. i : j \in s + 1 .. i - 1 \/ j = i
      /\ \A j \in s + 1 .. i - 1 : j \in s + 1 .. i
  OBVIOUS
<1>2. m[i].name \in {"event", "comment"} => EventIn(m, s, i + 1, <<m[i].value>>)
  BY <1>1 DEF EventIn
<1>3. m[i].name \notin {"event", "comment"} => EventIn(m, s, i + 1, ev)
  <2> HAVE m[i].name \notin {"event", "comment"}
  <2>1. EventIn(m, s, i, ev)  BY DEF Collected
  <2>2. CASE ev = Null /\ \A j \in s + 1 .. i - 1 : m[j].name \notin {"event", "comment"}
    BY <1>1, <2>2 DEF EventIn
  <2>3. CASE \E j \in s + 1 .. i - 1 : m[j].name \in {"event", "comment"} /\ ev = <<m[j].value>>
    BY <1>1, <2>3 DEF EventIn
  <2> QED  BY <2>1, <2>2, <2>3 DEF EventIn
<1>4. m[i].name # "id" => IdIn(m, s, i + 1, nr)
  <2>1. IdIn(m, s, i, nr)  BY DEF Collected
  <2> QED  BY <1>1, <2>1 DEF IdIn
<1>5. m[i].name = "id" => IdIn(m, s, i + 1, <<m[i].value>>)
  BY <1>1 DEF IdIn
<1>6. /\ m[i].name = "data" => DataIn(m, s, i + 1, Append(ms, <<m[i].value>>))
      /\ m[i].name # "data" => DataIn(m, s, i + 1, ms)
  <2>1. DataIn(m, s, i, ms)  BY DEF Collected
  <2> QED  BY <2>1, NextData
<1> QED  BY <1>2, <1>3, <1>4, <1>5, <1>6 DEF Collected

\* A message has one event and one id.
LEMMA OnlyOne ==
  ASSUME NEW m \in Seq(Field), WellFormed(m), NEW i \in 1 .. Len(m), NEW s \in 0 .. i - 1,
         NEW ev, NEW nr, NEW ms, Collected(m, s, i, ev, nr, ms)
  PROVE  /\ m[i].name \in {"event", "comment"} => ev = Null
         /\ m[i].name = "id" => nr = Null
<1>1. \A j \in s + 1 .. i - 1 : j \in DOMAIN m /\ j < i
  OBVIOUS
<1>2. i \in DOMAIN m  OBVIOUS
<1>3. \A j \in s + 1 .. i - 1 : m[i].name = "event" => m[j].name # "event"
  BY <1>1, <1>2 DEF WellFormed
<1>4. \A j \in s + 1 .. i - 1 : m[i].name = "id" => m[j].name # "id"
  BY <1>1, <1>2 DEF WellFormed
<1>5. \A j \in s + 1 .. i - 1 : m[i].name # "comment" /\ m[j].name # "comment"
  <2> TAKE j \in s + 1 .. i - 1
  <2>1. j \in DOMAIN m /\ j < i /\ Len(m) # 1  BY <1>1
  <2> QED  BY <1>2, <2>1 DEF WellFormed
<1>6. m[i].name \in {"event", "comment"} => ev = Null
  BY <1>3, <1>5 DEF Collected, EventIn
<1>7. m[i].name = "id" => nr = Null
  BY <1>4 DEF Collected, IdIn
<1> QED  BY <1>6, <1>7

-----------------------------------------------------------------------------
(***************************************************************************)
(* A message read from the beginning of a line, character by character.    *)
(***************************************************************************)
LEMMA CurrentChar ==
  ASSUME NEW w, Types, Layout(w), Reading
  PROVE  /\ at \in Nat /\ at \in 1 .. Len(stream) /\ Len(stream) \in Nat /\ at <= to
         /\ c = stream[at] /\ At(w, at)
<1>1. at \in 1 .. Len(stream)  BY DEF Types, Reading
<1> QED  BY <1>1, Here DEF Types, c, Reading

\* The parser goes on to a character of the same message.
Onward(w) == at' \in 1 .. Len(stream) /\ w[at'].msg = w[at].msg

\* Who knows the message skips the carriage return of the blank line.
LEMMA FullSkipCarriageReturn ==
  ASSUME NEW w, NEW s, Types, Layout(w), Full(w, s), SkipCarriageReturn
  PROVE  Onward(w) /\ Full(w, s)'
<1> DEFINE p == w[at]
           f == sent[p.msg][p.line]
<1>0. Reading /\ state = "initial" /\ state' = "initial" /\ at' = at + 1 /\ c = "CR"
      /\ UNCHANGED <<streamVars, fieldVars, valueEnd>>
  BY DEF SkipCarriageReturn, Step, indexVars
<1>1. at \in Nat /\ at \in 1 .. Len(stream) /\ stream[at] = "CR" /\ At(w, at)
  BY <1>0, CurrentChar
<1>2. /\ s \in 0 .. p.line - 1 /\ Collected(sent[p.msg], s, p.line, event, id, message)
      /\ valueEnd <= at /\ (p.off = 1 \/ IsBlank(p, sent))
  BY <1>0 DEF Full
<1>3. IsBlank(p, sent)
  <2> SUFFICES ASSUME ~IsBlank(p, sent) PROVE FALSE  OBVIOUS
  <2>1. p.off = 1 /\ Sp(f) \in {0, 2} /\ FieldCharacter(f, p.off, stream[at])
    BY <1>1, <1>2, OnLine
  <2> QED  BY <1>1, <2>1 DEF FieldCharacter
<1>4. p.off = 1 /\ Len(LineEnd) = 2 /\ p.off < Len(TextOf(p, sent, LineEnd))
  <2>1. p.off = 1 /\ Len(LineEnd) = 2 /\ Len(TextOf(p, sent, LineEnd)) = Len(LineEnd)
    BY <1>1, <1>3, OnBlank
  <2> QED  BY <2>1
<1>5. ~AtEnd(p, sent, LineEnd)  BY <1>4 DEF AtEnd
<1>6. at + 1 \in 1 .. Len(stream) /\ w[at + 1].msg = p.msg /\ w[at + 1].line = p.line
  BY <1>1, <1>4, <1>5, Ahead
<1>7. Onward(w)  BY <1>0, <1>6 DEF Onward
<1>8. valueEnd' <= at'  BY <1>0, <1>1, <1>2 DEF Types
<1>9. IsBlank(w[at], sent)'  BY <1>0, <1>3, <1>6 DEF IsBlank, streamVars
<1>10. Full(w, s)'
  <2>1. sent' = sent /\ event' = event /\ id' = id /\ message' = message
    BY <1>0 DEF streamVars, fieldVars
  <2> QED  BY <1>0, <1>2, <1>6, <1>8, <1>9, <2>1 DEF Full
<1> QED  BY <1>7, <1>10

\* A name begins at the first character of a line, if the state machine was
\* reset in front of it.
LEMMA FullStartName ==
  ASSUME NEW w, NEW s, Types, Layout(w), StartName,
         w[at].off = 1, valueEnd <= at,
         s \in 0 .. w[at].line - 1,
         Collected(sent[w[at].msg], s, w[at].line, event, id, message)
  PROVE  Onward(w) /\ Full(w, s)'
<1> DEFINE p == w[at]
           f == sent[p.msg][p.line]
<1>0. Reading /\ state = "initial" /\ state' = "name" /\ at' = at /\ c \notin {"CR", "LF"}
      /\ nameStart' = at /\ UNCHANGED <<streamVars, fieldVars, valueEnd>>
  BY DEF StartName, Step
<1>1. at \in Nat /\ at \in 1 .. Len(stream) /\ stream[at] \notin {"CR", "LF"} /\ At(w, at)
  BY <1>0, CurrentChar
<1>2. ~IsBlank(p, sent)  BY <1>1, OnBlank
<1>3. Sp(f) \in {0, 2}  BY <1>1, <1>2, OnLine
<1>4. NameAt(f, 1, stream, at, at)  BY <1>1, <1>3 DEF NameAt
<1>5. sent' = sent /\ event' = event /\ id' = id /\ message' = message /\ stream' = stream
  BY <1>0 DEF streamVars, fieldVars
<1>6. ~IsBlank(w[at], sent)'  BY <1>0, <1>2, <1>5 DEF IsBlank
<1>7. Full(w, s)'
  BY <1>0, <1>4, <1>5, <1>6 DEF Full
<1> QED  BY <1>0, <1>1, <1>7 DEF Onward

\* Who knows the message has read the field's name at the colon.
LEMMA FullEndName ==
  ASSUME NEW w, NEW s, Types, Layout(w), Full(w, s), EndName
  PROVE  Onward(w) /\ Full(w, s)'
<1> DEFINE p == w[at]
           f == sent[p.msg][p.line]
           n == Spelling(f.name)
<1>0. Reading /\ state = "name" /\ state' = "space" /\ at' = at + 1 /\ c = ":"
      /\ nameEnd' = at /\ UNCHANGED <<streamVars, fieldVars, nameStart, valueEnd>>
  BY DEF EndName, Step
<1>1. at \in Nat /\ at \in 1 .. Len(stream) /\ stream[at] = ":" /\ At(w, at) /\ Len(stream) \in Nat
  BY <1>0, CurrentChar
<1>2. /\ s \in 0 .. p.line - 1 /\ Collected(sent[p.msg], s, p.line, event, id, message)
      /\ valueEnd <= at /\ ~IsBlank(p, sent) /\ NameAt(f, p.off, stream, nameStart, at)
  BY <1>0 DEF Full
<1>3. /\ Sp(f) \in {0, 2} /\ FieldCharacter(f, p.off, stream[at])
      /\ Len(TextOf(p, sent, LineEnd)) = Sp(f) + 3 + Len(LineEnd) /\ Len(LineEnd) \in {1, 2}
      /\ f.name \in FieldNames
  BY <1>1, <1>2, OnLine, ZenonT(40) DEF At
<1>4. p.off = Sp(f) + 1  BY <1>1, <1>3 DEF FieldCharacter
<1>5. p.off < Len(TextOf(p, sent, LineEnd)) /\ ~AtEnd(p, sent, LineEnd)  BY <1>2, <1>3, <1>4, SMTT(30) DEF AtEnd
<1>6. at + 1 \in 1 .. Len(stream) /\ w[at + 1].msg = p.msg /\ w[at + 1].line = p.line
      /\ w[at + 1].off = Sp(f) + 2
  BY <1>1, <1>3, <1>4, <1>5, Ahead, SMTT(30)
<1>7. sent' = sent /\ event' = event /\ id' = id /\ message' = message /\ stream' = stream
  BY <1>0 DEF streamVars, fieldVars
<1>8. SpaceAt(f, Sp(f) + 2, valueEnd, at + 1)
  BY <1>1, <1>2, <1>3 DEF SpaceAt, Types
<1>9. NameRead' = n
  <2>1. n \in Seq(Alphabet) /\ Len(n) = Sp(f)  BY <1>3, Spellings DEF Sp
  <2>2. nameStart + Sp(f) = at /\ \A q \in 1 .. Sp(f) : stream[nameStart + (q - 1)] = n[q]
    <3> HIDE DEF n, p
    <3>1. NameAt(f, Sp(f) + 1, stream, nameStart, at)  BY <1>2, <1>4
    <3>2. (Sp(f) + 1) - 1 = Sp(f)  BY <1>3
    <3>3. nameStart + ((Sp(f) + 1) - 1) = at
          /\ \A q \in 1 .. (Sp(f) + 1) - 1 : stream[nameStart + (q - 1)] = Spelling(f.name)[q]
      <4> HIDE DEF f
      <4> QED  BY <3>1 DEF NameAt
    <3> QED  BY <3>2, <3>3 DEF n
  <2>3. nameStart \in Nat \ {0} /\ stream \in Seq(Alphabet)  BY DEF Types
  <2> HIDE DEF n, f
  <2>4. SubSeq(stream, nameStart, at - 1) = n
    BY <1>1, <2>1, <2>2, <2>3, ReadOff
  <2> QED  BY <1>0, <1>7, <2>4 DEF NameRead
<1>10. ~IsBlank(w[at], sent)'  BY <1>0, <1>2, <1>6, <1>7 DEF IsBlank
<1>11. Full(w, s)'
  BY <1>0, <1>2, <1>6, <1>7, <1>8, <1>9, <1>10 DEF Full
<1> QED  BY <1>0, <1>6, <1>11 DEF Onward

\* Who knows the message reads on in the field's name.
LEMMA FullContinueName ==
  ASSUME NEW w, NEW s, Types, Layout(w), Full(w, s), ContinueName
  PROVE  Onward(w) /\ Full(w, s)'
<1> DEFINE p == w[at]
           f == sent[p.msg][p.line]
           o == p.off
<1>0. Reading /\ state = "name" /\ state' = "name" /\ at' = at + 1 /\ c # ":"
      /\ UNCHANGED <<streamVars, fieldVars, nameStart, valueEnd>>
  BY DEF ContinueName, Step, indexVars
<1>1. at \in Nat /\ at \in 1 .. Len(stream) /\ stream[at] # ":" /\ At(w, at)
  BY <1>0, CurrentChar
<1>2. /\ s \in 0 .. p.line - 1 /\ Collected(sent[p.msg], s, p.line, event, id, message)
      /\ valueEnd <= at /\ ~IsBlank(p, sent) /\ NameAt(f, o, stream, nameStart, at)
  BY <1>0 DEF Full
<1>3. /\ Sp(f) \in {0, 2} /\ FieldCharacter(f, o, stream[at])
      /\ Len(TextOf(p, sent, LineEnd)) = Sp(f) + 3 + Len(LineEnd)
      /\ Len(LineEnd) \in {1, 2}
      /\ o \in 1 .. Sp(f) + 3 + Len(LineEnd)
  <2>1. Len(LineEnd) \in {1, 2}  BY <1>1 DEF At
  <2> QED  BY <1>1, <1>2, <2>1, OnLine
<1>4. o \in Nat /\ o >= 1 /\ o <= Sp(f) /\ stream[at] = Spelling(f.name)[o]
  <2>1. o <= Sp(f) + 1 /\ o # Sp(f) + 1  BY <1>1, <1>2, <1>3 DEF FieldCharacter, NameAt
  <2> QED  BY <1>3, <2>1, SMTT(30) DEF FieldCharacter
<1>5. o < Len(TextOf(p, sent, LineEnd)) /\ ~AtEnd(p, sent, LineEnd)
  <2>1. ~AtEnd(p, sent, LineEnd)  BY <1>2 DEF AtEnd
  <2> HIDE DEF o, p, f
  <2>2. o < Sp(f) + 3 + Len(LineEnd)  BY <1>3, <1>4
  <2> QED  BY <1>3, <2>1, <2>2
<1>6. at + 1 \in 1 .. Len(stream) /\ w[at + 1].msg = p.msg /\ w[at + 1].line = p.line
      /\ w[at + 1].off = o + 1
  BY <1>1, <1>5, Ahead
<1>7. sent' = sent /\ event' = event /\ id' = id /\ message' = message /\ stream' = stream
  BY <1>0 DEF streamVars, fieldVars
<1>8. NameAt(f, o + 1, stream, nameStart, at + 1)
  <2> HIDE DEF o, f
  <2>1. nameStart + (o - 1) = at /\ nameStart \in Nat  BY <1>2 DEF NameAt, Types
  <2>2. nameStart + ((o + 1) - 1) = at + 1  BY <1>1, <1>4, <2>1
  <2>3. o + 1 <= Sp(f) + 1  BY <1>3, <1>4
  <2>4. \A q \in 1 .. (o + 1) - 1 : stream[nameStart + (q - 1)] = Spelling(f.name)[q]
    <3> TAKE q \in 1 .. (o + 1) - 1
    <3>1. q \in 1 .. o - 1 \/ q = o  BY <1>4
    <3>2. CASE q = o  BY <1>4, <2>1, <3>2
    <3>3. CASE q \in 1 .. o - 1  BY <1>2, <3>3 DEF NameAt
    <3> QED  BY <3>1, <3>2, <3>3
  <2> QED  BY <2>2, <2>3, <2>4 DEF NameAt
<1>9. valueEnd' <= at'  BY <1>0, <1>1, <1>2 DEF Types
<1>10. ~IsBlank(w[at], sent)'  BY <1>0, <1>2, <1>6, <1>7 DEF IsBlank
<1>11. Full(w, s)'
  BY <1>0, <1>2, <1>6, <1>7, <1>8, <1>9, <1>10 DEF Full
<1> QED  BY <1>0, <1>6, <1>11 DEF Onward

\* Who knows the message skips the space in front of the value.
LEMMA FullSkipSpace ==
  ASSUME NEW w, NEW s, Types, Layout(w), Full(w, s), SkipSpace
  PROVE  Onward(w) /\ Full(w, s)'
<1> DEFINE p == w[at]
           f == sent[p.msg][p.line]
<1>0. Reading /\ state = "space" /\ state' = "space" /\ at' = at + 1 /\ c = "SP"
      /\ UNCHANGED <<streamVars, fieldVars, nameStart, nameEnd, valueEnd>>
  BY DEF SkipSpace, Step, indexVars
<1>1. at \in Nat /\ at \in 1 .. Len(stream) /\ stream[at] = "SP" /\ At(w, at)
  BY <1>0, CurrentChar
<1>2. /\ s \in 0 .. p.line - 1 /\ Collected(sent[p.msg], s, p.line, event, id, message)
      /\ NameRead = Spelling(f.name) /\ ~IsBlank(p, sent) /\ SpaceAt(f, p.off, valueEnd, at)
  BY <1>0 DEF Full
<1>3. /\ Sp(f) \in {0, 2} /\ p.off = Sp(f) + 2 /\ p.off < Len(TextOf(p, sent, LineEnd))
      /\ at + 1 \in 1 .. Len(stream) /\ w[at + 1].msg = p.msg /\ w[at + 1].line = p.line
      /\ w[at + 1].off = Sp(f) + 3
  BY <1>1, <1>2, AfterSpace
<1>7. sent' = sent /\ event' = event /\ id' = id /\ message' = message /\ stream' = stream
  BY <1>0 DEF streamVars, fieldVars
<1>8. SpaceAt(f, Sp(f) + 3, valueEnd, at + 1)
  BY <1>1, <1>2 DEF SpaceAt, Types
<1>9. NameRead' = NameRead  BY <1>0, <1>7 DEF NameRead
<1>10. ~IsBlank(w[at], sent)'  BY <1>0, <1>2, <1>3, <1>7 DEF IsBlank
<1>11. Full(w, s)'
  BY <1>0, <1>2, <1>3, <1>7, <1>8, <1>9, <1>10 DEF Full
<1> QED  BY <1>0, <1>3, <1>11 DEF Onward

\* Who knows the message begins the value where it begins.
LEMMA FullStartValue ==
  ASSUME NEW w, NEW s, Types, Layout(w), Full(w, s), StartValue
  PROVE  Onward(w) /\ Full(w, s)'
<1> DEFINE p == w[at]
           f == sent[p.msg][p.line]
<1>0. Reading /\ state = "space" /\ state' = "value" /\ at' = at /\ c # "SP"
      /\ valueStart' = at /\ UNCHANGED <<streamVars, fieldVars, nameStart, nameEnd, valueEnd>>
  BY DEF StartValue, Step
<1>1. at \in Nat /\ at \in 1 .. Len(stream) /\ stream[at] # "SP" /\ At(w, at)
  BY <1>0, CurrentChar
<1>2. /\ s \in 0 .. p.line - 1 /\ Collected(sent[p.msg], s, p.line, event, id, message)
      /\ NameRead = Spelling(f.name) /\ ~IsBlank(p, sent) /\ SpaceAt(f, p.off, valueEnd, at)
  BY <1>0 DEF Full
<1>3. ValueAt(f, p.off, Len(LineEnd), stream, at, valueEnd, at)
  BY <1>1, <1>2, FirstOfValue
<1>7. /\ sent' = sent /\ event' = event /\ id' = id /\ message' = message /\ stream' = stream
      /\ LineEnd' = LineEnd
  BY <1>0 DEF streamVars, fieldVars, LineEnd
<1>9. NameRead' = NameRead  BY <1>0, <1>7 DEF NameRead
<1>10. ~IsBlank(w[at], sent)'  BY <1>0, <1>2, <1>7 DEF IsBlank
<1>11. Full(w, s)'
  BY <1>0, <1>2, <1>3, <1>7, <1>9, <1>10 DEF Full
<1> QED  BY <1>0, <1>1, <1>11 DEF Onward

\* Who knows the message ends the value at the carriage return.
LEMMA FullEndValueAtCarriageReturn ==
  ASSUME NEW w, NEW s, Types, Layout(w), Full(w, s), EndValueAtCarriageReturn
  PROVE  Onward(w) /\ Full(w, s)'
<1> DEFINE p == w[at]
           f == sent[p.msg][p.line]
<1>0. Reading /\ state = "value" /\ state' = "value" /\ at' = at + 1 /\ c = "CR"
      /\ valueEnd' = at /\ UNCHANGED <<streamVars, fieldVars, nameStart, nameEnd, valueStart>>
  BY DEF EndValueAtCarriageReturn, Step
<1>1. at \in Nat /\ at \in 1 .. Len(stream) /\ stream[at] = "CR" /\ At(w, at)
  BY <1>0, CurrentChar
<1>2. /\ s \in 0 .. p.line - 1 /\ Collected(sent[p.msg], s, p.line, event, id, message)
      /\ NameRead = Spelling(f.name) /\ ~IsBlank(p, sent)
      /\ ValueAt(f, p.off, Len(LineEnd), stream, valueStart, valueEnd, at)
  BY <1>0 DEF Full
<1>3. /\ at + 1 \in 1 .. Len(stream) /\ w[at + 1].msg = p.msg /\ w[at + 1].line = p.line
      /\ ValueAt(f, w[at + 1].off, Len(LineEnd), stream, valueStart, at, at + 1)
  BY <1>1, <1>2, ValueAtCarriageReturn
<1>7. /\ sent' = sent /\ event' = event /\ id' = id /\ message' = message /\ stream' = stream
      /\ LineEnd' = LineEnd
  BY <1>0 DEF streamVars, fieldVars, LineEnd
<1>9. NameRead' = NameRead  BY <1>0, <1>7 DEF NameRead
<1>10. ~IsBlank(w[at], sent)'  BY <1>0, <1>2, <1>3, <1>7 DEF IsBlank
<1>11. Full(w, s)'
  BY <1>0, <1>2, <1>3, <1>7, <1>9, <1>10 DEF Full
<1> QED  BY <1>0, <1>3, <1>11 DEF Onward

\* Who knows the message reads on in the value.
LEMMA FullContinueValue ==
  ASSUME NEW w, NEW s, Types, Layout(w), Full(w, s), ContinueValue
  PROVE  Onward(w) /\ Full(w, s)'
<1> DEFINE p == w[at]
           f == sent[p.msg][p.line]
<1>0. Reading /\ state = "value" /\ state' = "value" /\ at' = at + 1 /\ c \notin {"LF", "CR"}
      /\ UNCHANGED <<streamVars, fieldVars, nameStart, nameEnd, valueStart, valueEnd>>
  BY DEF ContinueValue, Step, indexVars
<1>1. at \in Nat /\ at \in 1 .. Len(stream) /\ stream[at] \notin {"LF", "CR"} /\ At(w, at)
  BY <1>0, CurrentChar
<1>2. /\ s \in 0 .. p.line - 1 /\ Collected(sent[p.msg], s, p.line, event, id, message)
      /\ NameRead = Spelling(f.name) /\ ~IsBlank(p, sent)
      /\ ValueAt(f, p.off, Len(LineEnd), stream, valueStart, valueEnd, at)
  BY <1>0 DEF Full
<1>3. /\ at + 1 \in 1 .. Len(stream) /\ w[at + 1].msg = p.msg /\ w[at + 1].line = p.line
      /\ ValueAt(f, w[at + 1].off, Len(LineEnd), stream, valueStart, valueEnd, at + 1)
  BY <1>1, <1>2, ValueGoesOn
<1>7. /\ sent' = sent /\ event' = event /\ id' = id /\ message' = message /\ stream' = stream
      /\ LineEnd' = LineEnd
  BY <1>0 DEF streamVars, fieldVars, LineEnd
<1>9. NameRead' = NameRead  BY <1>0, <1>7 DEF NameRead
<1>10. ~IsBlank(w[at], sent)'  BY <1>0, <1>2, <1>3, <1>7 DEF IsBlank
<1>11. Full(w, s)'
  BY <1>0, <1>2, <1>3, <1>7, <1>9, <1>10 DEF Full
<1> QED  BY <1>0, <1>3, <1>11 DEF Onward

\* Who knows the message takes the field for what it is, and no assertion fails.
LEMMA FullEndValue ==
  ASSUME NEW w, NEW s, Types, Layout(w), Full(w, s), EndValue
  PROVE  Onward(w) /\ Full(w, s)' /\ ~aborted'
<1> DEFINE p == w[at]
           m == sent[p.msg]
           i == p.line
           f == m[i]
           v == IF valueEnd < valueStart THEN at ELSE valueEnd
<1>0. Reading /\ state = "value" /\ state' = "initial" /\ at' = at + 1 /\ c = "LF"
      /\ valueEnd' = v /\ ReadField(SubSeq(stream, valueStart, v - 1))
      /\ UNCHANGED <<streamVars, nameStart, nameEnd, valueStart>> /\ ~aborted
  BY DEF EndValue, Step
<1>1. at \in Nat /\ at \in 1 .. Len(stream) /\ stream[at] = "LF" /\ At(w, at)
  BY <1>0, CurrentChar
<1>2. /\ s \in 0 .. i - 1 /\ Collected(m, s, i, event, id, message)
      /\ NameRead = Spelling(f.name) /\ ~IsBlank(p, sent)
      /\ ValueAt(f, p.off, Len(LineEnd), stream, valueStart, valueEnd, at)
  BY <1>0 DEF Full
<1>3. /\ at + 1 \in 1 .. Len(stream) /\ w[at + 1].msg = p.msg /\ w[at + 1].line = i + 1
      /\ w[at + 1].off = 1
      /\ SubSeq(stream, valueStart, v - 1) = <<f.value>>
      /\ v \in Nat \ {0} /\ v <= at
  BY <1>1, <1>2, ValueEnds
<1>4. m \in Seq(Field) /\ WellFormed(m) /\ i \in 1 .. Len(m) /\ f.name \in FieldNames
  BY <1>1, <1>2, OnLine DEF At
<1>5. sent' = sent  BY <1>0 DEF streamVars
<1>6. Collected(m, s, i + 1, event', id', message') /\ ~aborted'
  <2>0. ReadField(<<f.value>>) /\ ~aborted  BY <1>0, <1>3
  <2>1. /\ IsNamed("event") <=> f.name \in {"event", "comment"}
        /\ f.name # "comment" => /\ IsNamed("data") <=> f.name = "data"
                                 /\ IsNamed("id") <=> f.name = "id"
    BY <1>2, <1>4, FullName
  <2>2. /\ f.name \in {"event", "comment"} => event = Null
        /\ f.name = "id" => id = Null
    BY <1>2, <1>4, OnlyOne, SMTT(30)
  <2>3. /\ f.name \in {"event", "comment"} => Collected(m, s, i + 1, <<f.value>>, id, message)
        /\ f.name = "data" => Collected(m, s, i + 1, event, id, Append(message, <<f.value>>))
        /\ f.name = "id" => Collected(m, s, i + 1, event, <<f.value>>, message)
        /\ f.name = "retry" => Collected(m, s, i + 1, event, id, message)
    BY <1>2, <1>4, NextLine
  <2> HIDE DEF f, m, i, p
  <2>4. f.name \in {"event", "comment"} \/ f.name = "data" \/ f.name = "id" \/ f.name = "retry"
    BY <1>4 DEF FieldNames
  <2>5. CASE f.name \in {"event", "comment"}
    <3>1. event' = <<f.value>> /\ UNCHANGED <<message, id, aborted>>
      BY <2>0, <2>1, <2>2, <2>5 DEF ReadField
    <3> QED  BY <2>0, <2>3, <2>5, <3>1
  <2>6. CASE f.name = "data"
    <3>1. message' = Append(message, <<f.value>>) /\ UNCHANGED <<event, id, aborted>>
      BY <2>0, <2>1, <2>6 DEF ReadField
    <3> QED  BY <2>0, <2>3, <2>6, <3>1
  <2>7. CASE f.name = "id"
    <3>1. id' = <<f.value>> /\ UNCHANGED <<event, message, aborted>>
      BY <2>0, <2>1, <2>2, <2>7 DEF ReadField
    <3> QED  BY <2>0, <2>3, <2>7, <3>1
  <2>8. CASE f.name = "retry"
    <3>1. UNCHANGED <<event, message, id, aborted>>
      BY <2>0, <2>1, <2>8 DEF ReadField
    <3> QED  BY <2>0, <2>3, <2>8, <3>1
  <2> QED  BY <2>4, <2>5, <2>6, <2>7, <2>8
<1>7. s \in 0 .. (i + 1) - 1
  <2> HIDE DEF i, m
  <2> QED  BY <1>2, <1>4
<1>8. valueEnd' <= at'
  <2> HIDE DEF v
  <2> QED  BY <1>0, <1>1, <1>3
<1>9. Full(w, s)'
  BY <1>0, <1>3, <1>5, <1>6, <1>7, <1>8 DEF Full
<1> QED  BY <1>0, <1>3, <1>6, <1>9 DEF Onward

-----------------------------------------------------------------------------
(***************************************************************************)
(* A message of which the parser missed the beginning.                     *)
(***************************************************************************)
\* Nothing is known of the lines the parser did not read.
LEMMA FreshCollected ==
  ASSUME NEW m \in Seq(Field), NEW i \in 1 .. Len(m) + 1
  PROVE  Collected(m, i - 1, i, Null, Null, <<>>)
<1>1. i - 1 \in 0 .. Len(m) /\ \A j \in (i - 1) + 1 .. i - 1 : FALSE
  OBVIOUS
<1>2. DataBehind(m, i - 1)[i - 1] = <<>>  BY <1>1, DataLineByLine
<1> QED  BY <1>1, <1>2 DEF Collected, EventIn, IdIn, DataIn

\* The end of an id line, taken for data.
LEMMA IdCollected ==
  ASSUME NEW m \in Seq(Field), NEW i \in 1 .. Len(m), m[i].name = "id"
  PROVE  Collected(m, i, i + 1, Null, Null, <<<<m[i].value>>>>)
<1>1. /\ i \in 0 .. Len(m) /\ i # 0 /\ (i + 1) - 1 = i
      /\ \A j \in i + 1 .. (i + 1) - 1 : FALSE
  OBVIOUS
<1>2. DataBehind(m, i)[i] = <<>>  BY <1>1, DataLineByLine
<1>3. m[i].value \in STRING
  <2>1. m[i] \in Field  BY ElementOfSeq
  <2> QED  BY <2>1 DEF Field
<1>4. <<<<m[i].value>>>> \o <<>> = <<<<m[i].value>>>>  BY <1>3
<1>5. DataIn(m, i, i + 1, <<<<m[i].value>>>>)  BY <1>1, <1>2, <1>4 DEF DataIn
<1>6. EventIn(m, i, i + 1, Null) /\ IdIn(m, i, i + 1, Null)  BY <1>1 DEF EventIn, IdIn
<1> QED  BY <1>5, <1>6 DEF Collected

\* A name that begins with the space or the value of a line is no name.
LEMMA HopelessName ==
  ASSUME NEW w, Types, Layout(w), at \in 1 .. Len(stream), stream[at] = ":",
         Hopeless(w, sent, nameStart, at)
  PROVE  NoName(SubSeq(stream, nameStart, at - 1))
<1> DEFINE q == nameStart
           p == w[q]
           f == sent[p.msg][p.line]
           r == SubSeq(stream, q, at - 1)
<1>1. at \in Nat /\ q \in Nat \ {0} /\ stream \in Seq(Alphabet) /\ Len(stream) \in Nat
  BY DEF Types
<1>2. q \in 1 .. at /\ ~IsBlank(p, sent) /\ p.off \in {Sp(f) + 2, Sp(f) + 3}
  BY DEF Hopeless, IsBlank
<1>3. q \in 1 .. Len(stream)  BY <1>1, <1>2
<1>4. At(w, q)  BY <1>3, Here
<1>5. /\ Sp(f) \in {0, 2} /\ FieldCharacter(f, p.off, stream[q])
      /\ Len(TextOf(p, sent, LineEnd)) = Sp(f) + 3 + Len(LineEnd)
      /\ Len(LineEnd) \in {1, 2}
  <2>1. Len(LineEnd) \in {1, 2}  BY <1>4 DEF At
  <2> QED  BY <1>2, <1>4, <2>1, OnLine
<1>6. stream[q] # ":"  BY <1>2, <1>5 DEF FieldCharacter
<1>7. q < at
  <2> HIDE DEF q
  <2> QED  BY <1>1, <1>2, <1>6
<1> HIDE DEF q
<1>8. /\ r \in Seq(Alphabet) /\ Len(r) = at - q
      /\ \A j \in 1 .. at - q : r[j] = stream[q + (j - 1)]
  <2>1. \A j \in q .. at - 1 : stream[j] \in Alphabet
    <3> TAKE j \in q .. at - 1
    <3>1. j \in 1 .. Len(stream)  BY <1>1
    <3> QED  BY <1>1, <3>1, ElementOfSeq
  <2>2. q \in Int /\ at - 1 \in Int /\ q <= at - 1 /\ (at - 1) - q + 1 = at - q
    BY <1>1, <1>7
  <2>3. /\ r \in Seq(Alphabet)
        /\ Len(r) = IF q <= at - 1 THEN (at - 1) - q + 1 ELSE 0
        /\ \A j \in 1 .. (at - 1) - q + 1 : r[j] = stream[q + j - 1]
    BY <2>1, <2>2, SubSeqProperties
  <2>4. \A j \in 1 .. at - q : q + j - 1 = q + (j - 1)  BY <1>1
  <2> HIDE DEF r
  <2> QED  BY <2>2, <2>3, <2>4
<1> HIDE DEF r
<1>9. ASSUME NEW j \in 1 .. 2, j <= Len(r), r[j] \in Signs
      PROVE  NoName(r)
  <2> SUFFICES ASSUME NEW n \in {"event", "data", "id", "retry"}
               PROVE  ~IsPrefix(r, Spelling(n))
    BY DEF NoName
  <2>1. n \in FieldNames /\ n # "comment"  BY DEF FieldNames
  <2>2. Spelling(n) \in Seq(Alphabet) /\ Len(Spelling(n)) = 2
        /\ \A o \in 1 .. 2 : Spelling(n)[o] \in Alphabet \ Signs
    BY <2>1, Spellings
  <2>3. IsPrefix(r, Spelling(n)) => \A o \in 1 .. Len(r) : r[o] = Spelling(n)[o]
    BY <1>8, <2>2, PrefixOf
  <2>4. j \in 1 .. Len(r)  BY <1>1, <1>8, <1>9
  <2> QED  BY <1>9, <2>2, <2>3, <2>4
<1>10. ASSUME p.off = Sp(f) + 2
       PROVE  NoName(r)
  <2>1. stream[q] = "SP"  BY <1>5, <1>10 DEF FieldCharacter
  <2>2. 1 \in 1 .. at - q /\ q + (1 - 1) = q  BY <1>1, <1>7
  <2>3. r[1] = "SP" /\ 1 <= Len(r) /\ 1 \in 1 .. 2  BY <1>8, <2>1, <2>2
  <2> QED  BY <1>9, <2>3 DEF Signs
<1>11. ASSUME p.off = Sp(f) + 3
       PROVE  NoName(r)
  <2>1. p.off < Len(TextOf(p, sent, LineEnd)) /\ ~AtEnd(p, sent, LineEnd) /\ p.off + 1 = Sp(f) + 4
    BY <1>2, <1>5, <1>11, FieldSums DEF AtEnd
  <2>2. /\ q + 1 \in 1 .. Len(stream) /\ w[q + 1].msg = p.msg /\ w[q + 1].line = p.line
        /\ w[q + 1].off = Sp(f) + 4
    BY <1>3, <2>1, Ahead
  <2>3. At(w, q + 1) /\ ~IsBlank(w[q + 1], sent)
    BY <1>2, <2>2, Here DEF IsBlank
  <2>4. FieldCharacter(f, Sp(f) + 4, stream[q + 1])
    <3>1. PICK g : g = sent[w[q + 1].msg][w[q + 1].line]  OBVIOUS
    <3>2. g = f  BY <2>2, <3>1
    <3>3. FieldCharacter(g, w[q + 1].off, stream[q + 1])  BY <2>3, <3>1, OnLine
    <3> HIDE DEF f, p, q
    <3> QED  BY <2>2, <3>2, <3>3
  <2>5. Sp(f) + 4 > Sp(f) + 3 /\ Sp(f) + 4 # Sp(f) + 1  BY <1>5
  <2>6. stream[q + 1] \in {"CR", "LF"} /\ stream[q + 1] # ":"
    BY <2>4, <2>5 DEF FieldCharacter
  <2>7. 2 \in 1 .. at - q /\ q + (2 - 1) = q + 1  BY <1>1, <1>7, <2>6
  <2>8. r[2] \in Signs /\ 2 <= Len(r) /\ 2 \in 1 .. 2  BY <1>8, <2>6, <2>7 DEF Signs
  <2> QED  BY <1>9, <2>8
<1>12. NoName(r)  BY <1>2, <1>10, <1>11
<1> QED  BY <1>12 DEF r, q

\* What becomes of a message that was not read from its beginning: the parser
\* stays where it is lost, or begins to read at a line.
Recovers(w) == Part(w)' \/ \E s \in Nat : Full(w, s)'

\* Who lost the beginning skips a carriage return.
LEMMA PartSkipCarriageReturn ==
  ASSUME NEW w, Types, Layout(w), Part(w), SkipCarriageReturn
  PROVE  Onward(w) /\ Part(w)'
<1> DEFINE p == w[at]
           f == sent[p.msg][p.line]
<1>0. Reading /\ state = "initial" /\ state' = "initial" /\ at' = at + 1 /\ c = "CR"
      /\ UNCHANGED <<streamVars, fieldVars, valueEnd>>
  BY DEF SkipCarriageReturn, Step, indexVars
<1>1. at \in Nat /\ at \in 1 .. Len(stream) /\ stream[at] = "CR" /\ At(w, at)
  BY <1>0, CurrentChar
<1>2. Fresh /\ valueEnd <= at  BY <1>0 DEF Part
<1>3. /\ at + 1 \in 1 .. Len(stream) /\ w[at + 1].msg = p.msg
      /\ stream[at + 1] # ":"
  <2>1. CASE IsBlank(p, sent)
    <3>1. p.off = 1 /\ Len(LineEnd) = 2 /\ Len(TextOf(p, sent, LineEnd)) = Len(LineEnd)
      BY <1>1, <2>1, OnBlank
    <3>2. p.off < Len(TextOf(p, sent, LineEnd)) /\ ~AtEnd(p, sent, LineEnd)  BY <3>1 DEF AtEnd
    <3>3. /\ at + 1 \in 1 .. Len(stream) /\ w[at + 1].msg = p.msg
          /\ w[at + 1].line = p.line
      BY <1>1, <3>2, Ahead
    <3>4. At(w, at + 1) /\ IsBlank(w[at + 1], sent)  BY <2>1, <3>3, Here DEF IsBlank
    <3>5. stream[at + 1] \in {"CR", "LF"}  BY <3>4, OnBlank
    <3> QED  BY <3>3, <3>5
  <2>2. CASE ~IsBlank(p, sent)
    <3>1. /\ Sp(f) \in {0, 2} /\ p.off = Sp(f) + 4 /\ Len(LineEnd) = 2
          /\ Len(TextOf(p, sent, LineEnd)) = Sp(f) + 3 + Len(LineEnd)
      BY <1>1, <2>2, OnLine
    <3>2. p.off < Len(TextOf(p, sent, LineEnd)) /\ ~AtEnd(p, sent, LineEnd) /\ p.off + 1 = Sp(f) + 5
      BY <2>2, <3>1 DEF AtEnd
    <3>3. /\ at + 1 \in 1 .. Len(stream) /\ w[at + 1].msg = p.msg
          /\ w[at + 1].line = p.line /\ w[at + 1].off = Sp(f) + 5
      BY <1>1, <3>2, Ahead
    <3>4. At(w, at + 1) /\ ~IsBlank(w[at + 1], sent)  BY <2>2, <3>3, Here DEF IsBlank
    <3>5. FieldCharacter(f, Sp(f) + 5, stream[at + 1])
      <4>1. f = sent[w[at + 1].msg][w[at + 1].line]  BY <3>3
      <4> HIDE DEF f
      <4>2. FieldCharacter(f, w[at + 1].off, stream[at + 1])  BY <3>4, <4>1, OnLine
      <4> QED  BY <3>3, <4>2
    <3>6. Sp(f) + 5 # Sp(f) + 1  BY <3>1
    <3>7. stream[at + 1] # ":"  BY <3>5, <3>6 DEF FieldCharacter
    <3> QED  BY <3>3, <3>7
  <2> QED  BY <2>1, <2>2
<1>4. Fresh'  BY <1>0, <1>2 DEF Fresh, fieldVars
<1>5. valueEnd' <= at'  BY <1>0, <1>1, <1>2 DEF Types
<1>6. c' # ":"  BY <1>0, <1>3 DEF c, streamVars
<1>7. Part(w)'  BY <1>0, <1>4, <1>5, <1>6 DEF Part
<1> QED  BY <1>0, <1>3, <1>7 DEF Onward

\* Who lost the beginning of a line finds itself at the beginning of the next, or
\* begins a name in the middle of one.
LEMMA PartStartName ==
  ASSUME NEW w, Types, Layout(w), Part(w), StartName
  PROVE  Onward(w) /\ Recovers(w)
<1> DEFINE p == w[at]
           m == sent[p.msg]
           f == m[p.line]
<1>0. Reading /\ state = "initial" /\ state' = "name" /\ at' = at /\ c \notin {"CR", "LF"}
      /\ nameStart' = at /\ UNCHANGED <<streamVars, fieldVars, valueEnd>>
  BY DEF StartName, Step
<1>1. at \in Nat /\ at \in 1 .. Len(stream) /\ stream[at] \notin {"CR", "LF"} /\ c = stream[at]
      /\ At(w, at)
  BY <1>0, CurrentChar
<1>2. Fresh /\ valueEnd <= at /\ (stream[at] = ":" => p.off = 1)  BY <1>0, <1>1 DEF Part
<1>3. ~IsBlank(p, sent)  BY <1>1, OnBlank
<1>4. /\ Sp(f) \in {0, 2} /\ FieldCharacter(f, p.off, stream[at])
      /\ p.line \in 1 .. Len(m)
  BY <1>1, <1>3, OnLine
<1>5. Onward(w)  BY <1>0, <1>1 DEF Onward
<1>6. CASE p.off = 1
  <2>0. PICK s \in Nat : s = p.line - 1
    <3> HIDE DEF p, m
    <3>1. Len(m) \in Nat  BY <1>1 DEF At, m, p
    <3>2. p.line - 1 \in Nat  BY <1>4, <3>1
    <3> QED  BY <3>2
  <2>1. m \in Seq(Field) /\ Len(m) \in Nat  BY <1>1 DEF At
  <2>2. Collected(m, s, p.line, event, id, message)
    <3>1. p.line \in 1 .. Len(m) + 1  BY <1>4, <2>1
    <3> HIDE DEF m, p
    <3> QED  BY <1>2, <2>0, <2>1, <3>1, FreshCollected DEF Fresh
  <2>3. s \in 0 .. p.line - 1 /\ s \in 0 .. Len(m)
    <3> HIDE DEF m, p
    <3> QED  BY <1>4, <2>0, <2>1
  <2>4. Full(w, s)'
    BY <1>2, <1>6, <2>2, <2>3, FullStartName
  <2> QED  BY <1>5, <2>3, <2>4 DEF Recovers
<1>7. CASE p.off # 1
  <2>1. p.off # Sp(f) + 1  BY <1>2, <1>4, <1>7 DEF FieldCharacter
  <2>2. p.off <= Sp(f) + 3 /\ p.off \in Nat /\ p.off >= 1
    <3>1. p.off \in 1 .. Sp(f) + 3 + Len(LineEnd) /\ Len(LineEnd) \in {1, 2}
      <4>1. Len(LineEnd) \in {1, 2}  BY <1>1 DEF At
      <4> QED  BY <1>1, <1>3, <4>1, OnLine
    <3>2. ~(p.off > Sp(f) + 3)  BY <1>1, <1>4 DEF FieldCharacter
    <3> HIDE DEF p, f
    <3> QED  BY <1>4, <3>1, <3>2
  <2>3. (Sp(f) = 2 /\ p.off = 2) \/ p.off \in {Sp(f) + 2, Sp(f) + 3}
    <3> HIDE DEF p, f
    <3> QED  BY <1>4, <1>7, <2>1, <2>2
  <2>4. \/ Hopeless(w, sent, at, at)
        \/ Sp(f) = 2 /\ TailAt(f, p.off, stream, at, at)
    <3>1. CASE Sp(f) = 2 /\ p.off = 2  BY <3>1 DEF TailAt
    <3>2. CASE p.off \in {Sp(f) + 2, Sp(f) + 3}
      <4>1. at \in 1 .. at  BY <1>1
      <4> QED  BY <1>3, <3>2, <4>1 DEF Hopeless, IsBlank
    <3> QED  BY <2>3, <3>1, <3>2
  <2>5. Fresh'  BY <1>0, <1>2 DEF Fresh, fieldVars
  <2>6. sent' = sent /\ stream' = stream  BY <1>0 DEF streamVars
  <2>7. ~IsBlank(w[at], sent)'  BY <1>0, <1>3, <2>6 DEF IsBlank
  <2>8. Part(w)'
    BY <1>0, <1>2, <2>4, <2>5, <2>6, <2>7 DEF Part
  <2> QED  BY <1>5, <2>8 DEF Recovers
<1> QED  BY <1>6, <1>7

\* Who lost the beginning of a line has read no name, or the second letters of one.
LEMMA PartEndName ==
  ASSUME NEW w, Types, Layout(w), Part(w), EndName
  PROVE  Onward(w) /\ Part(w)'
<1> DEFINE p == w[at]
           f == sent[p.msg][p.line]
<1>0. Reading /\ state = "name" /\ state' = "space" /\ at' = at + 1 /\ c = ":"
      /\ nameEnd' = at /\ UNCHANGED <<streamVars, fieldVars, nameStart, valueEnd>>
  BY DEF EndName, Step
<1>1. at \in Nat /\ at \in 1 .. Len(stream) /\ stream[at] = ":" /\ At(w, at) /\ Len(stream) \in Nat
  BY <1>0, CurrentChar
<1>2. /\ Fresh /\ valueEnd <= at
      /\ \/ Hopeless(w, sent, nameStart, at)
         \/ ~IsBlank(p, sent) /\ Sp(f) = 2 /\ TailAt(f, p.off, stream, nameStart, at)
  BY <1>0 DEF Part
<1>3. ~IsBlank(p, sent)  BY <1>1, OnBlank
<1>4. /\ Sp(f) \in {0, 2} /\ FieldCharacter(f, p.off, stream[at])
      /\ Len(TextOf(p, sent, LineEnd)) = Sp(f) + 3 + Len(LineEnd)
      /\ Len(LineEnd) \in {1, 2}
      /\ f.name \in FieldNames
  <2>1. Len(LineEnd) \in {1, 2}  BY <1>1 DEF At
  <2> QED  BY <1>1, <1>3, <2>1, OnLine
<1>5. p.off = Sp(f) + 1  BY <1>1, <1>4 DEF FieldCharacter
<1>6. p.off < Len(TextOf(p, sent, LineEnd)) /\ ~AtEnd(p, sent, LineEnd) /\ p.off + 1 = Sp(f) + 2
  BY <1>3, <1>4, <1>5, SMTT(30) DEF AtEnd
<1>7. /\ at + 1 \in 1 .. Len(stream) /\ w[at + 1].msg = p.msg
      /\ w[at + 1].line = p.line /\ w[at + 1].off = Sp(f) + 2
  BY <1>1, <1>6, Ahead
<1>8. sent' = sent /\ stream' = stream  BY <1>0 DEF streamVars
<1>9. SpaceAt(f, Sp(f) + 2, valueEnd, at + 1)
  BY <1>1, <1>2, <1>4 DEF SpaceAt, Types
<1>10. NameRead' = SubSeq(stream, nameStart, at - 1)
  BY <1>0, <1>8 DEF NameRead
<1>11. NoName(SubSeq(stream, nameStart, at - 1))
       \/ (Sp(f) = 2 /\ SubSeq(stream, nameStart, at - 1) = <<Spelling(f.name)[2]>>)
  <2>1. CASE Hopeless(w, sent, nameStart, at)
    BY <1>1, <2>1, HopelessName
  <2>2. CASE Sp(f) = 2 /\ TailAt(f, p.off, stream, nameStart, at)
    <3>1. nameStart + 1 = at /\ stream[nameStart] = Spelling(f.name)[2]
      <4>1. p.off = 3  BY <1>5, <2>2
      <4> QED  BY <2>2, <4>1 DEF TailAt
    <3>2. Spelling(f.name)[2] \in Alphabet
      <4>1. 2 \in 1 .. Len(Spelling(f.name))  BY <2>2 DEF Sp
      <4> QED  BY <1>4, <4>1, Spellings
    <3> DEFINE t == <<Spelling(f.name)[2]>>
    <3>3. t \in Seq(Alphabet) /\ Len(t) = 1 /\ t[1] = Spelling(f.name)[2]
      BY <3>2, Tuples
    <3> HIDE DEF t
    <3>4. nameStart \in Nat \ {0} /\ stream \in Seq(Alphabet)  BY DEF Types
    <3>5. \A q \in 1 .. Len(t) : stream[nameStart + (q - 1)] = t[q]
      <4>1. \A q \in 1 .. 1 : q = 1  OBVIOUS
      <4>2. nameStart + (1 - 1) = nameStart  BY <3>4
      <4> QED  BY <3>1, <3>3, <4>1, <4>2
    <3>6. at = nameStart + Len(t) /\ at <= Len(stream) + 1  BY <1>1, <3>1, <3>3
    <3>7. SubSeq(stream, nameStart, at - 1) = t
      BY <1>1, <3>3, <3>4, <3>5, <3>6, ReadOff
    <3> QED  BY <2>2, <3>7 DEF t
  <2> QED  BY <1>2, <2>1, <2>2
<1>12. ~IsBlank(w[at], sent)'  BY <1>0, <1>3, <1>7, <1>8 DEF IsBlank
<1>13. Fresh'  BY <1>0, <1>2 DEF Fresh, fieldVars
<1>14. Part(w)'
  BY <1>0, <1>7, <1>8, <1>9, <1>10, <1>11, <1>12, <1>13 DEF Part
<1> QED  BY <1>0, <1>7, <1>14 DEF Onward

\* The parser may leave the message while it reads a name.
LEMMA PartContinueName ==
  ASSUME NEW w, Types, Layout(w), Part(w), ContinueName
  PROVE  Part(w)'
<1> DEFINE p == w[at]
           f == sent[p.msg][p.line]
<1>0. Reading /\ state = "name" /\ state' = "name" /\ at' = at + 1 /\ c # ":"
      /\ UNCHANGED <<streamVars, fieldVars, nameStart, valueEnd>>
  BY DEF ContinueName, Step, indexVars
<1>1. at \in Nat /\ at \in 1 .. Len(stream) /\ stream[at] # ":" /\ At(w, at)
  BY <1>0, CurrentChar
<1>2. /\ Fresh /\ valueEnd <= at
      /\ \/ Hopeless(w, sent, nameStart, at)
         \/ ~IsBlank(p, sent) /\ Sp(f) = 2 /\ TailAt(f, p.off, stream, nameStart, at)
  BY <1>0 DEF Part
<1>3. Fresh' /\ valueEnd' <= at'
  BY <1>0, <1>1, <1>2 DEF Fresh, fieldVars, Types
<1>4. sent' = sent /\ stream' = stream  BY <1>0 DEF streamVars
<1>5. CASE Hopeless(w, sent, nameStart, at)
  <2>1. 1 .. at \subseteq 1 .. at + 1  BY <1>1
  <2>2. Hopeless(w, sent, nameStart, at + 1)  BY <1>5, <2>1 DEF Hopeless
  <2> QED  BY <1>0, <1>3, <1>4, <2>2 DEF Part
<1>6. CASE ~IsBlank(p, sent) /\ Sp(f) = 2 /\ TailAt(f, p.off, stream, nameStart, at)
  <2>1. /\ FieldCharacter(f, p.off, stream[at])
        /\ Len(TextOf(p, sent, LineEnd)) = Sp(f) + 3 + Len(LineEnd)
        /\ Len(LineEnd) \in {1, 2}
    <3>1. Len(LineEnd) \in {1, 2}  BY <1>1 DEF At
    <3> QED  BY <1>1, <1>6, <3>1, OnLine
  <2>2. p.off = 2 /\ nameStart = at /\ stream[at] = Spelling(f.name)[2]
    <3>1. p.off # 3  BY <1>1, <1>6, <2>1 DEF FieldCharacter
    <3>2. p.off = 2 /\ nameStart = at  BY <1>6, <3>1 DEF TailAt
    <3>3. stream[at] = Spelling(f.name)[2]  BY <1>6, <2>1, <3>2 DEF FieldCharacter
    <3> QED  BY <3>2, <3>3
  <2>3. p.off < Len(TextOf(p, sent, LineEnd)) /\ ~AtEnd(p, sent, LineEnd)  BY <1>6, <2>1, <2>2, SMTT(30) DEF AtEnd
  <2>4. /\ at + 1 \in 1 .. Len(stream) /\ w[at + 1].msg = p.msg
        /\ w[at + 1].line = p.line /\ w[at + 1].off = 3
    BY <1>1, <2>2, <2>3, Ahead
  <2>5. TailAt(f, 3, stream, nameStart, at + 1)  BY <2>2 DEF TailAt
  <2>6. ~IsBlank(w[at], sent)'  BY <1>0, <1>4, <1>6, <2>4 DEF IsBlank
  <2> QED  BY <1>0, <1>3, <1>4, <1>6, <2>4, <2>5, <2>6 DEF Part
<1> QED  BY <1>2, <1>5, <1>6

\* Who lost the beginning of a line skips the space in front of its value.
LEMMA PartSkipSpace ==
  ASSUME NEW w, Types, Layout(w), Part(w), SkipSpace
  PROVE  Onward(w) /\ Part(w)'
<1> DEFINE p == w[at]
           f == sent[p.msg][p.line]
<1>0. Reading /\ state = "space" /\ state' = "space" /\ at' = at + 1 /\ c = "SP"
      /\ UNCHANGED <<streamVars, fieldVars, nameStart, nameEnd, valueEnd>>
  BY DEF SkipSpace, Step, indexVars
<1>1. at \in Nat /\ at \in 1 .. Len(stream) /\ stream[at] = "SP"
  BY <1>0, CurrentChar
<1>2. /\ Fresh /\ ~IsBlank(p, sent) /\ SpaceAt(f, p.off, valueEnd, at)
      /\ NoName(NameRead) \/ (Sp(f) = 2 /\ NameRead = <<Spelling(f.name)[2]>>)
  BY <1>0 DEF Part
<1>3. /\ at + 1 \in 1 .. Len(stream) /\ w[at + 1].msg = p.msg /\ w[at + 1].line = p.line
      /\ w[at + 1].off = Sp(f) + 3
  BY <1>1, <1>2, AfterSpace
<1>4. sent' = sent /\ stream' = stream  BY <1>0 DEF streamVars
<1>5. SpaceAt(f, Sp(f) + 3, valueEnd, at + 1)
  BY <1>1, <1>2 DEF SpaceAt, Types
<1>6. NameRead' = NameRead  BY <1>0, <1>4 DEF NameRead
<1>7. ~IsBlank(w[at], sent)'  BY <1>0, <1>2, <1>3, <1>4 DEF IsBlank
<1>8. Fresh'  BY <1>0, <1>2 DEF Fresh, fieldVars
<1>9. Part(w)'
  BY <1>0, <1>2, <1>3, <1>4, <1>5, <1>6, <1>7, <1>8 DEF Part
<1> QED  BY <1>0, <1>3, <1>9 DEF Onward

\* Who lost the beginning of a line begins the value where it begins.
LEMMA PartStartValue ==
  ASSUME NEW w, Types, Layout(w), Part(w), StartValue
  PROVE  Onward(w) /\ Part(w)'
<1> DEFINE p == w[at]
           f == sent[p.msg][p.line]
<1>0. Reading /\ state = "space" /\ state' = "value" /\ at' = at /\ c # "SP"
      /\ valueStart' = at /\ UNCHANGED <<streamVars, fieldVars, nameStart, nameEnd, valueEnd>>
  BY DEF StartValue, Step
<1>1. at \in Nat /\ at \in 1 .. Len(stream) /\ stream[at] # "SP"
  BY <1>0, CurrentChar
<1>2. /\ Fresh /\ ~IsBlank(p, sent) /\ SpaceAt(f, p.off, valueEnd, at)
      /\ NoName(NameRead) \/ (Sp(f) = 2 /\ NameRead = <<Spelling(f.name)[2]>>)
  BY <1>0 DEF Part
<1>3. ValueAt(f, p.off, Len(LineEnd), stream, at, valueEnd, at)
  BY <1>1, <1>2, FirstOfValue
<1>4. sent' = sent /\ stream' = stream /\ LineEnd' = LineEnd  BY <1>0 DEF streamVars, LineEnd
<1>6. NameRead' = NameRead  BY <1>0, <1>4 DEF NameRead
<1>7. ~IsBlank(w[at], sent)'  BY <1>0, <1>2, <1>4 DEF IsBlank
<1>8. Fresh'  BY <1>0, <1>2 DEF Fresh, fieldVars
<1>9. Part(w)'
  BY <1>0, <1>2, <1>3, <1>4, <1>6, <1>7, <1>8 DEF Part
<1> QED  BY <1>0, <1>1, <1>9 DEF Onward

\* Who lost the beginning of a line ends the value at the carriage return.
LEMMA PartEndValueAtCarriageReturn ==
  ASSUME NEW w, Types, Layout(w), Part(w), EndValueAtCarriageReturn
  PROVE  Onward(w) /\ Part(w)'
<1> DEFINE p == w[at]
           f == sent[p.msg][p.line]
<1>0. Reading /\ state = "value" /\ state' = "value" /\ at' = at + 1 /\ c = "CR"
      /\ valueEnd' = at /\ UNCHANGED <<streamVars, fieldVars, nameStart, nameEnd, valueStart>>
  BY DEF EndValueAtCarriageReturn, Step
<1>1. at \in Nat /\ at \in 1 .. Len(stream) /\ stream[at] = "CR"
  BY <1>0, CurrentChar
<1>2. /\ Fresh /\ ~IsBlank(p, sent)
      /\ ValueAt(f, p.off, Len(LineEnd), stream, valueStart, valueEnd, at)
      /\ NoName(NameRead) \/ (Sp(f) = 2 /\ NameRead = <<Spelling(f.name)[2]>>)
  BY <1>0 DEF Part
<1>3. /\ at + 1 \in 1 .. Len(stream) /\ w[at + 1].msg = p.msg /\ w[at + 1].line = p.line
      /\ ValueAt(f, w[at + 1].off, Len(LineEnd), stream, valueStart, at, at + 1)
  BY <1>1, <1>2, ValueAtCarriageReturn
<1>4. sent' = sent /\ stream' = stream /\ LineEnd' = LineEnd  BY <1>0 DEF streamVars, LineEnd
<1>6. NameRead' = NameRead  BY <1>0, <1>4 DEF NameRead
<1>7. ~IsBlank(w[at], sent)'  BY <1>0, <1>2, <1>3, <1>4 DEF IsBlank
<1>8. Fresh'  BY <1>0, <1>2 DEF Fresh, fieldVars
<1>9. Part(w)'
  BY <1>0, <1>2, <1>3, <1>4, <1>6, <1>7, <1>8 DEF Part
<1> QED  BY <1>0, <1>3, <1>9 DEF Onward

\* Who lost the beginning of a line reads on in its value.
LEMMA PartContinueValue ==
  ASSUME NEW w, Types, Layout(w), Part(w), ContinueValue
  PROVE  Onward(w) /\ Part(w)'
<1> DEFINE p == w[at]
           f == sent[p.msg][p.line]
<1>0. Reading /\ state = "value" /\ state' = "value" /\ at' = at + 1 /\ c \notin {"LF", "CR"}
      /\ UNCHANGED <<streamVars, fieldVars, nameStart, nameEnd, valueStart, valueEnd>>
  BY DEF ContinueValue, Step, indexVars
<1>1. at \in Nat /\ at \in 1 .. Len(stream) /\ stream[at] \notin {"CR", "LF"}
  BY <1>0, CurrentChar
<1>2. /\ Fresh /\ ~IsBlank(p, sent)
      /\ ValueAt(f, p.off, Len(LineEnd), stream, valueStart, valueEnd, at)
      /\ NoName(NameRead) \/ (Sp(f) = 2 /\ NameRead = <<Spelling(f.name)[2]>>)
  BY <1>0 DEF Part
<1>3. /\ at + 1 \in 1 .. Len(stream) /\ w[at + 1].msg = p.msg /\ w[at + 1].line = p.line
      /\ ValueAt(f, w[at + 1].off, Len(LineEnd), stream, valueStart, valueEnd, at + 1)
  BY <1>1, <1>2, ValueGoesOn
<1>4. sent' = sent /\ stream' = stream /\ LineEnd' = LineEnd  BY <1>0 DEF streamVars, LineEnd
<1>6. NameRead' = NameRead  BY <1>0, <1>4 DEF NameRead
<1>7. ~IsBlank(w[at], sent)'  BY <1>0, <1>2, <1>3, <1>4 DEF IsBlank
<1>8. Fresh'  BY <1>0, <1>2 DEF Fresh, fieldVars
<1>9. Part(w)'
  BY <1>0, <1>2, <1>3, <1>4, <1>6, <1>7, <1>8 DEF Part
<1> QED  BY <1>0, <1>3, <1>9 DEF Onward

\* From the end of the line on, the parser reads every line.
LEMMA PartEndValue ==
  ASSUME NEW w, Types, Layout(w), Part(w), EndValue
  PROVE  Onward(w) /\ Recovers(w) /\ ~aborted'
<1> DEFINE p == w[at]
           m == sent[p.msg]
           i == p.line
           f == m[i]
           v == IF valueEnd < valueStart THEN at ELSE valueEnd
<1>0. Reading /\ state = "value" /\ state' = "initial" /\ at' = at + 1 /\ c = "LF"
      /\ valueEnd' = v /\ ReadField(SubSeq(stream, valueStart, v - 1))
      /\ UNCHANGED <<streamVars, nameStart, nameEnd, valueStart>> /\ ~aborted
  BY DEF EndValue, Step
<1>1. at \in Nat /\ at \in 1 .. Len(stream) /\ stream[at] = "LF" /\ At(w, at)
  BY <1>0, CurrentChar
<1>2. /\ Fresh /\ ~IsBlank(p, sent)
      /\ ValueAt(f, p.off, Len(LineEnd), stream, valueStart, valueEnd, at)
      /\ NoName(NameRead) \/ (Sp(f) = 2 /\ NameRead = <<Spelling(f.name)[2]>>)
  BY <1>0 DEF Part
<1>3. /\ at + 1 \in 1 .. Len(stream) /\ w[at + 1].msg = p.msg /\ w[at + 1].line = i + 1
      /\ w[at + 1].off = 1
      /\ SubSeq(stream, valueStart, v - 1) = <<f.value>>
      /\ v \in Nat \ {0} /\ v <= at
  BY <1>1, <1>2, ValueEnds
<1>4. /\ m \in Seq(Field) /\ Len(m) \in Nat /\ i \in 1 .. Len(m)
      /\ f.name \in FieldNames /\ f.value \in STRING
  BY <1>1, <1>2, OnLine DEF At
<1>5. PICK s \in Nat : s = i
  <2> HIDE DEF i, m
  <2> QED  BY <1>4
<1>6. Collected(m, s, i + 1, event', id', message') /\ ~aborted'
  <2>0. ReadField(<<f.value>>) /\ ~aborted  BY <1>0, <1>3
  <2>1. Collected(m, i, i + 1, Null, Null, <<>>)
    <3> HIDE DEF m, i
    <3>1. i + 1 \in 1 .. Len(m) + 1 /\ (i + 1) - 1 = i  BY <1>4
    <3>2. Collected(m, (i + 1) - 1, i + 1, Null, Null, <<>>)  BY <1>4, <3>1, FreshCollected
    <3> QED  BY <3>1, <3>2
  <2>2. CASE NoName(NameRead)
    <3>1. ~IsNamed("event") /\ ~IsNamed("data") /\ ~IsNamed("id")
      BY <2>2 DEF NoName, IsNamed, NameRead
    <3>2. event' = Null /\ id' = Null /\ message' = <<>> /\ aborted' = aborted
      <4> HIDE DEF f, m, i, p
      <4> QED  BY <1>2, <2>0, <3>1 DEF ReadField, Fresh
    <3> QED  BY <1>5, <2>0, <2>1, <3>2
  <2>3. CASE Sp(f) = 2 /\ NameRead = <<Spelling(f.name)[2]>>
    <3>1. f.name # "comment"
      <4>1. Sp(f) # 0  BY <2>3
      <4> QED  BY <4>1, NoSpelling DEF Sp
    <3>2. ~IsNamed("event") /\ ~IsNamed("id") /\ (IsNamed("data") <=> f.name = "id")
      BY <1>4, <2>3, <3>1, TailName
    <3>3. CASE f.name = "id"
      <4>1. event' = Null /\ id' = Null /\ message' = Append(message, <<f.value>>) /\ aborted' = aborted
        <5> HIDE DEF f, m, i, p
        <5> QED  BY <1>2, <2>0, <3>2, <3>3 DEF ReadField, Fresh
      <4>2. message' = <<<<f.value>>>>  BY <1>2, <1>4, <4>1 DEF Fresh
      <4>3. Collected(m, i, i + 1, Null, Null, <<<<f.value>>>>)
        BY <1>4, <3>3, IdCollected
      <4> HIDE DEF m, i
      <4> QED  BY <1>5, <2>0, <4>1, <4>2, <4>3
    <3>4. CASE f.name # "id"
      <4>1. event' = Null /\ id' = Null /\ message' = <<>> /\ aborted' = aborted
        <5> HIDE DEF f, m, i, p
        <5> QED  BY <1>2, <2>0, <3>2, <3>4 DEF ReadField, Fresh
      <4> QED  BY <1>5, <2>0, <2>1, <4>1
    <3> QED  BY <3>3, <3>4
  <2> QED  BY <1>2, <2>2, <2>3
<1>7. s \in 0 .. (i + 1) - 1 /\ s \in 0 .. Len(m)
  <2> HIDE DEF i, m
  <2> QED  BY <1>4, <1>5
<1>8. valueEnd' <= at'
  <2> HIDE DEF v
  <2> QED  BY <1>0, <1>1, <1>3
<1>9. Full(w, s)'
  <2>1. sent' = sent  BY <1>0 DEF streamVars
  <2> QED  BY <1>0, <1>3, <1>6, <1>7, <1>8, <2>1 DEF Full
<1>10. Recovers(w)  BY <1>7, <1>9 DEF Recovers
<1> QED  BY <1>0, <1>3, <1>6, <1>10 DEF Onward

-----------------------------------------------------------------------------
(***************************************************************************)
(* One character.                                                          *)
(***************************************************************************)
ReadsOn ==
  \/ SkipCarriageReturn \/ StartName \/ EndName \/ ContinueName
  \/ SkipSpace \/ StartValue
  \/ EndValueAtCarriageReturn \/ ContinueValue \/ EndValue

\* The layout is the stream's alone.
LEMMA LayoutStays ==
  ASSUME NEW w, Layout(w), UNCHANGED streamVars
  PROVE  Layout(w)'
BY DEF Layout, streamVars, LineEnd

\* The characters of a message end where it does.
LEMMA InMessage ==
  ASSUME NEW w, Types, Layout(w), NEW q \in 1 .. Len(stream)
  PROVE  /\ w[q].msg \in 1 .. Len(sent)
         /\ ends[w[q].msg] \in 1 .. Len(stream)
         /\ q <= ends[w[q].msg]
<1> DEFINE k == w[q].msg
           e == ends[k]
<1>1. k \in 1 .. Len(sent) /\ k \in Nat
  <2>1. k \in 1 .. Len(sent) /\ Len(sent) \in Nat  BY Here DEF At
  <2> HIDE DEF k
  <2> QED  BY <2>1
<1>2. e \in 1 .. Len(stream) /\ AtEnd(w[e], sent, LineEnd) /\ w[e].msg = k
  BY <1>1 DEF Layout, LaysOut
<1>3. Len(stream) \in Nat  BY DEF Types
<1>4. ASSUME ~(q <= e)
      PROVE  FALSE
  <2>1. e + 1 \in 1 .. Len(stream) /\ e + 1 <= q /\ e + 1 <= Len(stream)
    <3> HIDE DEF e
    <3> QED  BY <1>2, <1>3, <1>4
  <2>2. w[e + 1] = [msg |-> w[e].msg + 1, line |-> 1, off |-> 1]  BY <1>2, <2>1, Behind
  <2>3. w[e + 1].msg = k + 1  BY <1>2, <2>2
  <2>4. w[e + 1].msg <= w[q].msg
    <3> HIDE DEF e, k
    <3> QED  BY <2>1 DEF Layout, LaysOut
  <2> HIDE DEF e
  <2>5. k + 1 <= k  BY <2>3, <2>4
  <2> HIDE DEF k
  <2> QED  BY <1>1, <2>5
<1> QED  BY <1>1, <1>2, <1>4

\* What a step inside a message leaves alone.
LEMMA FrameOfReadsOn ==
  ASSUME Types, ReadsOn
  PROVE  /\ Reading /\ ~aborted
         /\ UNCHANGED <<streamVars, chunkVars, fired>>
         /\ at' \in {at, at + 1}
         /\ ~aborted' => Types'
<1>1. /\ Reading /\ ~aborted
      /\ UNCHANGED <<streamVars, chunkVars, fired>>
      /\ at' \in {at, at + 1}
      /\ state' \in {"initial", "name", "space", "value"}
      /\ nameStart' \in {nameStart, at} /\ nameEnd' \in {nameEnd, at}
      /\ valueStart' \in {valueStart, at} /\ valueEnd' \in {valueEnd, at}
  <2>1. CASE SkipCarriageReturn  BY <2>1 DEF SkipCarriageReturn, Step, indexVars
  <2>2. CASE StartName  BY <2>2 DEF StartName, Step
  <2>3. CASE EndName  BY <2>3 DEF EndName, Step
  <2>4. CASE ContinueName  BY <2>4 DEF ContinueName, Step, indexVars
  <2>5. CASE SkipSpace  BY <2>5 DEF SkipSpace, Step, indexVars
  <2>6. CASE StartValue  BY <2>6 DEF StartValue, Step
  <2>7. CASE EndValueAtCarriageReturn  BY <2>7 DEF EndValueAtCarriageReturn, Step
  <2>8. CASE ContinueValue  BY <2>8 DEF ContinueValue, Step, indexVars
  <2>9. CASE EndValue  BY <2>9 DEF EndValue, Step
  <2> QED  BY <2>1, <2>2, <2>3, <2>4, <2>5, <2>6, <2>7, <2>8, <2>9 DEF ReadsOn
<1>2. ASSUME ~aborted'
      PROVE  Types'
  <2>1. at \in Nat \ {0} /\ at <= to  BY <1>1 DEF Types, Reading
  <2>2. /\ nameStart' \in Nat \ {0} /\ nameEnd' \in Nat \ {0}
        /\ valueStart' \in Nat \ {0} /\ valueEnd' \in Nat \ {0}
    BY <1>1, <2>1 DEF Types
  <2>3. at' \in Nat /\ from' < at' /\ at' <= to' + 2
    BY <1>1, <2>1 DEF Types, chunkVars
  <2>4. /\ crlf' = crlf /\ sent' = sent /\ stream' = stream /\ ends' = ends
        /\ from' = from /\ to' = to /\ firedBefore' = firedBefore /\ fired' = fired
    BY <1>1 DEF streamVars, chunkVars
  <2> QED  BY <1>1, <1>2, <2>2, <2>3, <2>4 DEF Types
<1> QED  BY <1>1, <1>2

\* Who knows the message still knows it after a step inside of it.
LEMMA FullReadsOn ==
  ASSUME NEW w, NEW s \in Nat, Types, Layout(w), Full(w, s), ReadsOn
  PROVE  Onward(w) /\ Full(w, s)' /\ ~aborted'
<1>0. ~aborted  BY DEF Types
<1>1. CASE SkipCarriageReturn
  BY <1>0, <1>1, FullSkipCarriageReturn DEF SkipCarriageReturn
<1>2. CASE StartName
  <2>1. Reading /\ state = "initial" /\ c \notin {"LF", "CR"}  BY <1>2 DEF StartName, Step
  <2>2. /\ s \in 0 .. w[at].line - 1
        /\ Collected(sent[w[at].msg], s, w[at].line, event, id, message)
        /\ valueEnd <= at /\ (w[at].off = 1 \/ IsBlank(w[at], sent))
    BY <2>1 DEF Full
  <2>3. ~IsBlank(w[at], sent)  BY <2>1, CurrentChar, OnBlank
  <2> QED  BY <1>0, <1>2, <2>2, <2>3, FullStartName DEF StartName
<1>3. CASE EndName  BY <1>0, <1>3, FullEndName DEF EndName
<1>4. CASE ContinueName  BY <1>0, <1>4, FullContinueName DEF ContinueName
<1>5. CASE SkipSpace  BY <1>0, <1>5, FullSkipSpace DEF SkipSpace
<1>6. CASE StartValue  BY <1>0, <1>6, FullStartValue DEF StartValue
<1>7. CASE EndValueAtCarriageReturn
  BY <1>0, <1>7, FullEndValueAtCarriageReturn DEF EndValueAtCarriageReturn
<1>8. CASE ContinueValue  BY <1>0, <1>8, FullContinueValue DEF ContinueValue
<1>9. CASE EndValue  BY <1>9, FullEndValue
<1> QED  BY <1>1, <1>2, <1>3, <1>4, <1>5, <1>6, <1>7, <1>8, <1>9 DEF ReadsOn

\* Who lost the beginning still has nothing, or knows the message from some line on.
LEMMA PartReadsOn ==
  ASSUME NEW w, Types, Layout(w), Part(w), ReadsOn
  PROVE  Recovers(w) /\ ~aborted'
<1>0. ~aborted  BY DEF Types
<1>1. CASE SkipCarriageReturn
  BY <1>0, <1>1, PartSkipCarriageReturn DEF SkipCarriageReturn, Recovers
<1>2. CASE StartName  BY <1>0, <1>2, PartStartName DEF StartName
<1>3. CASE EndName  BY <1>0, <1>3, PartEndName DEF EndName, Recovers
<1>4. CASE ContinueName  BY <1>0, <1>4, PartContinueName DEF ContinueName, Recovers
<1>5. CASE SkipSpace  BY <1>0, <1>5, PartSkipSpace DEF SkipSpace, Recovers
<1>6. CASE StartValue  BY <1>0, <1>6, PartStartValue DEF StartValue, Recovers
<1>7. CASE EndValueAtCarriageReturn
  BY <1>0, <1>7, PartEndValueAtCarriageReturn DEF EndValueAtCarriageReturn, Recovers
<1>8. CASE ContinueValue  BY <1>0, <1>8, PartContinueValue DEF ContinueValue, Recovers
<1>9. CASE EndValue  BY <1>9, PartEndValue
<1> QED  BY <1>1, <1>2, <1>3, <1>4, <1>5, <1>6, <1>7, <1>8, <1>9 DEF ReadsOn

\* What was fired comes from the messages in front of the next one as long as
\* nothing fires and the parser goes forward.
LEMMA ToldOn ==
  ASSUME NEW w, Types, Layout(w), Told(w), UNCHANGED <<stream, sent, fired>>,
         NextUnread \in Nat \ {0}, NextUnread' \in Nat, NextUnread <= NextUnread'
  PROVE  Told(w)'
<1>1. PICK which \in [DOMAIN fired -> DOMAIN sent] :
        /\ \A j, k \in DOMAIN fired : j < k => which[j] < which[k]
        /\ \A j \in DOMAIN fired : Tells(sent[which[j]], fired[j])
        /\ NextUnread <= Len(stream) => \A j \in DOMAIN fired : which[j] < w[NextUnread].msg
  BY DEF Told
<1>2. Len(stream) \in Nat /\ Len(sent) \in Nat /\ DOMAIN sent = 1 .. Len(sent)  BY DEF Types
<1>3. ASSUME NextUnread' <= Len(stream), NEW j \in DOMAIN fired
      PROVE  which[j] < w[NextUnread'].msg
  <2>1. NextUnread \in 1 .. Len(stream) /\ NextUnread' \in 1 .. Len(stream)  BY <1>2, <1>3
  <2>2. which[j] < w[NextUnread].msg  BY <1>1, <1>2, <2>1
  <2>3. w[NextUnread].msg <= w[NextUnread'].msg  BY <2>1 DEF Layout, LaysOut
  <2>4. w[NextUnread].msg \in 1 .. Len(sent) /\ w[NextUnread'].msg \in 1 .. Len(sent)
    BY <2>1, InMessage
  <2>5. which[j] \in Nat /\ w[NextUnread].msg \in Nat /\ w[NextUnread'].msg \in Nat
    BY <1>2, <2>4
  <2> QED  BY <2>2, <2>3, <2>5
<1>4. stream' = stream /\ sent' = sent /\ fired' = fired  OBVIOUS
<1> QED  BY <1>1, <1>3, <1>4 DEF Told

\* A step inside a message keeps the invariant.
LEMMA StepReadsOn ==
  ASSUME NEW w, IInv(w), ReadsOn
  PROVE  IInv(w)'
<1>0. Types /\ Layout(w) /\ Parse(w) /\ Told(w) /\ Whole(w)  BY DEF IInv
<1>1. /\ Reading /\ at' \in {at, at + 1} /\ (~aborted' => Types')
      /\ UNCHANGED <<streamVars, chunkVars, fired>>
  BY <1>0, FrameOfReadsOn
<1>2. /\ crlf' = crlf /\ sent' = sent /\ stream' = stream /\ ends' = ends
      /\ from' = from /\ to' = to /\ firedBefore' = firedBefore /\ fired' = fired
  BY <1>1 DEF streamVars, chunkVars
<1>3. /\ at \in Nat \ {0} /\ at <= to /\ to \in Nat /\ to <= Len(stream) /\ Len(stream) \in Nat
      /\ at' \in Nat /\ at <= at' /\ at' <= to + 1
  BY <1>0, <1>1 DEF Types, Reading
<1>4. Recovers(w) /\ ~aborted'
  <2>1. CASE Part(w)  BY <1>0, <2>1, PartReadsOn
  <2>2. CASE \E s \in Nat : Full(w, s)
    <3>1. PICK s \in Nat : Full(w, s)  BY <2>2
    <3> QED  BY <1>0, <3>1, FullReadsOn DEF Recovers
  <2> QED  BY <1>0, <1>1, <2>1, <2>2 DEF Parse
<1>5. Types'  BY <1>1, <1>4
<1>6. Layout(w)'  BY <1>0, <1>1, LayoutStays
<1>7. Parse(w)'  BY <1>4 DEF Parse, Recovers
<1>8. Told(w)'
  <2>1. NextUnread = at /\ NextUnread' \in {at', to + 1}  BY <1>1, <1>2 DEF NextUnread, Reading
  <2>2. NextUnread \in Nat \ {0} /\ NextUnread' \in Nat /\ NextUnread <= NextUnread'
    BY <1>3, <2>1
  <2> QED  BY <1>0, <1>2, <2>2, ToldOn
<1>9. Whole(w)'
  <2> SUFFICES ASSUME NEW k \in DOMAIN sent, ChunkIs(k, k)
               PROVE  /\ Reading'
                      /\ (Len(fired) = firedBefore)' /\ w[at'].msg = k /\ Full(w, 0)'
                      /\ NoComment(sent[k])
    BY <1>2 DEF Whole, ChunkIs
  <2>1. Len(fired) = firedBefore /\ w[at].msg = k /\ Full(w, 0) /\ NoComment(sent[k])
    BY <1>0, <1>1 DEF Whole
  <2>2. Onward(w) /\ Full(w, 0)'  BY <1>0, <2>1, FullReadsOn
  <2>3. at' \in 1 .. Len(stream) /\ w[at'].msg = k  BY <2>1, <2>2 DEF Onward
  <2>4. at' <= ends[k]  BY <1>0, <2>3, InMessage
  <2>5. to = ends[k]  BY DEF ChunkIs
  <2>6. Reading'  BY <1>2, <2>4, <2>5 DEF Reading
  <2> QED  BY <1>2, <2>1, <2>2, <2>3, <2>6
<1> QED  BY <1>5, <1>6, <1>7, <1>8, <1>9 DEF IInv

-----------------------------------------------------------------------------
(***************************************************************************)
(* The end of a message.                                                   *)
(***************************************************************************)
\* The character after the next one begins a line, if it is a colon.
LEMMA AfterBlank ==
  ASSUME NEW w, Types, Layout(w), NEW q \in 1 .. Len(stream), stream[q] = "LF",
         q + 2 \in 1 .. Len(stream), stream[q + 2] = ":"
  PROVE  w[q + 2].off = 1
<1>1. q \in Nat /\ Len(stream) \in Nat  BY DEF Types
<1>2. /\ q + 1 \in 1 .. Len(stream) /\ q + 1 <= Len(stream)
      /\ (q + 1) + 1 = q + 2 /\ q + 2 <= Len(stream)
  BY <1>1
<1>3. w[q + 1].off = 1
  <2>1. CASE AtEnd(w[q], sent, LineEnd)
    <3>1. w[q + 1] = [msg |-> w[q].msg + 1, line |-> 1, off |-> 1]
      BY <1>2, <2>1, Behind
    <3> QED  BY <3>1
  <2>2. CASE ~AtEnd(w[q], sent, LineEnd)
    <3>1. At(w, q)  BY Here
    <3>2. ~IsBlank(w[q], sent)  BY <2>2, <3>1, OnBlank
    <3> DEFINE f == sent[w[q].msg][w[q].line]
    <3>3. w[q].off = Len(TextOf(w[q], sent, LineEnd))  BY <3>1, <3>2, OnLine
    <3> QED  BY <2>2, <3>3, Ahead
  <2> QED  BY <2>1, <2>2
<1>4. At(w, q + 2) /\ ~IsBlank(w[q + 2], sent)
  <2>1. At(w, q + 2)  BY Here
  <2> QED  BY <2>1, OnBlank
<1> DEFINE f == sent[w[q + 2].msg][w[q + 2].line]
<1>5. Sp(f) \in {0, 2} /\ FieldCharacter(f, w[q + 2].off, stream[q + 2])
  BY <1>4, OnLine
<1>6. w[q + 2].off = Sp(f) + 1  BY <1>5 DEF FieldCharacter
<1>7. w[q + 2].off # 3
  <2>1. CASE AtEnd(w[q + 1], sent, LineEnd)
    <3>1. w[(q + 1) + 1] = [msg |-> w[q + 1].msg + 1, line |-> 1, off |-> 1]
      BY <1>2, <2>1, Behind
    <3>2. w[q + 2].off = 1  BY <1>2, <3>1
    <3> QED  BY <3>2
  <2>2. CASE ~AtEnd(w[q + 1], sent, LineEnd)
    <3>1. At(w, q + 1)  BY <1>2, Here
    <3>2. w[q + 2].off \in {1, 2}
      <4>1. /\ w[q + 1].off < Len(TextOf(w[q + 1], sent, LineEnd)) => w[q + 2].off = w[q + 1].off + 1
            /\ w[q + 1].off = Len(TextOf(w[q + 1], sent, LineEnd)) => w[q + 2].off = 1
        BY <1>2, <2>2, Ahead
      <4>2. 1 < Len(TextOf(w[q + 1], sent, LineEnd)) \/ 1 = Len(TextOf(w[q + 1], sent, LineEnd))
        <5> DEFINE n == Len(TextOf(w[q + 1], sent, LineEnd))
        <5>1. 1 \in 1 .. n  BY <1>3, <3>1 DEF At, TextOf
        <5>2. n \in Nat
          <6>1. CASE IsBlank(w[q + 1], sent)
            <7>1. Len(LineEnd) \in {1, 2}  BY <3>1 DEF At
            <7> QED  BY <3>1, <6>1, <7>1, OnBlank
          <6>2. CASE ~IsBlank(w[q + 1], sent)
            <7>1. Len(LineEnd) \in {1, 2}  BY <3>1 DEF At
            <7> QED  BY <3>1, <6>2, <7>1, OnLine
          <6> QED  BY <6>1, <6>2
        <5>3. 1 < n \/ 1 = n
          <6> HIDE DEF n
          <6> QED  BY <5>1, <5>2
        <5> QED  BY <5>3
      <4> QED  BY <1>3, <4>1, <4>2
    <3> QED  BY <3>2
  <2> QED  BY <2>1, <2>2
<1> QED  BY <1>5, <1>6, <1>7

\* What the parser made of the message m of which it read the lines behind the s-th.
LEMMA TellsIt ==
  ASSUME NEW m \in Seq(Field), WellFormed(m), NEW s \in Nat, s <= Len(m),
         NEW ev, NEW nr, NEW ms, Collected(m, s, Len(m) + 1, ev, nr, ms), ev # Null
  PROVE  /\ Tells(m, [event |-> ev, data |-> ms])
         /\ ev \in Seq(STRING) /\ ms \in Seq(Seq(STRING))
<1> DEFINE firing == [event |-> ev, data |-> ms]
<1>0. firing.event = ev /\ firing.data = ms  OBVIOUS
<1>1. (Len(m) + 1) - 1 = Len(m) /\ Len(m) \in Nat /\ s \in 0 .. Len(m) /\ Len(m) \in s .. Len(m)
  OBVIOUS
<1>2. PICK j \in s + 1 .. Len(m) : m[j].name \in {"event", "comment"} /\ ev = <<m[j].value>>
  BY <1>1 DEF Collected, EventIn
<1>3. j \in DOMAIN m  OBVIOUS
<1>4. \A i \in DOMAIN m : m[i].value \in STRING /\ <<m[i].value>> \in Seq(STRING)
  <2> TAKE i \in DOMAIN m
  <2>1. m[i] \in Field  BY ElementOfSeq
  <2>2. m[i].value \in STRING  BY <2>1 DEF Field
  <2> QED  BY <2>2
<1>5. DataBehind(m, s)[Len(m)] \in Seq(Seq(STRING))  BY <1>1, DataLineByLine DEF Texts
<1>6. \/ ms = Data(m, s)
      \/ s \in DOMAIN m /\ m[s].name = "id" /\ ms = <<<<m[s].value>>>> \o Data(m, s)
  BY <1>1 DEF Collected, DataIn, Data
<1>7. ms \in Seq(Seq(STRING))
  <2>1. CASE ms = Data(m, s)  BY <1>5, <2>1 DEF Data
  <2>2. CASE s \in DOMAIN m /\ ms = <<<<m[s].value>>>> \o Data(m, s)
    <3>1. <<<<m[s].value>>>> \in Seq(Seq(STRING))  BY <1>4, <2>2
    <3>2. Data(m, s) \in Seq(Seq(STRING))  BY <1>5 DEF Data
    <3> QED  BY <2>2, <3>1, <3>2, ConcatProperties
  <2> QED  BY <1>6, <2>1, <2>2
<1>8. CASE m[j].name = "event"
  <2>1. \/ \E t \in 0 .. Len(m) : ms = Data(m, t)
        \/ \E t \in DOMAIN m : m[t].name = "id" /\ ms = <<<<m[t].value>>>> \o Data(m, t)
    BY <1>1, <1>6
  <2>2. Tells(m, firing)
    <3> HIDE DEF firing
    <3> QED  BY <1>0, <1>2, <1>3, <1>8, <2>1 DEF Tells
  <2> QED  BY <1>2, <1>3, <1>4, <1>7, <2>2
<1>9. CASE m[j].name = "comment"
  <2>1. Len(m) = 1 /\ s = 0
    <3>1. Len(m) = 1  BY <1>3, <1>9 DEF WellFormed
    <3> QED  BY <1>2, <3>1
  <2>2. j = 1  BY <1>2, <2>1
  <2>3. ms = DataBehind(m, 0)[1]  BY <2>1, <1>6 DEF Data
  <2>4. DataBehind(m, 0)[1] = DataBehind(m, 0)[0] /\ DataBehind(m, 0)[0] = <<>>
    <3>1. 1 \in 0 + 1 .. Len(m) /\ 0 \in 0 .. Len(m) /\ 1 - 1 = 0  BY <2>1
    <3>2. m[1].name # "data"  BY <1>9, <2>2
    <3>3. /\ DataBehind(m, 0)[0] = <<>>
          /\ \A i \in 0 + 1 .. Len(m) :
               DataBehind(m, 0)[i] = IF m[i].name = "data"
                                     THEN Append(DataBehind(m, 0)[i - 1], <<m[i].value>>)
                                     ELSE DataBehind(m, 0)[i - 1]
      BY <3>1, DataLineByLine
    <3>4. DataBehind(m, 0)[1] = DataBehind(m, 0)[1 - 1]  BY <3>1, <3>2, <3>3
    <3> QED  BY <3>1, <3>3, <3>4
  <2>5. ms = <<>>  BY <2>3, <2>4
  <2>6. Tells(m, firing)
    <3> HIDE DEF firing
    <3> QED  BY <1>0, <1>2, <1>3, <1>9, <2>5 DEF Tells
  <2> QED  BY <1>2, <1>3, <1>4, <1>7, <2>6
<1> QED  BY <1>2, <1>8, <1>9

\* At a blank line that is read as one the message ends, or the parser missed all
\* of it.
LEMMA AtBlank ==
  ASSUME NEW w, Types, Layout(w), Reading, state = "initial", stream[at] = "LF",
         NEW s \in Nat, Full(w, s)
  PROVE  /\ AtEnd(w[at], sent, LineEnd) /\ at = ends[w[at].msg]
         /\ sent[w[at].msg] \in Seq(Field) /\ WellFormed(sent[w[at].msg])
         /\ s <= Len(sent[w[at].msg])
         /\ Collected(sent[w[at].msg], s, Len(sent[w[at].msg]) + 1, event, id, message)
<1> DEFINE p == w[at]
           m == sent[p.msg]
           f == m[p.line]
<1>1. at \in 1 .. Len(stream) /\ At(w, at)  BY CurrentChar
<1>2. /\ s \in 0 .. p.line - 1
      /\ Collected(m, s, p.line, event, id, message)
      /\ p.off = 1 \/ IsBlank(p, sent)
  BY DEF Full
<1>3. IsBlank(p, sent)
  <2> SUFFICES ASSUME ~IsBlank(p, sent) PROVE FALSE  OBVIOUS
  <2>1. p.off = 1 /\ Sp(f) \in {0, 2} /\ FieldCharacter(f, p.off, stream[at])
    BY <1>1, <1>2, OnLine
  <2> QED  BY <2>1 DEF FieldCharacter
<1>4. AtEnd(p, sent, LineEnd)  BY <1>1, <1>3, OnBlank
<1>5. at = ends[p.msg]  BY <1>1, <1>4 DEF Layout, LaysOut
<1>6. m \in Seq(Field) /\ WellFormed(m) /\ Len(m) \in Nat  BY <1>1 DEF At
<1>7. p.line = Len(m) + 1  BY <1>3 DEF IsBlank
<1>8. s <= Len(m)
  <2> HIDE DEF m, p
  <2> QED  BY <1>2, <1>6, <1>7
<1> QED  BY <1>2, <1>4, <1>5, <1>6, <1>7, <1>8

\* What is known of a sequence with one element more.
LEMMA AppendedLast ==
  ASSUME NEW S, NEW t \in Seq(S), NEW x \in S
  PROVE  /\ Append(t, x) \in Seq(S)
         /\ Len(Append(t, x)) = Len(t) + 1
         /\ Append(t, x)[Len(t) + 1] = x
         /\ \A j \in 1 .. Len(t) : Append(t, x)[j] = t[j]
         /\ SubSeq(Append(t, x), Len(t) + 1, Len(t) + 1) = <<x>>
         /\ SubSeq(t, Len(t) + 1, Len(t)) = <<>>
<1>1. /\ Append(t, x) \in Seq(S)
      /\ Len(Append(t, x)) = Len(t) + 1
      /\ Append(t, x)[Len(t) + 1] = x
      /\ \A j \in 1 .. Len(t) : Append(t, x)[j] = t[j]
  BY AppendProperties
<1> DEFINE u == Append(t, x)
           n == Len(t) + 1
<1>2. SubSeq(u, n, n) = <<x>>
  <2>1. u \in Seq(S) /\ n \in Nat /\ Len(u) = n /\ u[n] = x  BY <1>1
  <2> HIDE DEF u, n
  <2>2. n \in Int /\ n <= n /\ n - n + 1 = 1 /\ n + 1 - 1 = n /\ \A i \in n .. n : u[i] \in S
    BY <2>1
  <2> DEFINE r == SubSeq(u, n, n)
  <2>3. r \in Seq(S) /\ Len(r) = 1 /\ \A i \in 1 .. 1 : r[i] = u[n + i - 1]
    <3>1. /\ r \in Seq(S)
          /\ Len(r) = IF n <= n THEN n - n + 1 ELSE 0
          /\ \A i \in 1 .. n - n + 1 : r[i] = u[n + i - 1]
      BY <2>2, SubSeqProperties
    <3> HIDE DEF r
    <3> QED  BY <2>2, <3>1
  <2>4. <<x>> \in Seq(S) /\ Len(<<x>>) = 1 /\ <<x>>[1] = x  OBVIOUS
  <2> HIDE DEF r
  <2>5. \A i \in 1 .. 1 : r[i] = <<x>>[i]
    <3>1. \A i \in 1 .. 1 : i = 1  OBVIOUS
    <3>2. r[1] = x  BY <2>1, <2>2, <2>3
    <3> QED  BY <2>4, <3>1, <3>2
  <2>6. r = <<x>>  BY <2>3, <2>4, <2>5, SeqEqual
  <2> QED  BY <2>6 DEF r
<1>3. SubSeq(t, Len(t) + 1, Len(t)) = <<>>  OBVIOUS
<1> QED  BY <1>1, <1>2, <1>3

\* The event of a whole message is one that it should fire.
LEMMA WholeOutcome ==
  ASSUME NEW m \in Seq(Field), NoComment(m), Null \notin Seq(STRING),
         NEW ev, NEW nr, NEW ms, Collected(m, 0, Len(m) + 1, ev, nr, ms)
  PROVE  /\ ev = Null => Events(m) = {}
         /\ ev # Null => [event |-> ev, data |-> ms] \in Events(m)
<1>1. (Len(m) + 1) - 1 = Len(m) /\ 0 + 1 .. Len(m) = DOMAIN m  OBVIOUS
<1>2. \/ ev = Null /\ \A j \in DOMAIN m : m[j].name \notin {"event", "comment"}
      \/ \E j \in DOMAIN m : m[j].name \in {"event", "comment"} /\ ev = <<m[j].value>>
  BY <1>1 DEF Collected, EventIn
<1>3. ms = Data(m, 0)  BY <1>1 DEF Collected, DataIn, Data
<1>4. \A j \in DOMAIN m : <<m[j].value>> # Null
  <2> TAKE j \in DOMAIN m
  <2>1. m[j] \in Field  BY ElementOfSeq
  <2>2. m[j].value \in STRING  BY <2>1 DEF Field
  <2>3. <<m[j].value>> \in Seq(STRING)  BY <2>2
  <2> QED  BY <2>3
<1>5. ASSUME ev = Null PROVE Events(m) = {}
  BY <1>2, <1>4, <1>5 DEF Events
<1>6. ASSUME ev # Null PROVE [event |-> ev, data |-> ms] \in Events(m)
  <2>1. PICK j \in DOMAIN m : m[j].name \in {"event", "comment"} /\ ev = <<m[j].value>>
    BY <1>2, <1>6
  <2>2. m[j].name = "event"  BY <2>1 DEF NoComment
  <2> QED  BY <1>3, <2>1, <2>2 DEF Events
<1> QED  BY <1>5, <1>6

\* The line feed of a blank line keeps the invariant: the event that fires there, if
\* one does, is told by the message that ends there, and the message is complete.
LEMMA StepBlank ==
  ASSUME NEW w, IInv(w), Blank
  PROVE  IInv(w)'
<1>0. Types /\ Layout(w) /\ Parse(w) /\ Told(w) /\ Whole(w)  BY DEF IInv
<1> DEFINE firing == [event |-> event, data |-> message]
           m == sent[w[at].msg]
           k0 == w[at].msg
<1>1. /\ Reading /\ ~aborted /\ state = "initial" /\ c = "LF"
      /\ fired' = IF event = Null THEN fired ELSE Append(fired, firing)
      /\ at' = at + 2
      /\ event' = Null /\ message' = <<>> /\ id' = Null
      /\ nameStart' = at + 1 /\ nameEnd' = at + 1
      /\ valueStart' = at + 1 /\ valueEnd' = at + 1
      /\ state' = "initial"
      /\ UNCHANGED streamVars
      /\ crlf' = crlf /\ sent' = sent /\ stream' = stream /\ ends' = ends
      /\ from' = from /\ to' = to /\ firedBefore' = firedBefore /\ aborted' = aborted
  BY DEF Blank, Reset, streamVars, chunkVars
<1>2. /\ at \in Nat \ {0} /\ at <= to /\ to \in Nat /\ to <= Len(stream) /\ Len(stream) \in Nat
      /\ at \in 1 .. Len(stream) /\ from \in Nat /\ from < at
  BY <1>0, <1>1 DEF Types, Reading
<1>3. stream[at] = "LF"  BY <1>0, <1>1, CurrentChar
<1>4. ASSUME event # Null
      PROVE  /\ firing \in [event : Seq(STRING), data : Seq(Seq(STRING))]
             /\ k0 \in DOMAIN sent /\ at = ends[k0] /\ AtEnd(w[at], sent, LineEnd)
             /\ Tells(m, firing)
  <2>1. PICK s \in Nat : Full(w, s)
    <3>1. ~Part(w)  BY <1>4 DEF Part, Fresh
    <3> QED  BY <1>0, <1>1, <3>1 DEF Parse
  <2>2. /\ AtEnd(w[at], sent, LineEnd) /\ at = ends[k0]
        /\ m \in Seq(Field) /\ WellFormed(m) /\ s <= Len(m)
        /\ Collected(m, s, Len(m) + 1, event, id, message)
    BY <1>0, <1>1, <1>3, <2>1, AtBlank
  <2>3. /\ Tells(m, firing) /\ event \in Seq(STRING) /\ message \in Seq(Seq(STRING))
    <3> HIDE DEF m
    <3> QED  BY <1>4, <2>2, TellsIt
  <2>4. k0 \in DOMAIN sent  BY <1>0, <1>2, InMessage DEF Types
  <2> QED  BY <2>2, <2>3, <2>4
<1> DEFINE Firings == [event : Seq(STRING), data : Seq(Seq(STRING))]
<1>5. fired \in Seq(Firings) /\ firedBefore \in 0 .. Len(fired) /\ Len(fired) \in Nat  BY <1>0 DEF Types
<1>6. ASSUME event # Null
      PROVE  /\ fired' \in Seq(Firings)
             /\ Len(fired') = Len(fired) + 1 /\ fired'[Len(fired) + 1] = firing
             /\ \A j \in 1 .. Len(fired) : fired'[j] = fired[j]
             /\ SubSeq(fired', Len(fired) + 1, Len(fired) + 1) = <<firing>>
  <2>1. fired' = Append(fired, firing) /\ firing \in Firings  BY <1>1, <1>4, <1>6
  <2> HIDE DEF firing, Firings
  <2> QED  BY <1>5, <2>1, AppendedLast
<1>7. Types'
  <2>1. fired' \in Seq(Firings) /\ firedBefore' \in 0 .. Len(fired')
    <3>1. CASE event = Null  BY <1>1, <1>5, <3>1
    <3>2. CASE event # Null
      <4> HIDE DEF Firings
      <4> QED  BY <1>1, <1>5, <1>6, <3>2
    <3> QED  BY <3>1, <3>2
  <2>2. /\ at' \in Nat /\ from' < at' /\ at' <= to' + 2 /\ at + 1 \in Nat \ {0}
    BY <1>1, <1>2
  <2> QED  BY <1>0, <1>1, <2>1, <2>2 DEF Types
<1>8. Layout(w)'  BY <1>0, <1>1, LayoutStays
<1>9. Parse(w)'
  <2> SUFFICES ASSUME Reading' PROVE Part(w)'
    BY DEF Parse
  <2>1. at + 2 \in 1 .. Len(stream)  BY <1>1, <1>2 DEF Reading
  <2>2. stream[at + 2] = ":" => w[at + 2].off = 1
    BY <1>0, <1>2, <1>3, <2>1, AfterBlank
  <2>3. c' = ":" => w[at'].off = 1  BY <1>1, <2>2 DEF c
  <2>4. Fresh'  BY <1>1 DEF Fresh
  <2>5. valueEnd' <= at'  BY <1>1, <1>2
  <2> QED  BY <1>1, <2>3, <2>4, <2>5 DEF Part
<1>10. /\ NextUnread = at /\ NextUnread' \in Nat /\ at + 1 <= NextUnread'
       /\ NextUnread \in Nat \ {0} /\ NextUnread <= NextUnread'
  BY <1>1, <1>2 DEF NextUnread, Reading
<1>11. Told(w)'
  <2>1. CASE event = Null
    BY <1>0, <1>1, <1>10, <2>1, ToldOn
  <2>2. CASE event # Null
    <3>1. PICK which \in [DOMAIN fired -> DOMAIN sent] :
            /\ \A j, k \in DOMAIN fired : j < k => which[j] < which[k]
            /\ \A j \in DOMAIN fired : Tells(sent[which[j]], fired[j])
            /\ NextUnread <= Len(stream) => \A j \in DOMAIN fired : which[j] < w[NextUnread].msg
      BY <1>0 DEF Told
    <3> DEFINE n == Len(fired)
               v == [j \in 1 .. n + 1 |-> IF j <= n THEN which[j] ELSE k0]
    <3>2. DOMAIN fired = 1 .. n /\ n \in Nat  BY <1>5
    <3>3. DOMAIN fired' = 1 .. n + 1
      <4>1. fired' \in Seq(Firings) /\ Len(fired') = n + 1  BY <1>6, <2>2
      <4> HIDE DEF n, Firings
      <4> QED  BY <4>1
    <3>4. DOMAIN sent = 1 .. Len(sent) /\ Len(sent) \in Nat  BY <1>0 DEF Types
    <3>5. k0 \in DOMAIN sent /\ k0 \in Nat
      <4>1. k0 \in DOMAIN sent  BY <1>4, <2>2
      <4> HIDE DEF k0
      <4> QED  BY <3>4, <4>1
    <3> HIDE DEF n
    <3>6. \A j \in 1 .. n : v[j] = which[j] /\ which[j] \in Nat /\ which[j] < k0 /\ which[j] \in DOMAIN sent
      <4> TAKE j \in 1 .. n
      <4>1. v[j] = which[j]  BY <3>2
      <4> HIDE DEF v
      <4>2. which[j] \in DOMAIN sent  BY <3>1, <3>2
      <4>3. which[j] < k0
        <5>1. at <= Len(stream)  BY <1>2
        <5> QED  BY <1>10, <3>1, <3>2, <5>1
      <4> HIDE DEF k0
      <4> QED  BY <3>4, <4>1, <4>2, <4>3
    <3>7. v[n + 1] = k0  BY <3>2
    <3>8. \A j \in 1 .. n + 1 : j \in 1 .. n \/ j = n + 1  BY <3>2
    <3> HIDE DEF k0
    <3>9. v \in [DOMAIN fired' -> DOMAIN sent']
      <4>1. \A j \in 1 .. n + 1 : v[j] \in DOMAIN sent  BY <3>5, <3>6, <3>7, <3>8
      <4>2. v = [j \in 1 .. n + 1 |-> v[j]]  OBVIOUS
      <4> HIDE DEF v
      <4> QED  BY <1>1, <3>3, <4>1, <4>2
    <3> HIDE DEF v
    <3>10. ASSUME NEW j \in 1 .. n + 1, NEW k \in 1 .. n + 1, j < k
           PROVE  v[j] < v[k]
      <4>1. CASE k = n + 1
        <5>1. j \in 1 .. n  BY <3>2, <3>8, <3>10, <4>1
        <5> QED  BY <3>6, <3>7, <4>1, <5>1
      <4>2. CASE k \in 1 .. n
        <5>1. j \in 1 .. n  BY <3>2, <3>10, <4>2
        <5> QED  BY <3>1, <3>2, <3>6, <3>10, <4>2, <5>1
      <4> QED  BY <3>8, <4>1, <4>2
    <3>11. ASSUME NEW j \in 1 .. n + 1
           PROVE  Tells(sent[v[j]], fired'[j])
      <4>1. CASE j \in 1 .. n
        <5>1. fired'[j] = fired[j] /\ Tells(sent[which[j]], fired[j])
          BY <1>6, <2>2, <3>1, <3>2, <4>1 DEF n
        <5> QED  BY <3>6, <4>1, <5>1
      <4>2. CASE j = n + 1
        <5>1. fired'[n + 1] = firing  BY <1>6, <2>2 DEF n
        <5>2. Tells(sent[k0], firing)  BY <1>4, <2>2 DEF k0
        <5> HIDE DEF firing
        <5> QED  BY <3>7, <4>2, <5>1, <5>2
      <4> QED  BY <3>8, <4>1, <4>2
    <3>12. ASSUME NextUnread' <= Len(stream), NEW j \in 1 .. n + 1
           PROVE  v[j] < w[NextUnread'].msg
      <4>1. NextUnread' \in 1 .. Len(stream) /\ at + 1 \in 1 .. Len(stream) /\ at + 1 <= Len(stream)
        BY <1>2, <1>10, <3>12
      <4>2. w[at + 1] = [msg |-> w[at].msg + 1, line |-> 1, off |-> 1]
        BY <1>0, <1>2, <1>4, <2>2, <4>1, Behind
      <4>3. w[at + 1].msg = k0 + 1  BY <4>2 DEF k0
      <4>4. w[at + 1].msg <= w[NextUnread'].msg  BY <1>0, <1>10, <4>1 DEF Layout, LaysOut
      <4>5. w[NextUnread'].msg \in 1 .. Len(sent)  BY <1>0, <4>1, InMessage
      <4>6. v[j] \in Nat /\ v[j] <= k0  BY <3>5, <3>6, <3>7, <3>8
      <4>7. w[NextUnread'].msg \in Nat  BY <3>4, <4>5
      <4> QED  BY <3>5, <4>3, <4>4, <4>6, <4>7
    <3> QED  BY <1>1, <3>3, <3>9, <3>10, <3>11, <3>12 DEF Told
  <2> QED  BY <2>1, <2>2
<1>12. Whole(w)'
  <2> SUFFICES ASSUME NEW k \in DOMAIN sent, ChunkIs(k, k)
               PROVE  ~Reading' /\ Outcome(k)'
    BY <1>1 DEF Whole, ChunkIs
  <2>1. Len(fired) = firedBefore /\ k0 = k /\ Full(w, 0) /\ NoComment(sent[k])
    BY <1>0, <1>1 DEF Whole
  <2>2. /\ at = ends[k]
        /\ m \in Seq(Field)
        /\ Collected(m, 0, Len(m) + 1, event, id, message)
    BY <1>0, <1>1, <1>3, <2>1, AtBlank
  <2>3. to = at  BY <2>2 DEF ChunkIs
  <2>4. ~Reading'  BY <1>1, <1>2, <2>3 DEF Reading
  <2>5. m = sent[k]  BY <2>1
  <2>6. /\ event = Null => Events(m) = {}
        /\ event # Null => firing \in Events(m)
    <3> HIDE DEF m
    <3> QED  BY <2>1, <2>2, <2>5, WholeOutcome, EventSourceAssumption
  <2>7. event = Null => FiredInChunk' = <<>>
    <3> HAVE event = Null
    <3>1. SubSeq(fired, Len(fired) + 1, Len(fired)) = <<>>  BY <1>5
    <3> QED  BY <1>1, <2>1, <3>1 DEF FiredInChunk
  <2>8. event # Null => FiredInChunk' = <<firing>>
    <3> HAVE event # Null
    <3>1. SubSeq(fired', Len(fired) + 1, Len(fired) + 1) = <<firing>> /\ Len(fired') = Len(fired) + 1
      BY <1>6
    <3> HIDE DEF firing
    <3> QED  BY <1>1, <2>1, <3>1 DEF FiredInChunk
  <2>9. Outcome(k)'
    <3>1. sent' = sent  BY <1>1
    <3> HIDE DEF m, firing
    <3> QED  BY <2>5, <2>6, <2>7, <2>8, <3>1 DEF Outcome
  <2> QED  BY <2>4, <2>9
<1> QED  BY <1>7, <1>8, <1>9, <1>11, <1>12 DEF IInv

\* A new chunk keeps the invariant: the parser starts anew wherever curl cut.
LEMMA StepDeliver ==
  ASSUME NEW w, IInv(w), NEW end \in to + 1 .. Len(stream), Deliver(end)
  PROVE  IInv(w)'
<1>0. Types /\ Layout(w) /\ Parse(w) /\ Told(w) /\ Whole(w)  BY DEF IInv
<1>1. /\ ~Reading /\ ~aborted
      /\ from' = to /\ to' = end /\ firedBefore' = Len(fired)
      /\ at' = IF stream[to + 1] = ":" THEN end + 1 ELSE to + 1
      /\ event' = Null /\ message' = <<>> /\ id' = Null
      /\ nameStart' = to + 1 /\ nameEnd' = to + 1
      /\ valueStart' = to + 1 /\ valueEnd' = to + 1
      /\ state' = "initial"
      /\ UNCHANGED streamVars
      /\ crlf' = crlf /\ sent' = sent /\ stream' = stream /\ ends' = ends
      /\ fired' = fired /\ aborted' = aborted
  BY DEF Deliver, Reset, streamVars
<1>2. /\ to \in Nat /\ Len(stream) \in Nat /\ end \in Nat /\ to < end /\ end <= Len(stream)
      /\ to + 1 \in 1 .. Len(stream) /\ to + 1 <= end
  BY <1>0 DEF Types
<1>3. Types'
  <2>1. /\ at' \in Nat /\ to < at' /\ at' <= end + 2 /\ to + 1 \in Nat \ {0}
    BY <1>1, <1>2
  <2>2. Len(fired) \in 0 .. Len(fired)  BY <1>0 DEF Types
  <2>3. to <= end  BY <1>2
  <2> QED  BY <1>0, <1>1, <1>2, <2>1, <2>2, <2>3 DEF Types
<1>4. Layout(w)'  BY <1>0, <1>1, LayoutStays
<1>5. Reading' => at' = to + 1 /\ stream[to + 1] # ":"
  BY <1>1, <1>2 DEF Reading
<1>6. Parse(w)'
  <2> SUFFICES ASSUME Reading' PROVE Part(w)'
    BY DEF Parse
  <2>1. c' # ":"  BY <1>1, <1>5 DEF c
  <2>2. Fresh'  BY <1>1 DEF Fresh
  <2>3. valueEnd' <= at'  BY <1>1, <1>2, <1>5
  <2> QED  BY <1>1, <2>1, <2>2, <2>3 DEF Part
<1>7. Told(w)'
  <2>1. /\ NextUnread = to + 1 /\ NextUnread' \in Nat /\ to + 1 <= NextUnread'
        /\ to + 1 \in Nat \ {0}
    BY <1>1, <1>2 DEF NextUnread, Reading
  <2> QED  BY <1>0, <1>1, <2>1, ToldOn
<1>8. ASSUME NEW k \in DOMAIN sent, ChunkIs(k, k)'
      PROVE  IF Reading'
             THEN (Len(fired) = firedBefore)' /\ w[at'].msg = k /\ Full(w, 0)' /\ NoComment(sent[k])
             ELSE Outcome(k)'
  <2> DEFINE m == sent[k]
             q == to + 1
  <2>1. q = StartOf(k, ends)
    <3>1. end = ends[k] /\ to = IF k = 1 THEN 0 ELSE ends[k - 1]  BY <1>1, <1>8 DEF ChunkIs
    <3> QED  BY <3>1 DEF StartOf
  <2>2. q \in 1 .. Len(stream) /\ w[q] = [msg |-> k, line |-> 1, off |-> 1]
    <3>1. k \in 1 .. Len(sent)  BY <1>0 DEF Types
    <3> QED  BY <1>0, <2>1, <3>1 DEF Layout, LaysOut
  <2>3. w[q].msg = k /\ w[q].line = 1 /\ w[q].off = 1  BY <2>2
  <2>4. At(w, q)  BY <1>0, <2>2, Here
  <2>5. m \in Seq(Field) /\ WellFormed(m) /\ Len(m) \in Nat  BY <2>3, <2>4 DEF At
  <2>6. ~NoComment(m) => stream[q] = ":"
    <3> SUFFICES ASSUME NEW j \in DOMAIN m, m[j].name = "comment"
                 PROVE  stream[q] = ":"
      BY DEF NoComment
    <3>1. Len(m) = 1  BY <2>5 DEF WellFormed
    <3>2. j = 1  BY <2>5, <3>1
    <3>3. ~IsBlank(w[q], sent)  BY <2>3, <3>1 DEF IsBlank
    <3>4. m[1] = sent[w[q].msg][w[q].line]  BY <2>3
    <3>5. FieldCharacter(m[1], 1, stream[q])
      <4> HIDE DEF m, q
      <4> QED  BY <2>3, <2>4, <3>3, <3>4, OnLine
    <3>6. Sp(m[1]) = 0  BY <3>2, NoSpelling DEF Sp
    <3> QED  BY <3>5, <3>6 DEF FieldCharacter
  <2>7. CASE Reading'
    <3>1. at' = q /\ NoComment(m)  BY <1>5, <2>6, <2>7
    <3>2. Collected(m, 0, 1, Null, Null, <<>>)
      <4>1. 1 \in 1 .. Len(m) + 1 /\ 1 - 1 = 0  BY <2>5
      <4>2. Collected(m, 1 - 1, 1, Null, Null, <<>>)  BY <2>5, <4>1, FreshCollected
      <4> QED  BY <4>1, <4>2
    <3>3. valueEnd' <= at' /\ 0 \in 0 .. 1 - 1  BY <1>1, <1>2, <3>1
    <3>4. Full(w, 0)'
      BY <1>1, <2>3, <3>1, <3>2, <3>3 DEF Full
    <3>5. w[at'].msg = k /\ (Len(fired) = firedBefore)'  BY <1>1, <2>3, <3>1
    <3> QED  BY <2>7, <3>1, <3>4, <3>5
  <2>8. CASE ~Reading'
    <3>1. stream[q] = ":"  BY <1>1, <1>2, <2>8 DEF Reading
    <3>2. ~IsBlank(w[q], sent)
      <4> SUFFICES ASSUME IsBlank(w[q], sent) PROVE FALSE  OBVIOUS
      <4>1. stream[q] \in {"CR", "LF"}  BY <2>4, OnBlank
      <4> QED  BY <3>1, <4>1
    <3> DEFINE f == m[1]
    <3>3. Sp(f) \in {0, 2} /\ FieldCharacter(f, 1, stream[q]) /\ f.name \in FieldNames
          /\ 1 \in 1 .. Len(m)
      <4>1. f = sent[w[q].msg][w[q].line]  BY <2>3
      <4> HIDE DEF f, q
      <4> QED  BY <2>3, <2>4, <3>2, <4>1, OnLine
    <3>4. Sp(f) = 0  BY <3>1, <3>3 DEF FieldCharacter
    <3>5. f.name = "comment"
      <4>1. Len(Spelling(f.name)) = 0  BY <3>4 DEF Sp
      <4>2. f.name # "comment" => Len(Spelling(f.name)) = 2  BY <3>3, Spellings
      <4> QED  BY <4>1, <4>2
    <3>6. Len(m) = 1  BY <2>5, <3>3, <3>5 DEF WellFormed
    <3>7. Events(m) = {}
      <4>1. \A j \in DOMAIN m : m[j].name = "comment"  BY <2>5, <3>5, <3>6
      <4> QED  BY <4>1 DEF Events
    <3>8. FiredInChunk' = <<>>
      <4>1. SubSeq(fired, Len(fired) + 1, Len(fired)) = <<>>  BY <1>0 DEF Types
      <4> QED  BY <1>1, <4>1 DEF FiredInChunk
    <3>9. Outcome(k)'  BY <1>1, <3>7, <3>8 DEF Outcome
    <3> QED  BY <2>8, <3>9
  <2> QED  BY <2>7, <2>8
<1>9. Whole(w)'  BY <1>1, <1>8 DEF Whole
<1> QED  BY <1>3, <1>4, <1>6, <1>7, <1>9 DEF IInv

-----------------------------------------------------------------------------
(***************************************************************************)
(* A message more.                                                         *)
(***************************************************************************)
\* A place is what it was as long as its message is.
LEMMA SamePlace ==
  ASSUME NEW ms, NEW ns, NEW le, NEW p, ms[p.msg] = ns[p.msg]
  PROVE  /\ TextOf(p, ms, le) = TextOf(p, ns, le)
         /\ IsBlank(p, ms) <=> IsBlank(p, ns)
         /\ AtEnd(p, ms, le) <=> AtEnd(p, ns, le)
         /\ After(p, ms, le) = After(p, ns, le)
<1>1. TextOf(p, ms, le) = TextOf(p, ns, le)  BY DEF TextOf
<1>2. IsBlank(p, ms) <=> IsBlank(p, ns)  BY DEF IsBlank
<1>3. AtEnd(p, ms, le) <=> AtEnd(p, ns, le)  BY <1>2 DEF AtEnd
<1>4. After(p, ms, le) = After(p, ns, le)  BY <1>1, <1>2 DEF After
<1> QED  BY <1>1, <1>2, <1>3, <1>4

\* v goes on with what w says of the stream.
Extends(v, w) ==
  /\ \A p \in 1 .. Len(stream) : v[p] = w[p]
  /\ v[Len(stream) + 1].msg = Len(sent) + 1
  /\ Len(stream') \in Nat /\ Len(stream) < Len(stream')

\* One message more is laid out behind the messages before it.
LEMMA SendLayout ==
  ASSUME NEW w, Types, Layout(w), NEW m \in Messages,
         sent' = Append(sent, m), stream' = stream \o Characters(m),
         ends' = Append(ends, Len(stream')), crlf' = crlf
  PROVE  \E v : Layout(v)' /\ Extends(v, w)
<1> DEFINE N == Len(sent)
           T == Len(stream)
           t == Characters(m)
           X == Len(t)
           L == Len(m) + 1
<1>1. m \in Seq(Field) /\ Len(m) \in Nat  BY EventSourceAssumption
<1>2. PICK u : Laid(m, L, t, u)  BY <1>1, MessageLaid
<1>3. L \in Nat /\ L # 0 /\ ~(L <= Len(m)) /\ L \in 1 .. L  BY <1>1
<1>4. /\ t \in Seq(Alphabet) /\ X \in Nat /\ 1 <= X
      /\ u[1] = [line |-> 1, off |-> 1] /\ u[X] = LastSpot(m, L)
  BY <1>2, <1>3 DEF Laid
<1>5. /\ stream \in Seq(Alphabet) /\ T \in Nat /\ N \in Nat /\ ends \in Seq(Nat)
      /\ sent \in Seq(Messages)
  BY DEF Types
<1>6. Joined(stream, t, stream')  BY <1>4, <1>5, Concatenation
<1>7. /\ sent' \in Seq(Messages) /\ Len(sent') = N + 1 /\ sent'[N + 1] = m
      /\ \A k \in 1 .. N : sent'[k] = sent[k]
  <2> HIDE DEF t
  <2> QED  BY <1>5, AppendedLast
<1>8. LineEnd' = LineEnd /\ Len(LineEnd) \in Nat  BY LineEnds DEF LineEnd
<1>9. TextAt(m, L, LineEnd) = LineEnd  BY <1>3 DEF TextAt
<1> HIDE DEF t, X, L
<1>10. /\ stream' \in Seq(Alphabet) /\ Len(stream') = T + X
       /\ \A p \in 1 .. T : stream'[p] = stream[p]
       /\ \A p \in 1 .. X : stream'[T + p] = t[p]
  BY <1>6 DEF Joined, X
<1>11. /\ ends' \in Seq(Nat) /\ Len(ends') = Len(ends) + 1 /\ ends'[Len(ends) + 1] = T + X
       /\ \A k \in 1 .. Len(ends) : ends'[k] = ends[k]
  <2>1. T + X \in Nat  BY <1>4, <1>5
  <2> HIDE DEF T, X
  <2> QED  BY <1>5, <1>10, <2>1, AppendedLast
<1>12. Len(ends) = N  BY DEF Layout, LaysOut
<1>0. PICK v : v = [p \in 1 .. T + X |->
                      IF p <= T THEN w[p]
                      ELSE [msg |-> N + 1, line |-> u[p - T].line, off |-> u[p - T].off]]
  OBVIOUS
<1>13. ASSUME NEW p \in 1 .. T + X, p <= T
       PROVE  /\ p \in 1 .. T /\ v[p] = w[p] /\ w[p].msg \in 1 .. N
              /\ sent'[v[p].msg] = sent[v[p].msg]
  <2>1. p \in 1 .. T  BY <1>5, <1>13
  <2>2. v[p] = w[p]  BY <1>0, <1>13
  <2>3. w[p].msg \in 1 .. N  BY <2>1, InMessage
  <2> QED  BY <1>7, <2>1, <2>2, <2>3
<1>14. ASSUME NEW p \in 1 .. T + X, ~(p <= T)
       PROVE  /\ p - T \in 1 .. X /\ T + (p - T) = p
              /\ v[p] = [msg |-> N + 1, line |-> u[p - T].line, off |-> u[p - T].off]
              /\ SpotIn(m, L, t, p - T, u[p - T])
              /\ stream'[p] = t[p - T]
  <2>1. v[p] = [msg |-> N + 1, line |-> u[p - T].line, off |-> u[p - T].off]  BY <1>0, <1>14
  <2> HIDE DEF T
  <2>2. p - T \in 1 .. X /\ T + (p - T) = p  BY <1>4, <1>5, <1>14
  <2>3. SpotIn(m, L, t, p - T, u[p - T])  BY <1>2, <2>2 DEF Laid, X
  <2> QED  BY <1>10, <2>1, <2>2, <2>3
<1>15. ASSUME NEW p \in 1 .. T + X, ~(p <= T)
       PROVE  /\ v[p].msg = N + 1 /\ v[p].line = u[p - T].line /\ v[p].off = u[p - T].off
              /\ TextOf(v[p], sent', LineEnd) = TextAt(m, u[p - T].line, LineEnd)
              /\ IsBlank(v[p], sent') <=> u[p - T].line = L
  <2>1. v[p].msg = N + 1 /\ v[p].line = u[p - T].line /\ v[p].off = u[p - T].off
    <3>1. v[p] = [msg |-> N + 1, line |-> u[p - T].line, off |-> u[p - T].off]  BY <1>14, <1>15
    <3> QED  BY <3>1
  <2> HIDE DEF T
  <2> QED  BY <1>7, <2>1 DEF TextOf, IsBlank, L
<1>16. v \in [1 .. T + X -> Place]
  <2> SUFFICES ASSUME NEW p \in 1 .. T + X PROVE v[p] \in Place
    BY <1>0
  <2>1. CASE p <= T
    <3>1. w[p] \in Place  BY <1>13, <2>1 DEF Layout, LaysOut
    <3> QED  BY <1>13, <2>1, <3>1
  <2>2. CASE ~(p <= T)
    <3>1. u[p - T] \in Spot  BY <1>14, <2>2 DEF SpotIn
    <3>2. N + 1 \in Nat  BY <1>5
    <3> HIDE DEF T, N
    <3>3. u[p - T].line \in Nat /\ u[p - T].off \in Nat  BY <3>1 DEF Spot
    <3>4. v[p] = [msg |-> N + 1, line |-> u[p - T].line, off |-> u[p - T].off]  BY <1>14, <2>2
    <3>5. [msg |-> N + 1, line |-> u[p - T].line, off |-> u[p - T].off] \in Place
      BY <3>2, <3>3 DEF Place
    <3> QED  BY <3>4, <3>5
  <2> QED  BY <2>1, <2>2
<1>17. ASSUME NEW p \in 1 .. T + X
       PROVE  /\ IsPlace(v[p], sent', LineEnd)
              /\ stream'[p] = TextOf(v[p], sent', LineEnd)[v[p].off]
  <2>0. v[p] \in Place  BY <1>16
  <2>1. CASE p <= T
    <3>1. IsPlace(w[p], sent, LineEnd) /\ stream[p] = TextOf(w[p], sent, LineEnd)[w[p].off]
      BY <1>13, <2>1 DEF Layout, LaysOut
    <3>2. v[p] = w[p] /\ sent'[v[p].msg] = sent[v[p].msg] /\ stream'[p] = stream[p] /\ v[p].msg \in 1 .. N
      BY <1>10, <1>13, <2>1
    <3>3. TextOf(v[p], sent', LineEnd) = TextOf(v[p], sent, LineEnd)
      <4>1. sent'[v[p].msg] = sent[v[p].msg]  BY <3>2
      <4> QED  BY <4>1 DEF TextOf
    <3>4. v[p].msg \in DOMAIN sent'
      <4>1. v[p].msg \in 1 .. N + 1  BY <1>5, <3>2
      <4> QED  BY <1>7, <4>1
    <3> QED  BY <2>0, <3>1, <3>2, <3>3, <3>4 DEF IsPlace
  <2>2. CASE ~(p <= T)
    <3>1. /\ v[p].line \in 1 .. L /\ v[p].off \in 1 .. Len(TextAt(m, v[p].line, LineEnd))
          /\ t[p - T] = TextAt(m, v[p].line, LineEnd)[v[p].off]
      BY <1>14, <1>15, <2>2 DEF SpotIn
    <3>2. /\ v[p].msg = N + 1 /\ TextOf(v[p], sent', LineEnd) = TextAt(m, v[p].line, LineEnd)
          /\ stream'[p] = t[p - T]
      BY <1>14, <1>15, <2>2
    <3>3. N + 1 \in DOMAIN sent'
      <4>1. N + 1 \in 1 .. N + 1  BY <1>5
      <4> QED  BY <1>7, <4>1
    <3> HIDE DEF N
    <3> QED  BY <1>7, <2>0, <3>1, <3>2, <3>3 DEF IsPlace, L
  <2> QED  BY <2>1, <2>2
<1>18. ASSUME NEW p \in 1 .. T + X, p + 1 <= T + X
       PROVE  v[p + 1] = After(v[p], sent', LineEnd)
  <2>0. p + 1 \in 1 .. T + X /\ p \in Nat  BY <1>4, <1>5, <1>18
  <2>1. CASE p + 1 <= T
    <3>1. p <= T  BY <1>5, <2>0, <2>1
    <3>2. v[p + 1] = w[p + 1] /\ v[p] = w[p] /\ p \in 1 .. T /\ sent'[v[p].msg] = sent[v[p].msg]
      BY <1>13, <2>0, <2>1, <3>1
    <3>3. w[p + 1] = After(w[p], sent, LineEnd)  BY <2>1, <3>2 DEF Layout, LaysOut
    <3>4. After(v[p], sent', LineEnd) = After(v[p], sent, LineEnd)  BY <3>2, SamePlace
    <3> QED  BY <3>2, <3>3, <3>4
  <2>2. CASE p = T
    <3>1. p \in 1 .. T /\ v[p] = w[p] /\ sent'[v[p].msg] = sent[v[p].msg]  BY <1>5, <1>13, <2>2
    <3>2. N \in 1 .. N /\ T = ends[N]
      <4>1. sent # <<>>
        <5> SUFFICES ASSUME sent = <<>> PROVE FALSE  OBVIOUS
        <5>1. stream = <<>>  BY DEF Layout, LaysOut
        <5>2. T = 0  BY <5>1
        <5> QED  BY <2>2, <3>1, <5>2
      <4>2. T = ends[N]  BY <4>1 DEF Layout, LaysOut
      <4>3. N # 0  BY <1>5, <4>1
      <4>4. N \in 1 .. N
        <5> HIDE DEF N
        <5> QED  BY <1>5, <4>3
      <4> QED  BY <4>2, <4>4
    <3>3. AtEnd(w[p], sent, LineEnd) /\ w[p].msg = N  BY <2>2, <3>2 DEF Layout, LaysOut
    <3>4. AtEnd(v[p], sent', LineEnd)  BY <3>1, <3>3, SamePlace
    <3>5. ~(v[p].off < Len(TextOf(v[p], sent', LineEnd))) /\ IsBlank(v[p], sent')
      <4>1. IsBlank(v[p], sent') /\ v[p].off = Len(LineEnd)  BY <3>4 DEF AtEnd
      <4>2. TextOf(v[p], sent', LineEnd) = LineEnd
        <5>1. sent'[v[p].msg] \in Seq(Field)
          <6>1. sent'[v[p].msg] = sent[N] /\ sent[N] \in Messages  BY <1>5, <3>1, <3>2, <3>3
          <6> QED  BY <6>1, EventSourceAssumption
        <5> DEFINE mm == sent'[v[p].msg]
        <5>2. v[p].line = Len(mm) + 1  BY <4>1 DEF IsBlank
        <5>3. ~(Len(mm) + 1 <= Len(mm))
          <6>1. Len(mm) \in Nat  BY <5>1
          <6> HIDE DEF mm
          <6> QED  BY <6>1
        <5> HIDE DEF mm
        <5>4. TextAt(mm, v[p].line, LineEnd) = LineEnd  BY <5>2, <5>3 DEF TextAt
        <5> QED  BY <5>4 DEF TextOf, mm
      <4> QED  BY <1>8, <4>1, <4>2
    <3>6. After(v[p], sent', LineEnd) = [msg |-> N + 1, line |-> 1, off |-> 1]
      BY <3>1, <3>3, <3>5 DEF After
    <3>7. v[p + 1] = [msg |-> N + 1, line |-> 1, off |-> 1]
      <4>1. ~(p + 1 <= T) /\ (p + 1) - T = 1  BY <1>5, <2>2
      <4>2. v[p + 1] = [msg |-> N + 1, line |-> u[1].line, off |-> u[1].off]
        BY <1>14, <2>0, <4>1
      <4> QED  BY <1>4, <4>2
    <3> QED  BY <3>6, <3>7
  <2>3. CASE p > T
    <3> DEFINE q == p - T
    <3>1. ~(p <= T) /\ ~(p + 1 <= T) /\ (p + 1) - T = q + 1  BY <1>5, <2>0, <2>3
    <3>2. q \in 1 .. X /\ q + 1 <= X
      <4>1. q \in 1 .. X  BY <1>14, <3>1
      <4>2. q + 1 <= X
        <5> HIDE DEF X, T
        <5> QED  BY <1>4, <1>5, <1>18, <2>0
      <4> QED  BY <4>1, <4>2
    <3>3. u[q + 1] = Further(m, u[q])  BY <1>2, <3>2 DEF Laid, X
    <3>4. u[q] # LastSpot(m, L)
      <4>1. u[q] = LastSpot(m, L) => q = X  BY <1>2, <3>2 DEF Laid, X
      <4> HIDE DEF q
      <4> QED  BY <1>4, <3>2, <4>1
    <3>5. /\ v[p].msg = N + 1 /\ v[p].line = u[q].line /\ v[p].off = u[q].off
          /\ TextOf(v[p], sent', LineEnd) = TextAt(m, u[q].line, LineEnd)
          /\ IsBlank(v[p], sent') <=> u[q].line = L
      BY <1>15, <3>1
    <3>6. v[p + 1] = [msg |-> N + 1, line |-> u[q + 1].line, off |-> u[q + 1].off]
      BY <1>14, <2>0, <3>1
    <3>7. v[p] = [msg |-> N + 1, line |-> u[q].line, off |-> u[q].off]
      BY <1>14, <3>1
    <3>8. SpotIn(m, L, t, q, u[q])  BY <1>14, <3>1
    <3> HIDE DEF q, N
    <3>9. CASE u[q].off < Len(TextAt(m, u[q].line, LineEnd))
      <4>1. u[q + 1] = [line |-> u[q].line, off |-> u[q].off + 1]  BY <3>3, <3>9 DEF Further
      <4>2. After(v[p], sent', LineEnd) = [v[p] EXCEPT !.off = v[p].off + 1]
        BY <3>5, <3>9 DEF After
      <4>3. [v[p] EXCEPT !.off = v[p].off + 1] = [msg |-> N + 1, line |-> u[q].line, off |-> u[q].off + 1]
        BY <3>7, SMTT(30)
      <4> QED  BY <3>6, <4>1, <4>2, <4>3
    <3>10. CASE ~(u[q].off < Len(TextAt(m, u[q].line, LineEnd)))
      <4>1. u[q + 1] = [line |-> u[q].line + 1, off |-> 1]  BY <3>3, <3>10 DEF Further
      <4>2. ~IsBlank(v[p], sent')
        <5> SUFFICES ASSUME u[q].line = L PROVE FALSE  BY <3>5
        <5>1. u[q] \in Spot /\ u[q].off \in 1 .. Len(LineEnd)  BY <1>9, <3>8 DEF SpotIn
        <5>2. ~(u[q].off < Len(LineEnd))  BY <1>9, <3>10
        <5>3. u[q].off = Len(LineEnd)  BY <1>8, <5>1, <5>2
        <5>4. u[q] = [line |-> L, off |-> Len(LineEnd)]  BY <5>1, <5>3 DEF Spot
        <5> QED  BY <1>9, <3>4, <5>4 DEF LastSpot
      <4>3. After(v[p], sent', LineEnd) = [msg |-> N + 1, line |-> u[q].line + 1, off |-> 1]
        BY <3>5, <3>10, <4>2 DEF After
      <4> QED  BY <3>6, <4>1, <4>3
    <3> QED  BY <3>9, <3>10
  <2>4. p + 1 <= T \/ p = T \/ p > T
    <3> HIDE DEF T
    <3> QED  BY <1>5, <2>0
  <2> QED  BY <2>1, <2>2, <2>3, <2>4
<1>19. ASSUME NEW p \in 1 .. T + X, NEW q \in 1 .. T + X, p <= q
       PROVE  v[p].msg <= v[q].msg
  <2>1. CASE q <= T
    <3>1. p <= T  BY <1>4, <1>5, <1>19, <2>1
    <3>2. v[p] = w[p] /\ v[q] = w[q] /\ p \in 1 .. T /\ q \in 1 .. T  BY <1>13, <2>1, <3>1
    <3> QED  BY <1>19, <3>2 DEF Layout, LaysOut
  <2>2. CASE ~(q <= T)
    <3>1. v[q].msg = N + 1  BY <1>15, <2>2
    <3>2. CASE p <= T
      <4>1. v[p].msg \in 1 .. N  BY <1>13, <3>2
      <4> HIDE DEF N
      <4> QED  BY <1>5, <3>1, <4>1
    <3>3. CASE ~(p <= T)
      <4>1. v[p].msg = N + 1  BY <1>15, <3>3
      <4> HIDE DEF N
      <4> QED  BY <1>5, <3>1, <4>1
    <3> QED  BY <3>2, <3>3
  <2> QED  BY <2>1, <2>2
<1>20. /\ T + X \in 1 .. T + X /\ ~(T + X <= T) /\ (T + X) - T = X
       /\ T + 1 \in 1 .. T + X /\ ~(T + 1 <= T) /\ (T + 1) - T = 1
       /\ \A q \in 1 .. T : q \in 1 .. T + X /\ q <= T
  BY <1>4, <1>5
<1>21. v[T + 1] = [msg |-> N + 1, line |-> 1, off |-> 1]
  <2>1. v[T + 1] = [msg |-> N + 1, line |-> u[1].line, off |-> u[1].off]
    BY <1>14, <1>20
  <2> QED  BY <1>4, <2>1
<1>22. v[T + X].msg = N + 1 /\ AtEnd(v[T + X], sent', LineEnd)
  <2>1. /\ v[T + X].msg = N + 1 /\ v[T + X].off = u[X].off
        /\ IsBlank(v[T + X], sent') <=> u[X].line = L
    BY <1>15, <1>20
  <2>2. u[X].line = L /\ u[X].off = Len(LineEnd)  BY <1>4, <1>9 DEF LastSpot
  <2> QED  BY <2>1, <2>2 DEF AtEnd
<1>23. ASSUME NEW k \in 1 .. N + 1
       PROVE  /\ ends'[k] \in 1 .. T + X /\ AtEnd(v[ends'[k]], sent', LineEnd) /\ v[ends'[k]].msg = k
              /\ StartOf(k, ends') \in 1 .. T + X
              /\ v[StartOf(k, ends')] = [msg |-> k, line |-> 1, off |-> 1]
  <2>1. CASE k \in 1 .. N
    <3>1. /\ ends[k] \in 1 .. T /\ AtEnd(w[ends[k]], sent, LineEnd) /\ w[ends[k]].msg = k
          /\ StartOf(k, ends) \in 1 .. T
          /\ w[StartOf(k, ends)] = [msg |-> k, line |-> 1, off |-> 1]
      BY <2>1 DEF Layout, LaysOut
    <3>2. ends'[k] = ends[k]  BY <1>11, <1>12, <2>1
    <3>3. StartOf(k, ends') = StartOf(k, ends)
      <4>1. k # 1 => k - 1 \in 1 .. N  BY <1>5, <2>1
      <4> QED  BY <1>11, <1>12, <4>1 DEF StartOf
    <3>4. v[ends[k]] = w[ends[k]] /\ sent'[v[ends[k]].msg] = sent[v[ends[k]].msg]
          /\ v[StartOf(k, ends)] = w[StartOf(k, ends)]
      BY <1>13, <1>20, <3>1
    <3>5. AtEnd(v[ends[k]], sent', LineEnd)  BY <3>1, <3>4, SamePlace
    <3> QED  BY <1>20, <3>1, <3>2, <3>3, <3>4, <3>5
  <2>2. CASE k = N + 1
    <3>1. ends'[k] = T + X  BY <1>11, <1>12, <2>2
    <3>2. StartOf(k, ends') = T + 1
      <4>1. CASE N = 0
        <5>1. sent = <<>>  BY <1>5, <4>1
        <5>2. stream = <<>>  BY <5>1 DEF Layout, LaysOut
        <5>3. T = 0  BY <5>2
        <5> HIDE DEF T, N
        <5> QED  BY <2>2, <4>1, <5>3 DEF StartOf
      <4>2. CASE N # 0
        <5>1. sent # <<>>  BY <4>2
        <5>2. T = ends[N]  BY <5>1 DEF Layout, LaysOut
        <5> HIDE DEF T, N
        <5>3. N \in 1 .. N /\ k # 1 /\ k - 1 = N  BY <1>5, <2>2, <4>2
        <5>4. ends'[N] = T  BY <1>11, <1>12, <5>2, <5>3
        <5> QED  BY <5>3, <5>4 DEF StartOf
      <4> QED  BY <4>1, <4>2
    <3> HIDE DEF T, N
    <3> QED  BY <1>20, <1>21, <1>22, <2>2, <3>1, <3>2
  <2>3. k \in 1 .. N \/ k = N + 1
    <3> HIDE DEF N
    <3> QED  BY <1>5
  <2> QED  BY <2>1, <2>2, <2>3
<1>24. ASSUME NEW p \in 1 .. T + X, AtEnd(v[p], sent', LineEnd)
       PROVE  p = ends'[v[p].msg]
  <2>1. CASE p <= T
    <3>1. v[p] = w[p] /\ p \in 1 .. T /\ sent'[v[p].msg] = sent[v[p].msg] /\ w[p].msg \in 1 .. N
      BY <1>13, <2>1
    <3>2. AtEnd(w[p], sent, LineEnd)  BY <1>24, <3>1, SamePlace
    <3>3. p = ends[w[p].msg]  BY <3>1, <3>2 DEF Layout, LaysOut
    <3> QED  BY <1>11, <1>12, <3>1, <3>3
  <2>2. CASE ~(p <= T)
    <3> DEFINE q == p - T
    <3>1. /\ v[p].msg = N + 1 /\ v[p].off = u[q].off
          /\ IsBlank(v[p], sent') <=> u[q].line = L
          /\ q \in 1 .. X /\ T + q = p /\ SpotIn(m, L, t, q, u[q])
      BY <1>14, <1>15, <2>2
    <3> HIDE DEF q
    <3>2. u[q].line = L /\ u[q].off = Len(LineEnd) /\ u[q] \in Spot
      BY <1>24, <3>1 DEF AtEnd, SpotIn
    <3>3. u[q] = LastSpot(m, L)
      <4>1. u[q] = [line |-> L, off |-> Len(LineEnd)]  BY <3>2 DEF Spot
      <4> QED  BY <1>9, <4>1 DEF LastSpot
    <3>4. q = X  BY <1>2, <3>1, <3>3 DEF Laid, X
    <3> QED  BY <1>11, <1>12, <3>1, <3>4
  <2> QED  BY <2>1, <2>2
<1>25. sent' # <<>> /\ Len(stream') = ends'[Len(sent')] /\ Len(ends') = Len(sent')
  <2>1. Len(sent') # 0 /\ Len(sent') = N + 1  BY <1>5, <1>7
  <2>2. Len(<<>>) = 0  OBVIOUS
  <2> QED  BY <1>10, <1>11, <1>12, <2>1, <2>2
<1>26. Layout(v)'
  <2> HIDE DEF T, N
  <2>1. Len(stream') = T + X /\ Len(sent') = N + 1 /\ LineEnd' = LineEnd  BY <1>7, <1>8, <1>10
  <2>2. v \in [1 .. Len(stream') -> Place]  BY <1>16, <2>1
  <2>3. \A p \in 1 .. Len(stream') :
          IsPlace(v[p], sent', LineEnd') /\ stream'[p] = TextOf(v[p], sent', LineEnd')[v[p].off]
    BY <1>17, <2>1
  <2>4. \A p \in 1 .. Len(stream') : p + 1 <= Len(stream') => v[p + 1] = After(v[p], sent', LineEnd')
    BY <1>18, <2>1
  <2>5. \A p, q \in 1 .. Len(stream') : p <= q => v[p].msg <= v[q].msg
    BY <1>19, <2>1
  <2>6. \A k \in 1 .. Len(sent') :
          /\ ends'[k] \in 1 .. Len(stream') /\ AtEnd(v[ends'[k]], sent', LineEnd') /\ v[ends'[k]].msg = k
          /\ StartOf(k, ends') \in 1 .. Len(stream')
          /\ v[StartOf(k, ends')] = [msg |-> k, line |-> 1, off |-> 1]
    BY <1>23, <2>1
  <2>7. \A p \in 1 .. Len(stream') : AtEnd(v[p], sent', LineEnd') => p = ends'[v[p].msg]
    BY <1>24, <2>1
  <2>8. LaysOut(v, sent', stream', ends', LineEnd')
    BY <1>25, <2>2, <2>3, <2>4, <2>5, <2>6, <2>7 DEF LaysOut
  <2> QED  BY <2>8 DEF Layout
<1>27. Extends(v, w)
  <2>1. \A p \in 1 .. T : v[p] = w[p]  BY <1>13, <1>20
  <2>2. v[T + 1].msg = N + 1  BY <1>21
  <2>3. Len(stream') \in Nat /\ T < Len(stream')  BY <1>4, <1>5, <1>10
  <2> QED  BY <2>1, <2>2, <2>3 DEF Extends
<1> QED  BY <1>26, <1>27

\* One message more keeps the invariant.
LEMMA StepSend ==
  ASSUME NEW w, IInv(w), NEW m \in Messages, Send(m)
  PROVE  \E v : IInv(v)'
<1>0. Types /\ Layout(w) /\ Parse(w) /\ Told(w) /\ Whole(w)  BY DEF IInv
<1>1. /\ ~Reading /\ sent' = Append(sent, m) /\ stream' = stream \o Characters(m)
      /\ ends' = Append(ends, Len(stream')) /\ crlf' = crlf
      /\ from' = from /\ to' = to /\ firedBefore' = firedBefore /\ at' = at /\ state' = state
      /\ nameStart' = nameStart /\ nameEnd' = nameEnd
      /\ valueStart' = valueStart /\ valueEnd' = valueEnd
      /\ fired' = fired /\ aborted' = aborted
  BY DEF Send, chunkVars, indexVars
<1>2. PICK v : Layout(v)' /\ Extends(v, w)  BY <1>0, <1>1, SendLayout
<1>3. /\ Len(stream) \in Nat /\ Len(stream') \in Nat /\ Len(stream) < Len(stream')
      /\ to \in Nat /\ to <= Len(stream)
      /\ Len(sent) \in Nat /\ DOMAIN sent = 1 .. Len(sent) /\ Len(ends) = Len(sent)
  BY <1>0, <1>2 DEF Types, Extends, Layout, LaysOut
<1>4. /\ sent' \in Seq(Messages) /\ Len(sent') = Len(sent) + 1
      /\ \A k \in 1 .. Len(sent) : sent'[k] = sent[k]
  BY <1>0, <1>1, AppendedLast DEF Types
<1>5. /\ ends' \in Seq(Nat) /\ ends'[Len(sent) + 1] = Len(stream')
      /\ \A k \in 1 .. Len(sent) : ends'[k] = ends[k]
  BY <1>0, <1>1, <1>3, AppendedLast DEF Types
<1>6. stream' \in Seq(Alphabet)
  <2>1. m \in Seq(Field)  BY EventSourceAssumption
  <2>2. Characters(m) \in Seq(Alphabet)  BY <2>1, MessageLaid DEF Laid
  <2> QED  BY <1>0, <1>1, <2>2, Concatenation DEF Types, Joined
<1>7. Types'
  <2>1. to' <= Len(stream')  BY <1>1, <1>3
  <2> QED  BY <1>0, <1>1, <1>4, <1>5, <1>6, <2>1 DEF Types
<1>8. ~Reading'  BY <1>1 DEF Reading
<1>9. Parse(v)'  BY <1>8 DEF Parse
<1>10. NextUnread = to + 1 /\ NextUnread' = to + 1  BY <1>1, <1>8 DEF NextUnread
<1>11. DOMAIN sent' = 1 .. Len(sent) + 1 /\ 1 .. Len(sent) \subseteq 1 .. Len(sent) + 1
       /\ \A k \in 1 .. Len(sent) + 1 : k \in 1 .. Len(sent) \/ k = Len(sent) + 1
  BY <1>3, <1>4
<1>12. Told(v)'
  <2>1. PICK which \in [DOMAIN fired -> DOMAIN sent] :
          /\ \A j, k \in DOMAIN fired : j < k => which[j] < which[k]
          /\ \A j \in DOMAIN fired : Tells(sent[which[j]], fired[j])
          /\ NextUnread <= Len(stream) => \A j \in DOMAIN fired : which[j] < w[NextUnread].msg
    BY <1>0 DEF Told
  <2>2. which \in [DOMAIN fired -> DOMAIN sent']  BY <1>3, <1>11
  <2>3. \A j \in DOMAIN fired : Tells(sent'[which[j]], fired[j])
    BY <1>3, <1>4, <2>1
  <2>4. ASSUME NEW j \in DOMAIN fired
        PROVE  which[j] < v[to + 1].msg
    <3>1. CASE to + 1 <= Len(stream)
      <4>1. to + 1 \in 1 .. Len(stream)  BY <1>3, <3>1
      <4>2. v[to + 1] = w[to + 1]  BY <1>2, <4>1 DEF Extends
      <4> QED  BY <1>10, <2>1, <3>1, <4>2
    <3>2. CASE ~(to + 1 <= Len(stream))
      <4>1. to + 1 = Len(stream) + 1  BY <1>3, <3>2
      <4>2. v[to + 1].msg = Len(sent) + 1  BY <1>2, <4>1 DEF Extends
      <4>3. which[j] \in 1 .. Len(sent)  BY <1>3
      <4>4. which[j] < Len(sent) + 1  BY <1>3, <4>3
      <4> QED  BY <4>2, <4>4
    <3> QED  BY <3>1, <3>2
  <2> QED  BY <1>1, <1>10, <2>1, <2>2, <2>3, <2>4 DEF Told
<1>13. Whole(v)'
  <2> SUFFICES ASSUME NEW k \in DOMAIN sent', ChunkIs(k, k)'
               PROVE  Outcome(k)'
    BY <1>8 DEF Whole
  <2>1. to = ends'[k] /\ from = IF k = 1 THEN 0 ELSE ends'[k - 1]  BY <1>1 DEF ChunkIs
  <2>2. k # Len(sent) + 1  BY <1>3, <1>5, <2>1
  <2>3. k \in 1 .. Len(sent)  BY <1>11, <2>2
  <2>4. k # 1 => k - 1 \in 1 .. Len(sent)  BY <1>3, <2>3
  <2>5. ChunkIs(k, k)  BY <1>5, <2>1, <2>3, <2>4 DEF ChunkIs
  <2>6. Outcome(k)  BY <1>0, <1>1, <1>3, <2>3, <2>5 DEF Whole
  <2>7. sent'[k] = sent[k] /\ FiredInChunk' = FiredInChunk  BY <1>1, <1>4, <2>3 DEF FiredInChunk
  <2> QED  BY <2>6, <2>7 DEF Outcome
<1> QED  BY <1>2, <1>7, <1>9, <1>12, <1>13 DEF IInv

-----------------------------------------------------------------------------
(***************************************************************************)
(* The theorems.                                                           *)
(***************************************************************************)

\* And the invariant itself.
Inv == \E w : IInv(w)

\* Before anything is sent there is nothing to lay out.
LEMMA Initially == Init => Inv
<1> SUFFICES ASSUME Init PROVE Inv
  OBVIOUS
<1> USE DEF Init
<1>1. PICK w : w = [p \in 1 .. 0 |-> [msg |-> 1, line |-> 1, off |-> 1]]  OBVIOUS
<1>2. Len(<<>>) = 0 /\ DOMAIN <<>> = {} /\ 1 .. 0 = {}  OBVIOUS
<1>3. Types
  <2>1. <<>> \in Seq(Messages) /\ <<>> \in Seq(Alphabet) /\ <<>> \in Seq(Nat)
        /\ <<>> \in Seq([event : Seq(STRING), data : Seq(Seq(STRING))])
    OBVIOUS
  <2>2. 0 \in 0 .. Len(<<>>)  BY <1>2
  <2> QED  BY <1>2, <2>1, <2>2 DEF Types
<1>4. Layout(w)
  <2>1. w \in [1 .. Len(stream) -> Place]  BY <1>1, <1>2
  <2>2. \A p \in 1 .. 0 : FALSE  OBVIOUS
  <2> QED  BY <1>2, <2>1, <2>2 DEF Layout, LaysOut
<1>5. ~Reading  BY DEF Reading
<1>6. Parse(w)  BY <1>5 DEF Parse
<1>7. Told(w)
  <2>1. [j \in {} |-> 1] \in [DOMAIN fired -> DOMAIN sent]  BY <1>2
  <2>2. \A j \in DOMAIN fired : FALSE  BY <1>2
  <2> QED  BY <2>1, <2>2 DEF Told
<1>8. Whole(w)  BY <1>2 DEF Whole
<1> QED  BY <1>3, <1>4, <1>6, <1>7, <1>8 DEF IInv, Inv

\* A stutter keeps the invariant.
LEMMA StepNothing ==
  ASSUME NEW w, IInv(w), UNCHANGED vars
  PROVE  IInv(w)'
<1>0. Types /\ Layout(w) /\ Parse(w) /\ Told(w) /\ Whole(w)  BY DEF IInv
<1>1. /\ UNCHANGED streamVars
      /\ crlf' = crlf /\ sent' = sent /\ stream' = stream /\ ends' = ends
      /\ from' = from /\ to' = to /\ firedBefore' = firedBefore /\ at' = at /\ state' = state
      /\ nameStart' = nameStart /\ nameEnd' = nameEnd
      /\ valueStart' = valueStart /\ valueEnd' = valueEnd
      /\ event' = event /\ message' = message /\ id' = id
      /\ fired' = fired /\ aborted' = aborted
  BY DEF vars, streamVars, chunkVars, indexVars, fieldVars
<1>2. Types'  BY <1>0, <1>1 DEF Types
<1>3. Layout(w)'  BY <1>0, <1>1, LayoutStays
<1>4. /\ Reading' = Reading /\ NameRead' = NameRead /\ LineEnd' = LineEnd /\ c' = c
      /\ NextUnread' = NextUnread /\ FiredInChunk' = FiredInChunk /\ Fresh' = Fresh
  BY <1>1 DEF Reading, NameRead, LineEnd, c, NextUnread, FiredInChunk, Fresh
<1>5. Part(w) => Part(w)'  BY <1>1, <1>4 DEF Part
<1>6. \A s : Full(w, s) => Full(w, s)'  BY <1>1, <1>4 DEF Full
<1>7. Parse(w)'  BY <1>0, <1>4, <1>5, <1>6 DEF Parse
<1>8. Told(w)'  BY <1>0, <1>1, <1>4 DEF Told
<1>9. Whole(w)'
  <2>1. \A k \in DOMAIN sent : Outcome(k) => Outcome(k)'  BY <1>1, <1>4 DEF Outcome
  <2>2. \A k \in DOMAIN sent : ChunkIs(k, k)' => ChunkIs(k, k)  BY <1>1 DEF ChunkIs
  <2> QED  BY <1>0, <1>1, <1>4, <1>6, <2>1, <2>2 DEF Whole
<1> QED  BY <1>2, <1>3, <1>7, <1>8, <1>9 DEF IInv

\* Every step keeps the invariant.
LEMMA Preserved == Inv /\ [Next]_vars => Inv'
<1> SUFFICES ASSUME Inv, [Next]_vars PROVE Inv'
  OBVIOUS
<1>0. PICK w : IInv(w)  BY DEF Inv
<1>1. ASSUME NEW m \in Messages, Send(m) PROVE \E v : IInv(v)'
  BY <1>0, <1>1, StepSend
<1>2. ASSUME NEW end \in to + 1 .. Len(stream), Deliver(end) PROVE IInv(w)'
  BY <1>0, <1>2, StepDeliver
<1>3. CASE Blank  BY <1>0, <1>3, StepBlank DEF Inv
<1>4. CASE ReadsOn  BY <1>0, <1>4, StepReadsOn DEF Inv
<1>5. CASE UNCHANGED vars  BY <1>0, <1>5, StepNothing DEF Inv
<1>6. ASSUME Next
      PROVE  \/ \E m \in Messages : Send(m)
             \/ \E end \in to + 1 .. Len(stream) : Deliver(end)
             \/ Blank \/ ReadsOn
  BY <1>6 DEF Next, ReadsOn
<1> QED  BY <1>1, <1>2, <1>3, <1>4, <1>5, <1>6 DEF Inv

\* At any time the parser knows where it is in a message, or has lost the beginning
\* of a line and collected nothing.
THEOREM InvariantHolds == Spec => []Inv
BY Initially, Preserved, PTL DEF Spec

\* No stream of well-formed messages, wherever curl cuts it, runs into the
\* assertions of _event_source_reader_message_read.
THEOREM NeverAbortsHolds == Spec => []NeverAborts
<1>1. Inv => NeverAborts  BY DEF Inv, IInv, Types, NeverAborts
<1> QED  BY <1>1, InvariantHolds, PTL

\* Wherever curl cuts the stream, what is fired are events that were sent, in
\* their order, each at most once and with no data of another message.
THEOREM FiredWasSentHolds == Spec => []FiredWasSent
<1>1. Inv => FiredWasSent  BY DEF Inv, IInv, Told, FiredWasSent
<1> QED  BY <1>1, InvariantHolds, PTL

\* A chunk that is one message fires its event with all of its data, or nothing if
\* it has none, however the chunks before it were cut.
THEOREM WholeMessageFiresHolds == Spec => []WholeMessageFires
<1>1. Inv => WholeMessageFires
  <2> SUFFICES ASSUME Inv, ~Reading, NEW k \in DOMAIN sent, ChunkIs(k, k)
               PROVE  Outcome(k)
    BY DEF WholeMessageFires, Outcome
  <2>1. PICK w : Whole(w)  BY DEF Inv, IInv
  <2> QED  BY <2>1 DEF Whole
<1> QED  BY <1>1, InvariantHolds, PTL
=============================================================================
