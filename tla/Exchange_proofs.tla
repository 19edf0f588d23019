--------------------------- MODULE Exchange_proofs ---------------------------
(***************************************************************************)
(* The parser finds the words that were typed, in lines of any length over *)
(* any characters, and reads no argument that is not there; the prompt     *)
(* shows what was answered, unless a text is too long for the buffers.     *)
(*                                                                         *)
(* Spans gives each word of a line its place in the message: where its     *)
(* blanks end, where its text ends, and where it ends itself. A line keeps *)
(* its spans while it is typed (Lined), and a scan of the parser is always *)
(* at a place inside one span (At). Both scans of a message go by the same *)
(* spans, so that the count of the one is right for the other (Progress).  *)
(*                                                                         *)
(* Of a reply, Headed says what the prompt finds in it, Spare what is left *)
(* of its buffer. They rest on what the conversions of ints compute: that  *)
(* Decimal and Value are what they are defined to be (DecimalIs,           *)
(* ValueRuns), and that a printed int is read back (PrintedReads).         *)
(***************************************************************************)
EXTENDS Exchange, ListOps_proofs

-----------------------------------------------------------------------------
(* Texts *)

\* A letter is neither blank nor quote, and no typed character ends a text.
LEMMA TypableFacts ==
  /\ "sp" \in Blanks /\ "nl" \in Blanks
  /\ \A c \in Typable : c # NULL
  /\ \A c \in Blanks : c \notin Quotes /\ c \notin Letters
  /\ \A c \in Letters : c \notin Quotes /\ c \notin Blanks
BY CharAssumption, ExchangeAssumption DEF Typable

\* No text is the absence of one.
LEMMA TextIsThere == \A t \in Seq(Typable) : t # NULL
BY TextAssumption

\* What SeqOf gives are texts.
LEMMA ShortTexts ==
  ASSUME NEW S, NEW n \in Int, NEW w \in SeqOf(S, n)
  PROVE  w \in Seq(S) /\ Len(w) \in Nat /\ Len(w) <= n
<1>1. PICK m \in 0 .. n : w \in [1 .. m -> S]
  BY DEF SeqOf
<1> QED BY <1>1

\* A part of a text that is one character longer.
LEMMA PartGrows ==
  ASSUME NEW S, NEW s \in Seq(S), NEW m \in Nat, NEW p \in Nat, m <= p, p < Len(s)
  PROVE  SubSeq(s, m + 1, p + 1) = SubSeq(s, m + 1, p) \o <<s[p + 1]>>
<1> DEFINE u == SubSeq(s, m + 1, p)
           v == SubSeq(s, m + 1, p + 1)
           x == <<s[p + 1]>>
<1>1. \A i \in m + 1 .. p + 1 : s[i] \in S
  OBVIOUS
<1>2. /\ u \in Seq(S) /\ Len(u) = p - m
      /\ \A i \in 1 .. p - m : u[i] = s[m + i]
  <2>1. /\ SubSeq(s, m + 1, p) \in Seq(S)
        /\ Len(SubSeq(s, m + 1, p)) = IF m + 1 <= p THEN p - (m + 1) + 1 ELSE 0
        /\ \A i \in 1 .. p - (m + 1) + 1 : SubSeq(s, m + 1, p)[i] = s[m + 1 + i - 1]
    BY <1>1, SubSeqProperties
  <2> QED BY <2>1
<1>3. /\ v \in Seq(S) /\ Len(v) = p - m + 1
      /\ \A i \in 1 .. p - m + 1 : v[i] = s[m + i]
  <2>1. /\ SubSeq(s, m + 1, p + 1) \in Seq(S)
        /\ Len(SubSeq(s, m + 1, p + 1)) = IF m + 1 <= p + 1 THEN p + 1 - (m + 1) + 1 ELSE 0
        /\ \A i \in 1 .. p + 1 - (m + 1) + 1 : SubSeq(s, m + 1, p + 1)[i] = s[m + 1 + i - 1]
    BY <1>1, SubSeqProperties
  <2> QED BY <2>1
<1>4. x \in Seq(S) /\ Len(x) = 1 /\ x[1] = s[p + 1]
  BY <1>1
<1> HIDE DEF u, v, x
<1>5. /\ u \o x \in Seq(S) /\ Len(u \o x) = p - m + 1
      /\ \A i \in 1 .. p - m + 1 : (u \o x)[i] = IF i <= p - m THEN u[i] ELSE x[i - (p - m)]
  <2>1. /\ u \o x \in Seq(S) /\ Len(u \o x) = Len(u) + Len(x)
        /\ \A i \in 1 .. Len(u) + Len(x) :
             (u \o x)[i] = IF i <= Len(u) THEN u[i] ELSE x[i - Len(u)]
    BY <1>2, <1>4, ConcatProperties
  <2> QED BY <1>2, <1>4, <2>1
<1>6. \A i \in 1 .. p - m + 1 : (u \o x)[i] = v[i]
  BY <1>2, <1>3, <1>4, <1>5
<1>7. u \o x = v
  BY <1>3, <1>5, <1>6, SeqEqual
<1> QED BY <1>7 DEF u, v, x

\* A part that is empty.
LEMMA EmptyPart ==
  ASSUME NEW s, NEW m \in Nat
  PROVE  SubSeq(s, m + 1, m) = <<>>
BY SubSeqEmpty

-----------------------------------------------------------------------------
(* Places of words *)

\* The message that a line is sent as.
Message(typed) == Append(typed, "nl")

\* From p to q there is nothing but blanks.
Gap(str, p, q) == \A j \in p + 1 .. q : str[j] \in Blanks

\* Where the text of a word that begins at b begins: behind its quote.
Content(str, b) == IF str[b + 1] \in Quotes THEN b + 1 ELSE b

\* At b, str has the word w, whose text lasts to t and which ends at e: a
\* string, closed or not, or an identifier.
Word(str, b, t, e, w) ==
  /\ b < e /\ e <= Len(str) /\ t <= e /\ Content(str, b) <= t
  /\ w = SubSeq(str, Content(str, b) + 1, t)
  /\ str[b + 1] \notin Blanks
  /\ str[b + 1] \in Quotes =>
       /\ \A j \in b + 2 .. t : str[j] \notin Quotes
       /\ \/ e = t + 1 /\ str[e] \in Quotes
          \/ e = t /\ t = Len(str)
  /\ str[b + 1] \notin Quotes =>
       /\ \A j \in b + 1 .. t : str[j] \notin Blanks
       /\ e = t /\ (t < Len(str) => str[t + 1] \in Blanks)

\* The words ws are found in str one after the other.
Found(str, ws, b, t, e) ==
  /\ b \in [1 .. Len(ws) -> Nat] /\ t \in [1 .. Len(ws) -> Nat]
  /\ e \in [0 .. Len(ws) -> Nat] /\ e[0] = 0
  /\ \A i \in 1 .. Len(ws) :
       /\ e[i - 1] <= b[i] /\ i <= e[i] /\ Gap(str, e[i - 1], b[i])
       /\ Word(str, b[i], t[i], e[i], ws[i])

\* The words ws are found, and nothing else is there.
Spans(str, ws, b, t, e) ==
  /\ Found(str, ws, b, t, e)
  /\ e[Len(ws)] <= Len(str) /\ Gap(str, e[Len(ws)], Len(str))

-----------------------------------------------------------------------------
(* Typing *)

\* A line keeps its spans; all but the last word are sure to end in it.
Lined(b, t, e) ==
  /\ Spans(Message(line), words, b, t, e)
  /\ last # "open" => \A i \in 0 .. Len(words) : e[i] <= Len(line)
  /\ last \in {"gap", "string"} =>
       \A i \in 1 .. Len(words) : Message(line)[b[i] + 1] \notin Quotes => e[i] < Len(line)

\* The types of what is typed.
TypingOK ==
  /\ line \in Seq(Typable) /\ words \in Seq(Seq(Typable))
  /\ last \in {"gap", "word", "string", "open"} /\ room \in 0 .. MaxChars

\* A line and what is typed behind it.
LEMMA LongerLine ==
  ASSUME NEW l \in Seq(Typable), NEW x \in Seq(Typable)
  PROVE  /\ l \o x \in Seq(Typable) /\ Len(l \o x) = Len(l) + Len(x)
         /\ Message(l) \in Seq(Typable) /\ Len(Message(l)) = Len(l) + 1
         /\ Message(l)[Len(l) + 1] = "nl"
         /\ \A i \in 1 .. Len(l) : Message(l)[i] = l[i]
         /\ Message(l \o x) \in Seq(Typable)
         /\ Len(Message(l \o x)) = Len(l) + Len(x) + 1
         /\ Message(l \o x)[Len(l) + Len(x) + 1] = "nl"
         /\ \A i \in 1 .. Len(l) : Message(l \o x)[i] = Message(l)[i]
         /\ \A i \in 1 .. Len(x) : Message(l \o x)[Len(l) + i] = x[i]
<1>1. /\ l \o x \in Seq(Typable) /\ Len(l \o x) = Len(l) + Len(x)
      /\ \A i \in 1 .. Len(l) + Len(x) :
           (l \o x)[i] = IF i <= Len(l) THEN l[i] ELSE x[i - Len(l)]
  BY ConcatProperties
<1>2. "nl" \in Typable
  BY TypableFacts DEF Typable
<1>3. \A s \in Seq(Typable) :
        /\ Message(s) \in Seq(Typable) /\ Len(Message(s)) = Len(s) + 1
        /\ Message(s)[Len(s) + 1] = "nl"
        /\ \A i \in 1 .. Len(s) : Message(s)[i] = s[i]
  BY <1>2 DEF Message
<1>4. Len(l) \in Nat /\ Len(x) \in Nat
  OBVIOUS
<1>5. \A i \in 1 .. Len(x) : (l \o x)[Len(l) + i] = x[i]
  BY <1>1, <1>4
<1>6. \A i \in 1 .. Len(l) : (l \o x)[i] = l[i]
  BY <1>1, <1>4
<1>7. \A i \in 1 .. Len(x) : Len(l) + i \in 1 .. Len(l \o x)
  BY <1>1, <1>4
<1>8. \A i \in 1 .. Len(l) : i \in 1 .. Len(l \o x)
  BY <1>1, <1>4
<1> QED BY <1>1, <1>3, <1>5, <1>6, <1>7, <1>8

\* The part of a line that comes before what is typed is the same after it.
LEMMA SamePart ==
  ASSUME NEW s \in Seq(Typable), NEW u \in Seq(Typable), NEW m \in Nat, NEW p \in Nat,
         p <= Len(s), p <= Len(u), \A i \in 1 .. p : s[i] = u[i]
  PROVE  SubSeq(s, m + 1, p) = SubSeq(u, m + 1, p)
<1>1. /\ \A i \in m + 1 .. p : s[i] \in Typable
      /\ \A i \in m + 1 .. p : u[i] \in Typable
  OBVIOUS
<1>2. /\ SubSeq(s, m + 1, p) \in Seq(Typable)
      /\ Len(SubSeq(s, m + 1, p)) = IF m + 1 <= p THEN p - (m + 1) + 1 ELSE 0
      /\ \A i \in 1 .. p - (m + 1) + 1 : SubSeq(s, m + 1, p)[i] = s[m + 1 + i - 1]
  BY <1>1, SubSeqProperties
<1>3. /\ SubSeq(u, m + 1, p) \in Seq(Typable)
      /\ Len(SubSeq(u, m + 1, p)) = IF m + 1 <= p THEN p - (m + 1) + 1 ELSE 0
      /\ \A i \in 1 .. p - (m + 1) + 1 : SubSeq(u, m + 1, p)[i] = u[m + 1 + i - 1]
  BY <1>1, SubSeqProperties
<1>4. \A i \in 1 .. p - (m + 1) + 1 : m + 1 + i - 1 \in 1 .. p
  OBVIOUS
<1>5. \A i \in 1 .. p - (m + 1) + 1 : SubSeq(s, m + 1, p)[i] = SubSeq(u, m + 1, p)[i]
  BY <1>2, <1>3, <1>4
<1>6. \A i \in 1 .. Len(SubSeq(s, m + 1, p)) : SubSeq(s, m + 1, p)[i] = SubSeq(u, m + 1, p)[i]
  BY <1>2, <1>5
<1> QED BY <1>2, <1>3, <1>6, SeqEqual

\* A word of a line stays where it is when the line grows, unless it is an
\* identifier that the line ends with and that goes on.
LEMMA WordStays ==
  ASSUME NEW l \in Seq(Typable), NEW x \in Seq(Typable), x # <<>>,
         NEW b \in Nat, NEW t \in Nat, NEW e \in Nat, NEW w,
         Word(Message(l), b, t, e, w), e <= Len(l),
         Message(l)[b + 1] \notin Quotes => e < Len(l) \/ x[1] \in Blanks
  PROVE  Word(Message(l \o x), b, t, e, w)
<1> DEFINE u == Message(l)
           v == Message(l \o x)
<1>1. /\ u \in Seq(Typable) /\ Len(u) = Len(l) + 1 /\ v \in Seq(Typable)
      /\ Len(v) = Len(l) + Len(x) + 1 /\ Len(l) \in Nat /\ Len(x) \in Nat \ {0}
      /\ \A i \in 1 .. Len(l) : v[i] = u[i]
      /\ v[Len(l) + 1] = x[1]
  <2>1. Len(l) \in Nat /\ Len(x) \in Nat \ {0} /\ 1 \in 1 .. Len(x)
    OBVIOUS
  <2>2. /\ u \in Seq(Typable) /\ Len(u) = Len(l) + 1 /\ v \in Seq(Typable)
        /\ Len(v) = Len(l) + Len(x) + 1
        /\ \A i \in 1 .. Len(l) : v[i] = u[i]
        /\ \A i \in 1 .. Len(x) : v[Len(l) + i] = x[i]
    BY LongerLine
  <2> QED BY <2>1, <2>2
<1> HIDE DEF u, v
<1>2. Word(u, b, t, e, w)
  BY DEF u
<1>3. b < e /\ t <= e /\ b + 1 \in 1 .. Len(l) /\ v[b + 1] = u[b + 1]
  BY <1>1, <1>2 DEF Word
<1>4. Content(v, b) = Content(u, b) /\ Content(u, b) \in Nat
  BY <1>3 DEF Content
<1>5. w = SubSeq(v, Content(v, b) + 1, t)
  <2>1. t <= Len(u) /\ t <= Len(v) /\ \A i \in 1 .. t : u[i] = v[i]
    BY <1>1, <1>3
  <2>2. SubSeq(u, Content(u, b) + 1, t) = SubSeq(v, Content(u, b) + 1, t)
    <3> DEFINE m == Content(u, b)
    <3>1. m \in Nat
      BY <1>4
    <3> HIDE DEF m
    <3>2. SubSeq(u, m + 1, t) = SubSeq(v, m + 1, t)
      BY <1>1, <2>1, <3>1, SamePart
    <3> QED BY <3>2 DEF m
  <2>3. w = SubSeq(u, Content(u, b) + 1, t)
    BY <1>2 DEF Word
  <2> QED BY <1>4, <2>2, <2>3
<1>6. ASSUME v[b + 1] \in Quotes
      PROVE  /\ \A j \in b + 2 .. t : v[j] \notin Quotes
             /\ \/ e = t + 1 /\ v[e] \in Quotes
                \/ e = t /\ t = Len(v)
  <2>1. /\ \A j \in b + 2 .. t : u[j] \notin Quotes
        /\ \/ e = t + 1 /\ u[e] \in Quotes
           \/ e = t /\ t = Len(u)
    BY <1>2, <1>3, <1>6 DEF Word
  <2>2. /\ \A j \in b + 2 .. t : j \in 1 .. Len(l)
        /\ e \in 1 .. Len(l)
    BY <1>1, <1>3
  <2> QED BY <1>1, <2>1, <2>2
<1>7. ASSUME v[b + 1] \notin Quotes
      PROVE  /\ \A j \in b + 1 .. t : v[j] \notin Blanks
             /\ e = t /\ (t < Len(v) => v[t + 1] \in Blanks)
  <2>1. /\ \A j \in b + 1 .. t : u[j] \notin Blanks
        /\ e = t /\ (t < Len(u) => u[t + 1] \in Blanks)
    BY <1>2, <1>3, <1>7 DEF Word
  <2>2. \A j \in b + 1 .. t : j \in 1 .. Len(l)
    BY <1>1, <1>3
  <2>3. e < Len(l) \/ x[1] \in Blanks
    BY <1>3, <1>7 DEF u
  <2>4. v[t + 1] \in Blanks
    <3>1. CASE t < Len(l)
      <4>1. t + 1 \in 1 .. Len(l) /\ t < Len(u)
        BY <1>1, <3>1
      <4> QED BY <1>1, <2>1, <4>1
    <3>2. CASE t = Len(l)
      BY <1>1, <2>1, <2>3, <3>2
    <3> QED BY <1>1, <2>1, <3>1, <3>2
  <2> QED BY <1>1, <2>1, <2>2, <2>4
<1>8. Word(v, b, t, e, w)
  <2>1. /\ b < e /\ e <= Len(v) /\ t <= e /\ Content(v, b) <= t
        /\ v[b + 1] \notin Blanks
    <3>1. Content(u, b) <= t /\ u[b + 1] \notin Blanks
      BY <1>2 DEF Word
    <3> QED BY <1>1, <1>3, <1>4, <3>1
  <2> QED BY <1>5, <1>6, <1>7, <2>1 DEF Word
<1> QED BY <1>8 DEF v

\* The words of a line stay where they are when it grows.
LEMMA FoundStays ==
  ASSUME NEW l \in Seq(Typable), NEW x \in Seq(Typable), x # <<>>,
         NEW ws \in Seq(Seq(Typable)), NEW b, NEW t, NEW e,
         Spans(Message(l), ws, b, t, e), \A i \in 0 .. Len(ws) : e[i] <= Len(l),
         \A i \in 1 .. Len(ws) :
           Message(l)[b[i] + 1] \notin Quotes => e[i] < Len(l) \/ x[1] \in Blanks
  PROVE  /\ Found(Message(l \o x), ws, b, t, e)
         /\ Gap(Message(l \o x), e[Len(ws)], Len(l))
<1> DEFINE n == Len(ws)
           u == Message(l)
           v == Message(l \o x)
<1>1. /\ Len(u) = Len(l) + 1 /\ Len(l) \in Nat /\ n \in Nat
      /\ \A i \in 1 .. Len(l) : v[i] = u[i]
  <2>1. Len(l) \in Nat /\ n \in Nat
    OBVIOUS
  <2>2. Len(u) = Len(l) + 1 /\ \A i \in 1 .. Len(l) : v[i] = u[i]
    BY LongerLine
  <2> QED BY <2>1, <2>2
<1>2. /\ Spans(u, ws, b, t, e) /\ \A i \in 0 .. n : e[i] <= Len(l)
      /\ \A i \in 1 .. n : u[b[i] + 1] \notin Quotes => e[i] < Len(l) \/ x[1] \in Blanks
  OBVIOUS
<1>3. ASSUME NEW p \in Nat, NEW q \in Nat, NEW r \in Nat, NEW w,
             Word(u, p, q, r, w), r <= Len(l),
             u[p + 1] \notin Quotes => r < Len(l) \/ x[1] \in Blanks
      PROVE  Word(v, p, q, r, w)
  BY <1>3, WordStays
<1>4. \A i \in 1 .. n : i \in 0 .. n /\ i - 1 \in 0 .. n
  BY <1>1
<1>5. n \in 0 .. n /\ n = Len(ws)
  BY <1>1
<1> HIDE DEF n, u, v
<1>6. /\ b \in [1 .. n -> Nat] /\ t \in [1 .. n -> Nat] /\ e \in [0 .. n -> Nat] /\ e[0] = 0
      /\ Gap(u, e[n], Len(u)) /\ e[n] \in Nat /\ e[n] <= Len(l)
  BY <1>2, <1>1, <1>5 DEF Spans, Found
<1>7. ASSUME NEW i \in 1 .. n
      PROVE  /\ e[i - 1] <= b[i] /\ i <= e[i] /\ Gap(v, e[i - 1], b[i])
             /\ Word(v, b[i], t[i], e[i], ws[i])
  <2>1. /\ b[i] \in Nat /\ t[i] \in Nat /\ e[i] \in Nat /\ e[i - 1] \in Nat /\ e[i] <= Len(l)
    BY <1>2, <1>4, <1>6
  <2>2. /\ e[i - 1] <= b[i] /\ i <= e[i] /\ Gap(u, e[i - 1], b[i])
        /\ Word(u, b[i], t[i], e[i], ws[i])
    BY <1>2, <1>5 DEF Spans, Found
  <2>3. Word(v, b[i], t[i], e[i], ws[i])
    <3>1. u[b[i] + 1] \notin Quotes => e[i] < Len(l) \/ x[1] \in Blanks
      BY <1>2
    <3> QED BY <1>3, <2>1, <2>2, <3>1
  <2>4. b[i] < e[i]
    BY <2>2 DEF Word
  <2>5. \A j \in e[i - 1] + 1 .. b[i] : j \in 1 .. Len(l)
    BY <1>1, <2>1, <2>4
  <2> QED BY <1>1, <2>2, <2>3, <2>5 DEF Gap
<1>8. Found(v, ws, b, t, e)
  BY <1>6, <1>7, <1>5 DEF Found
<1>9. \A j \in e[n] + 1 .. Len(l) : j \in 1 .. Len(l) /\ j \in e[n] + 1 .. Len(u)
  BY <1>1, <1>6
<1>10. Gap(v, e[n], Len(l))
  BY <1>1, <1>6, <1>9 DEF Gap
<1> QED BY <1>8, <1>10 DEF n, v

\* A function on numbers with a value for one number more.
And(f, first, n, v) == [i \in first .. n |-> IF i = n THEN v ELSE f[i]]

\* A word behind those that were found.
LEMMA WordAdded ==
  ASSUME NEW str \in Seq(Typable), NEW ws \in Seq(Seq(Typable)), NEW w \in Seq(Typable),
         NEW b, NEW t, NEW e, Found(str, ws, b, t, e),
         NEW p \in Nat, NEW q \in Nat, NEW r \in Nat, Word(str, p, q, r, w),
         e[Len(ws)] <= p, Gap(str, e[Len(ws)], p)
  PROVE  /\ Found(str, Append(ws, w), And(b, 1, Len(ws) + 1, p), And(t, 1, Len(ws) + 1, q),
                  And(e, 0, Len(ws) + 1, r))
         /\ Len(Append(ws, w)) = Len(ws) + 1
<1> DEFINE n == Len(ws)
           b2 == And(b, 1, n + 1, p)
           t2 == And(t, 1, n + 1, q)
           e2 == And(e, 0, n + 1, r)
           ws2 == Append(ws, w)
<1>1. /\ n \in Nat /\ Len(ws2) = n + 1 /\ ws2[n + 1] = w /\ \A i \in 1 .. n : ws2[i] = ws[i]
  OBVIOUS
<1>2. /\ b \in [1 .. n -> Nat] /\ t \in [1 .. n -> Nat] /\ e \in [0 .. n -> Nat] /\ e[0] = 0
      /\ \A i \in 1 .. n : /\ e[i - 1] <= b[i] /\ i <= e[i] /\ Gap(str, e[i - 1], b[i])
                           /\ Word(str, b[i], t[i], e[i], ws[i])
  BY DEF Found
<1>3. /\ b2 \in [1 .. n + 1 -> Nat] /\ t2 \in [1 .. n + 1 -> Nat] /\ e2 \in [0 .. n + 1 -> Nat]
      /\ b2[n + 1] = p /\ t2[n + 1] = q /\ e2[n + 1] = r
      /\ \A i \in 1 .. n : b2[i] = b[i] /\ t2[i] = t[i] /\ e2[i] = e[i]
      /\ \A i \in 0 .. n : e2[i] = e[i]
  BY <1>1, <1>2 DEF And
<1> HIDE DEF b2, t2, e2, ws2, n
<1>4. n <= e[n] /\ e[n] \in Nat /\ e2[0] = 0
  <2>1. CASE n = 0
    BY <1>2, <1>3, <2>1
  <2>2. CASE n # 0
    <3>1. n \in 1 .. n /\ 0 \in 0 .. n
      BY <1>1, <2>2
    <3> QED BY <1>2, <1>3, <3>1
  <2> QED BY <2>1, <2>2
<1>5. p < r
  BY DEF Word
<1>6. ASSUME NEW i \in 1 .. n + 1
      PROVE  /\ e2[i - 1] <= b2[i] /\ i <= e2[i] /\ Gap(str, e2[i - 1], b2[i])
             /\ Word(str, b2[i], t2[i], e2[i], ws2[i])
  <2>1. CASE i = n + 1
    <3>1. i - 1 = n /\ n \in 0 .. n
      BY <1>1, <2>1
    <3>2. e2[i - 1] = e[n] /\ e[n] <= p /\ Gap(str, e[n], p)
      BY <1>3, <3>1 DEF n
    <3> QED BY <1>1, <1>3, <1>4, <1>5, <2>1, <3>2
  <2>2. CASE i # n + 1
    <3>1. i \in 1 .. n /\ i - 1 \in 0 .. n
      BY <1>1, <2>2
    <3> QED BY <1>1, <1>2, <1>3, <3>1
  <2> QED BY <2>1, <2>2
<1>7. Found(str, ws2, b2, t2, e2)
  BY <1>1, <1>3, <1>4, <1>6 DEF Found
<1> QED BY <1>1, <1>7 DEF b2, t2, e2, ws2, n

\* A line is where a word can begin, and its spans are known.
Lineable(l, ws, b, t, e, x) ==
  /\ Spans(Message(l), ws, b, t, e)
  /\ \A i \in 0 .. Len(ws) : e[i] <= Len(l)
  /\ \A i \in 1 .. Len(ws) :
       Message(l)[b[i] + 1] \notin Quotes => e[i] < Len(l) \/ x[1] \in Blanks

\* What is typed behind a line that has no open string is behind its words, and
\* where it is not a blank it begins a word.
LEMMA CanType ==
  ASSUME TypingOK, NEW b, NEW t, NEW e, Lined(b, t, e), last # "open",
         NEW x, last # "word" \/ x[1] \in Blanks
  PROVE  Lineable(line, words, b, t, e, x)
BY DEF Lined, Lineable, TypingOK

\* A word that is typed behind a line is found behind its words.
LEMMA WordTyped ==
  ASSUME NEW l \in Seq(Typable), NEW x \in Seq(Typable), x # <<>>,
         NEW ws \in Seq(Seq(Typable)), NEW b, NEW t, NEW e, Lineable(l, ws, b, t, e, x),
         NEW w \in Seq(Typable), NEW q \in Nat, NEW r \in Nat,
         Word(Message(l \o x), Len(l), q, r, w)
  PROVE  /\ Found(Message(l \o x), Append(ws, w), And(b, 1, Len(ws) + 1, Len(l)),
                  And(t, 1, Len(ws) + 1, q), And(e, 0, Len(ws) + 1, r))
         /\ Len(Append(ws, w)) = Len(ws) + 1
<1>1. /\ Found(Message(l \o x), ws, b, t, e)
      /\ Gap(Message(l \o x), e[Len(ws)], Len(l))
  BY FoundStays DEF Lineable
<1>2. e[Len(ws)] <= Len(l) /\ Len(l) \in Nat /\ Message(l \o x) \in Seq(Typable)
  <2>1. Len(ws) \in 0 .. Len(ws) /\ Len(l) \in Nat
    OBVIOUS
  <2>2. Message(l \o x) \in Seq(Typable)
    BY LongerLine
  <2> QED BY <2>1, <2>2 DEF Lineable
<1> QED BY <1>1, <1>2, WordAdded

\* A blank between words, or behind them.
LEMMA BlankTyped ==
  ASSUME TypingOK, NEW b, NEW t, NEW e, Lined(b, t, e), TypeBlank
  PROVE  TypingOK' /\ Lined(b, t, e)'
<1> DEFINE x == <<"sp">>
           v == Message(line \o x)
<1>1. /\ line' = line \o x /\ last' = "gap" /\ last # "open" /\ words' = words
      /\ room' = room - 1 /\ room' \in 0 .. MaxChars
  BY ExchangeAssumption DEF TypeBlank, Type, TypingOK
<1>2. x \in Seq(Typable) /\ x # <<>> /\ Len(x) = 1 /\ x[1] = "sp" /\ "sp" \in Blanks /\ "nl" \in Blanks
  BY TypableFacts DEF Typable
<1>3. Lineable(line, words, b, t, e, x)
  BY <1>1, <1>2, CanType
<1>4. line \in Seq(Typable) /\ words \in Seq(Seq(Typable)) /\ Len(line) \in Nat /\ Len(words) \in Nat
  BY DEF TypingOK
<1> HIDE DEF x, v
<1>5. /\ Found(v, words, b, t, e) /\ Gap(v, e[Len(words)], Len(line))
  BY <1>2, <1>3, <1>4, FoundStays DEF Lineable, v
<1>6. /\ line' \in Seq(Typable) /\ Len(line') = Len(line) + 1
      /\ Len(v) = Len(line) + 2 /\ v[Len(line) + 1] = "sp" /\ v[Len(line) + 2] = "nl"
      /\ \A i \in 1 .. Len(line) : v[i] = Message(line)[i]
  <2>1. /\ line \o x \in Seq(Typable) /\ Len(line \o x) = Len(line) + Len(x)
        /\ Len(v) = Len(line) + Len(x) + 1 /\ v[Len(line) + Len(x) + 1] = "nl"
        /\ \A i \in 1 .. Len(line) : v[i] = Message(line)[i]
        /\ \A i \in 1 .. Len(x) : v[Len(line) + i] = x[i]
    BY <1>2, <1>4, LongerLine DEF v
  <2>2. 1 \in 1 .. Len(x)
    BY <1>2
  <2> QED BY <1>1, <1>2, <1>4, <2>1, <2>2
<1>7. /\ Len(words) \in 0 .. Len(words)
      /\ \A i \in 0 .. Len(words) : e[i] <= Len(line) /\ e[i] \in Nat
      /\ \A i \in 1 .. Len(words) : /\ b[i] \in Nat /\ b[i] < e[i]
                                    /\ e[i] \in Nat /\ e[i] <= Len(line)
  <2>1. /\ \A i \in 0 .. Len(words) : e[i] <= Len(line) /\ e[i] \in Nat
        /\ \A i \in 1 .. Len(words) : b[i] \in Nat /\ b[i] < e[i]
    BY <1>3, <1>5 DEF Lineable, Found, Word
  <2>2. \A i \in 1 .. Len(words) : i \in 0 .. Len(words)
    BY <1>4
  <2> QED BY <1>4, <2>1, <2>2
<1>8. Gap(v, e[Len(words)], Len(v)) /\ e[Len(words)] <= Len(v)
  <2>1. PICK m : m = e[Len(words)]
    OBVIOUS
  <2>2. PICK n : n = Len(line)
    OBVIOUS
  <2>3. m \in Nat /\ n \in Nat /\ m <= n
    BY <1>4, <1>7, <2>1, <2>2
  <2>4. /\ Len(v) = n + 2 /\ v[n + 1] \in Blanks /\ v[n + 2] \in Blanks
    BY <1>2, <1>6, <2>2
  <2>5. \A j \in m + 1 .. n : v[j] \in Blanks
    BY <1>5, <2>1, <2>2, Zenon DEF Gap
  <2>6. \A j \in m + 1 .. n + 2 : j \in m + 1 .. n \/ j = n + 1 \/ j = n + 2
    BY <2>3
  <2>7. \A j \in m + 1 .. n + 2 : v[j] \in Blanks
    BY <2>4, <2>5, <2>6, Zenon
  <2>8. Gap(v, m, n + 2)
    BY <2>7, Zenon DEF Gap
  <2>9. m <= n + 2
    BY <2>3
  <2> QED BY <2>1, <2>4, <2>8, <2>9, Zenon
<1>9. Spans(v, words, b, t, e)
  BY <1>5, <1>8 DEF Spans
<1>10. Lined(b, t, e)'
  <2>1. /\ Message(line') = v /\ words' = words
    BY <1>1 DEF v
  <2>2. \A i \in 0 .. Len(words) : e[i] < Len(line')
    BY <1>4, <1>6, <1>7
  <2>3. \A i \in 1 .. Len(words) : e[i] < Len(line')
    BY <1>4, <1>6, <1>7
  <2>4. \A i \in 0 .. Len(words) : e[i] <= Len(line')
    BY <1>4, <1>6, <1>7
  <2> QED BY <1>9, <2>1, <2>3, <2>4 DEF Lined
<1> QED BY <1>1, <1>4, <1>6, <1>10 DEF TypingOK

\* A line with one word more has its spans too.
LEMMA LineGrows ==
  ASSUME TypingOK, NEW b, NEW t, NEW e, Lined(b, t, e), last \notin {"word", "open"},
         NEW x \in Seq(Typable), x # <<>>, NEW what \in {"word", "string", "open"},
         Type(x, what), NEW w \in Seq(Typable), words' = Append(words, w),
         NEW q \in Nat, NEW r \in Nat, Word(Message(line \o x), Len(line), q, r, w),
         Gap(Message(line \o x), r, Len(line) + Len(x) + 1),
         what # "open" => r <= Len(line) + Len(x),
         what = "string" => x[1] \in Quotes
  PROVE  TypingOK' /\ \E b2, t2, e2 : Lined(b2, t2, e2)'
<1> DEFINE n == Len(words)
           v == Message(line \o x)
<1>1. /\ line' = line \o x /\ last' = what
      /\ room' = room - Len(x) /\ Len(x) <= room
  BY DEF Type
<1>2. /\ line \in Seq(Typable) /\ words \in Seq(Seq(Typable)) /\ n \in Nat
      /\ Len(line) \in Nat /\ Len(x) \in Nat \ {0} /\ room \in 0 .. MaxChars /\ MaxChars \in Nat
  BY ExchangeAssumption DEF TypingOK
<1>3. Lineable(line, words, b, t, e, x)
  BY CanType
<1>4. PICK b2, t2, e2 : /\ Found(v, words', b2, t2, e2) /\ Len(words') = n + 1
                        /\ b2[n + 1] = Len(line) /\ e2[n + 1] = r
                        /\ \A i \in 1 .. n : b2[i] = b[i]
                        /\ \A i \in 0 .. n : e2[i] = e[i]
  <2> DEFINE b2 == And(b, 1, n + 1, Len(line))
             t2 == And(t, 1, n + 1, q)
             e2 == And(e, 0, n + 1, r)
  <2>1. Found(v, words', b2, t2, e2) /\ Len(words') = n + 1
    BY <1>2, <1>3, WordTyped
  <2>2. /\ b2[n + 1] = Len(line) /\ e2[n + 1] = r
        /\ \A i \in 1 .. n : b2[i] = b[i]
        /\ \A i \in 0 .. n : e2[i] = e[i]
    BY <1>2 DEF And
  <2> HIDE DEF b2, t2, e2
  <2> QED BY <2>1, <2>2
<1>5. /\ line' \in Seq(Typable) /\ Len(line') = Len(line) + Len(x)
      /\ Len(v) = Len(line) + Len(x) + 1
      /\ \A i \in 1 .. Len(line) : v[i] = Message(line)[i]
      /\ v[Len(line) + 1] = x[1]
  <2>1. /\ line \o x \in Seq(Typable) /\ Len(line \o x) = Len(line) + Len(x)
        /\ Len(v) = Len(line) + Len(x) + 1
        /\ \A i \in 1 .. Len(line) : v[i] = Message(line)[i]
        /\ \A i \in 1 .. Len(x) : v[Len(line) + i] = x[i]
    <3>1. line \in Seq(Typable)
      BY <1>2
    <3> QED BY <3>1, LongerLine
  <2>2. 1 \in 1 .. Len(x)
    BY <1>2
  <2> QED BY <1>1, <2>1, <2>2
<1>6. /\ \A i \in 0 .. n : e[i] <= Len(line) /\ e[i] \in Nat
      /\ \A i \in 1 .. n : b[i] \in Nat /\ b[i] < e[i] /\ i \in 0 .. n
  <2>1. /\ \A i \in 0 .. n : e[i] <= Len(line)
        /\ e \in [0 .. n -> Nat] /\ b \in [1 .. n -> Nat]
        /\ \A i \in 1 .. n : Word(Message(line), b[i], t[i], e[i], words[i])
    BY <1>3 DEF Lineable, Spans, Found
  <2> HIDE DEF n
  <2>2. \A i \in 1 .. n : b[i] < e[i]
    BY <2>1 DEF Word
  <2> QED BY <1>2, <2>1, <2>2
<1> HIDE DEF n, v
<1>7. v = Message(line') /\ r \in Nat /\ r <= Len(v)
  <2>1. r <= Len(v)
    BY DEF Word, v
  <2> QED BY <1>1, <2>1 DEF v
<1>8. Spans(Message(line'), words', b2, t2, e2)
  BY <1>4, <1>5, <1>7 DEF Spans, v
<1>9. what # "open" => \A i \in 0 .. n + 1 : e2[i] <= Len(line')
  <2>1. \A i \in 0 .. n + 1 : i = n + 1 \/ i \in 0 .. n
    BY <1>2
  <2>2. \A i \in 0 .. n : e2[i] <= Len(line')
    <3> SUFFICES ASSUME NEW i \in 0 .. n PROVE e2[i] <= Len(line')
      OBVIOUS
    <3>1. Len(line) <= Len(line') /\ Len(line') \in Nat /\ Len(line) \in Nat
      BY <1>2, <1>5
    <3>2. e2[i] = e[i] /\ e[i] <= Len(line) /\ e[i] \in Nat
      BY <1>4, <1>6
    <3> QED BY <3>1, <3>2
  <2>3. what # "open" => e2[n + 1] <= Len(line')
    BY <1>4, <1>5
  <2> QED BY <2>1, <2>2, <2>3
<1>10. what = "string" =>
         \A i \in 1 .. n + 1 : Message(line')[b2[i] + 1] \notin Quotes => e2[i] < Len(line')
  <2>1. \A i \in 1 .. n + 1 : i = n + 1 \/ i \in 1 .. n
    BY <1>2
  <2>2. \A i \in 1 .. n : e2[i] < Len(line')
    <3> SUFFICES ASSUME NEW i \in 1 .. n PROVE e2[i] < Len(line')
      OBVIOUS
    <3>1. Len(line) < Len(line') /\ Len(line') \in Nat /\ Len(line) \in Nat
      BY <1>2, <1>5
    <3>2. e2[i] = e[i] /\ e[i] <= Len(line) /\ e[i] \in Nat
      BY <1>4, <1>6
    <3> QED BY <3>1, <3>2
  <2>3. what = "string" => Message(line')[b2[n + 1] + 1] \in Quotes
    BY <1>4, <1>5, <1>7
  <2> QED BY <2>1, <2>2, <2>3
<1>11. Lined(b2, t2, e2)'
  <2>1. Len(words') = n + 1 /\ last' = what /\ what # "gap"
    BY <1>1, <1>4
  <2>2. \A i \in 0 .. Len(words') : last' # "open" => e2[i] <= Len(line')
    BY <1>9, <2>1
  <2>3. \A i \in 1 .. Len(words') :
          last' \in {"gap", "string"} =>
            (Message(line')[b2[i] + 1] \notin Quotes => e2[i] < Len(line'))
    BY <1>10, <2>1
  <2>4. /\ (last # "open")' => (\A i \in 0 .. Len(words) : e2[i] <= Len(line))'
        /\ (last \in {"gap", "string"})' =>
             (\A i \in 1 .. Len(words) :
                Message(line)[b2[i] + 1] \notin Quotes => e2[i] < Len(line))'
    BY <2>2, <2>3
  <2> QED BY <1>8, <2>4 DEF Lined
<1>12. words' \in Seq(Seq(Typable))
  BY <1>2
<1>13. room' \in 0 .. MaxChars
  BY <1>1, <1>2
<1> QED BY <1>1, <1>5, <1>11, <1>12, <1>13 DEF TypingOK

\* A word that begins with a letter.
LEMMA TypedWord ==
  ASSUME TypingOK, NEW b, NEW t, NEW e, Lined(b, t, e), TypeWord
  PROVE  TypingOK' /\ \E b2, t2, e2 : Lined(b2, t2, e2)'
<1>1. PICK c \in Letters, w \in Rest :
        /\ last # "word" /\ Type(<<c>> \o w, "word") /\ words' = Append(words, <<c>> \o w)
  BY DEF TypeWord
<1> DEFINE x == <<c>> \o w
           l == Len(line)
           v == Message(line \o x)
<1>2. /\ line \in Seq(Typable) /\ l \in Nat /\ room - 1 \in Int
      /\ last \notin {"word", "open"}
  BY <1>1, ExchangeAssumption DEF TypingOK, Type
<1>3. /\ w \in Seq(Letters \cup Quotes) /\ w \in Seq(Typable) /\ c \in Typable /\ c \notin Quotes
      /\ \A i \in 1 .. Len(w) : w[i] \in Letters \cup Quotes
  <2>1. w \in Seq(Letters \cup Quotes)
    BY <1>2, ShortTexts DEF Rest
  <2> QED BY <2>1, TypableFacts DEF Typable
<1>4. /\ x \in Seq(Typable) /\ x # <<>> /\ Len(x) = Len(w) + 1 /\ x[1] = c /\ Len(w) \in Nat
      /\ \A i \in 1 .. Len(x) : x[i] \notin Blanks
  <2>1. /\ x \in Seq(Typable) /\ Len(x) = Len(w) + 1 /\ Len(w) \in Nat
        /\ x[1] = c /\ \A i \in 2 .. Len(w) + 1 : x[i] = w[i - 1]
    BY <1>3
  <2>2. \A i \in 2 .. Len(w) + 1 : i - 1 \in 1 .. Len(w)
    BY <2>1
  <2>3. \A i \in 1 .. Len(w) + 1 : i = 1 \/ i \in 2 .. Len(w) + 1
    BY <2>1
  <2>4. c \notin Blanks /\ \A i \in 1 .. Len(w) : w[i] \notin Blanks
    BY <1>3, TypableFacts
  <2> HIDE DEF x
  <2>5. \A i \in 1 .. Len(x) : x[i] \notin Blanks
    BY <2>1, <2>2, <2>3, <2>4
  <2>6. x # <<>>
    BY <2>1
  <2> QED BY <2>1, <2>5, <2>6
<1> HIDE DEF x
<1>5. /\ v \in Seq(Typable) /\ Len(v) = l + Len(x) + 1 /\ v[l + Len(x) + 1] = "nl"
      /\ \A i \in 1 .. Len(x) : v[l + i] = x[i]
  BY <1>2, <1>4, LongerLine
<1> HIDE DEF v
<1>6. \A j \in l + 1 .. l + Len(x) : v[j] \notin Blanks
  <2>1. \A j \in l + 1 .. l + Len(x) : j - l \in 1 .. Len(x) /\ j = l + (j - l)
    BY <1>2, <1>4
  <2> QED BY <1>4, <1>5, <2>1
<1>7. v[l + 1] = c
  <2>1. 1 \in 1 .. Len(x)
    BY <1>4
  <2> QED BY <1>4, <1>5, <2>1
<1>8. x = SubSeq(v, l + 1, l + Len(x))
  <2>1. \A i \in l + 1 .. l + Len(x) : v[i] \in Typable
    BY <1>2, <1>4, <1>5
  <2>2. /\ SubSeq(v, l + 1, l + Len(x)) \in Seq(Typable)
        /\ Len(SubSeq(v, l + 1, l + Len(x))) =
             IF l + 1 <= l + Len(x) THEN l + Len(x) - (l + 1) + 1 ELSE 0
        /\ \A i \in 1 .. l + Len(x) - (l + 1) + 1 :
             SubSeq(v, l + 1, l + Len(x))[i] = v[l + 1 + i - 1]
    BY <1>2, <1>4, <2>1, SubSeqProperties
  <2>3. \A i \in 1 .. Len(x) : l + 1 + i - 1 = l + i /\ i \in 1 .. l + Len(x) - (l + 1) + 1
    BY <1>2, <1>4
  <2>4. \A i \in 1 .. Len(x) : x[i] = SubSeq(v, l + 1, l + Len(x))[i]
    BY <1>5, <2>2, <2>3
  <2>5. Len(x) = Len(SubSeq(v, l + 1, l + Len(x)))
    BY <1>2, <1>4, <2>2
  <2> QED BY <1>4, <2>2, <2>4, <2>5, SeqEqual
<1>9. Word(v, l, l + Len(x), l + Len(x), x)
  <2>1. Content(v, l) = l
    BY <1>3, <1>7 DEF Content
  <2>2. v[l + 1] \notin Blanks /\ v[l + 1] \notin Quotes
    BY <1>3, <1>7, TypableFacts
  <2>3. l < l + Len(x) /\ l + Len(x) <= Len(v)
    BY <1>2, <1>4, <1>5
  <2>4. v[l + Len(x) + 1] \in Blanks
    BY <1>5, TypableFacts
  <2> QED BY <1>2, <1>4, <1>6, <1>8, <2>1, <2>2, <2>3, <2>4 DEF Word
<1>10. Gap(v, l + Len(x), l + Len(x) + 1)
  BY <1>2, <1>4, <1>5, TypableFacts DEF Gap
<1>11. Type(x, "word") /\ words' = Append(words, x)
  BY <1>1 DEF x
<1>12. l + Len(x) \in Nat /\ l + Len(x) <= l + Len(x)
  BY <1>2, <1>4
<1> QED BY <1>2, <1>4, <1>9, <1>10, <1>11, <1>12, LineGrows DEF v

\* A quote, what follows it, and what follows that,
Enclosed(q, w, y) == <<q>> \o w \o y

\* sent in a message,
Sent(l, q, w, y) == Message(l \o Enclosed(q, w, y))

\* with their places in it.
Placed(l, q, w, y) ==
  LET x == Enclosed(q, w, y)
      v == Sent(l, q, w, y)
  IN  /\ x \in Seq(Typable) /\ x # <<>> /\ x[1] = q /\ w \in Seq(Typable)
      /\ Len(x) = Len(w) + 1 + Len(y) /\ Len(w) \in Nat /\ Len(y) \in Nat
      /\ v \in Seq(Typable) /\ Len(v) = Len(l) + Len(w) + Len(y) + 2
      /\ v[Len(l) + 1] = q
      /\ \A i \in 1 .. Len(w) : v[Len(l) + 1 + i] = w[i] /\ w[i] \notin Quotes
      /\ \A i \in 1 .. Len(y) : v[Len(l) + 1 + Len(w) + i] = y[i]
      /\ v[Len(l) + Len(w) + Len(y) + 2] = "nl"

\* They are there.
LEMMA QuotedText ==
  ASSUME NEW l \in Seq(Typable), NEW q \in Quotes, NEW w \in Seq(Letters \cup {"sp"}),
         NEW y \in Seq(Typable)
  PROVE  Placed(l, q, w, y)
<1> DEFINE x == Enclosed(q, w, y)
           v == Sent(l, q, w, y)
<1>1. /\ w \in Seq(Typable) /\ Len(w) \in Nat /\ Len(y) \in Nat /\ q \in Typable /\ Len(l) \in Nat
      /\ \A i \in 1 .. Len(w) : w[i] \notin Quotes
  <2>1. \A c \in Letters \cup {"sp"} : c \in Typable /\ c \notin Quotes
    BY TypableFacts DEF Typable
  <2>2. \A i \in 1 .. Len(w) : w[i] \in Letters \cup {"sp"}
    OBVIOUS
  <2>3. w \in Seq(Typable)
    BY <2>1
  <2> QED BY <2>1, <2>2, <2>3 DEF Typable
<1>2. /\ x \in Seq(Typable) /\ Len(x) = Len(w) + 1 + Len(y) /\ x[1] = q
      /\ \A i \in 1 .. Len(w) : x[1 + i] = w[i]
      /\ \A i \in 1 .. Len(y) : x[1 + Len(w) + i] = y[i]
  <2> DEFINE z == <<q>> \o w
  <2>1. /\ z \in Seq(Typable) /\ Len(z) = Len(w) + 1 /\ z[1] = q
        /\ \A i \in 1 .. Len(w) : z[1 + i] = w[i]
    BY <1>1
  <2> HIDE DEF z
  <2>2. /\ z \o y \in Seq(Typable) /\ Len(z \o y) = Len(z) + Len(y)
        /\ \A i \in 1 .. Len(z) : (z \o y)[i] = z[i]
        /\ \A i \in 1 .. Len(y) : (z \o y)[Len(z) + i] = y[i]
    <3>1. /\ z \o y \in Seq(Typable) /\ Len(z \o y) = Len(z) + Len(y)
          /\ \A i \in 1 .. Len(z) + Len(y) :
               (z \o y)[i] = IF i <= Len(z) THEN z[i] ELSE y[i - Len(z)]
      BY <2>1, ConcatProperties
    <3>2. Len(z) \in Nat /\ Len(y) \in Nat
      BY <1>1, <2>1
    <3>3. ASSUME NEW i \in 1 .. Len(z) PROVE (z \o y)[i] = z[i]
      BY <3>1, <3>2
    <3>4. ASSUME NEW i \in 1 .. Len(y) PROVE (z \o y)[Len(z) + i] = y[i]
      <4>1. /\ Len(z) + i \in 1 .. Len(z) + Len(y) /\ ~(Len(z) + i <= Len(z))
            /\ Len(z) + i - Len(z) = i
        BY <3>2
      <4> QED BY <3>1, <4>1
    <3> QED BY <3>1, <3>3, <3>4
  <2>3. 1 \in 1 .. Len(z) /\ \A i \in 1 .. Len(w) : 1 + i \in 1 .. Len(z)
    BY <1>1, <2>1
  <2>4. Len(w) + 1 = 1 + Len(w)
    BY <1>1
  <2>5. x = z \o y
    BY DEF z, Enclosed
  <2> HIDE DEF x
  <2> QED BY <2>1, <2>2, <2>3, <2>4, <2>5
<1> HIDE DEF x
<1>3. /\ v \in Seq(Typable) /\ Len(v) = Len(l) + Len(x) + 1
      /\ v[Len(l) + Len(x) + 1] = "nl"
      /\ \A i \in 1 .. Len(x) : v[Len(l) + i] = x[i]
  <2>1. v = Message(l \o x)
    BY DEF Sent, x
  <2>2. /\ Message(l \o x) \in Seq(Typable) /\ Len(Message(l \o x)) = Len(l) + Len(x) + 1
        /\ Message(l \o x)[Len(l) + Len(x) + 1] = "nl"
        /\ \A i \in 1 .. Len(x) : Message(l \o x)[Len(l) + i] = x[i]
    BY <1>2, LongerLine
  <2> QED BY <2>1, <2>2
<1> HIDE DEF v
<1>4. v[Len(l) + 1] = q
  <2>1. 1 \in 1 .. Len(x)
    BY <1>1, <1>2
  <2> QED BY <1>2, <1>3, <2>1
<1>5. ASSUME NEW i \in 1 .. Len(w)
      PROVE  v[Len(l) + 1 + i] = w[i] /\ w[i] \notin Quotes
  <2>1. 1 + i \in 1 .. Len(x) /\ Len(l) + (1 + i) = Len(l) + 1 + i
    BY <1>1, <1>2
  <2> QED BY <1>1, <1>2, <1>3, <2>1
<1>6. ASSUME NEW i \in 1 .. Len(y)
      PROVE  v[Len(l) + 1 + Len(w) + i] = y[i]
  <2>1. 1 + Len(w) + i \in 1 .. Len(x) /\ Len(l) + (1 + Len(w) + i) = Len(l) + 1 + Len(w) + i
    BY <1>1, <1>2
  <2> QED BY <1>2, <1>3, <2>1
<1>7. Len(l) + Len(x) + 1 = Len(l) + Len(w) + Len(y) + 2 /\ x # <<>>
  BY <1>1, <1>2
<1> QED BY <1>1, <1>2, <1>3, <1>4, <1>5, <1>6, <1>7 DEF Placed, x, v

\* A string with its closing quote.
LEMMA TypedString ==
  ASSUME TypingOK, NEW b, NEW t, NEW e, Lined(b, t, e), TypeString
  PROVE  TypingOK' /\ \E b2, t2, e2 : Lined(b2, t2, e2)'
<1>1. PICK q \in Quotes, r \in Quotes, w \in Quoted(room - 2) :
        /\ last # "word" /\ Type(<<q>> \o w \o <<r>>, "string") /\ words' = Append(words, w)
  BY DEF TypeString
<1> DEFINE l == Len(line)
<1>2. /\ line \in Seq(Typable) /\ l \in Nat /\ room - 2 \in Int
      /\ last \notin {"word", "open"}
  BY <1>1, ExchangeAssumption DEF TypingOK, Type
<1>3. w \in Seq(Letters \cup {"sp"})
  BY <1>2, ShortTexts DEF Quoted
<1>4. PICK y \in Seq(Typable) : y = <<r>> /\ Len(y) = 1 /\ y[1] = r
  <2>1. <<r>> \in Seq(Typable) /\ Len(<<r>>) = 1 /\ <<r>>[1] = r
    BY DEF Typable
  <2> QED BY <2>1
<1> DEFINE x == Enclosed(q, w, y)
           v == Sent(line, q, w, y)
<1>5. /\ x \in Seq(Typable) /\ x # <<>> /\ x[1] = q /\ w \in Seq(Typable)
      /\ Len(x) = Len(w) + 1 + Len(y) /\ Len(w) \in Nat /\ Len(y) \in Nat
      /\ v \in Seq(Typable) /\ Len(v) = l + Len(w) + Len(y) + 2
      /\ v[l + 1] = q
      /\ \A i \in 1 .. Len(w) : v[l + 1 + i] = w[i] /\ w[i] \notin Quotes
      /\ \A i \in 1 .. Len(y) : v[l + 1 + Len(w) + i] = y[i]
      /\ v[l + Len(w) + Len(y) + 2] = "nl"
  <2>1. Placed(line, q, w, y)
    BY <1>2, <1>3, QuotedText
  <2> QED BY <2>1 DEF Placed
<1>6. Type(x, "string")
  BY <1>1, <1>4 DEF Enclosed
<1> HIDE DEF x, v
<1>7. /\ Len(x) = Len(w) + 2 /\ Len(v) = l + Len(w) + 3
      /\ v[l + Len(w) + 2] = r /\ v[l + Len(w) + 3] = "nl"
  <2>1. 1 \in 1 .. Len(y)
    BY <1>4
  <2>2. l + 1 + Len(w) + 1 = l + Len(w) + 2 /\ l + Len(w) + 1 + 2 = l + Len(w) + 3
    BY <1>2, <1>5
  <2> QED BY <1>2, <1>4, <1>5, <2>1, <2>2
<1>8. w = SubSeq(v, l + 2, l + 1 + Len(w))
  <2>1. \A i \in l + 2 .. l + 1 + Len(w) : v[i] \in Typable
    BY <1>2, <1>5, <1>7
  <2>2. /\ SubSeq(v, l + 2, l + 1 + Len(w)) \in Seq(Typable)
        /\ Len(SubSeq(v, l + 2, l + 1 + Len(w))) =
             IF l + 2 <= l + 1 + Len(w) THEN l + 1 + Len(w) - (l + 2) + 1 ELSE 0
        /\ \A i \in 1 .. l + 1 + Len(w) - (l + 2) + 1 :
             SubSeq(v, l + 2, l + 1 + Len(w))[i] = v[l + 2 + i - 1]
    BY <1>2, <1>5, <2>1, SubSeqProperties
  <2>3. \A i \in 1 .. Len(w) : l + 2 + i - 1 = l + 1 + i /\ i \in 1 .. l + 1 + Len(w) - (l + 2) + 1
    BY <1>2, <1>5
  <2>4. \A i \in 1 .. Len(w) : w[i] = SubSeq(v, l + 2, l + 1 + Len(w))[i]
    BY <1>5, <2>2, <2>3
  <2>5. Len(w) = Len(SubSeq(v, l + 2, l + 1 + Len(w)))
    BY <1>2, <1>5, <2>2
  <2> QED BY <1>5, <2>2, <2>4, <2>5, SeqEqual
<1>9. \A j \in l + 2 .. l + 1 + Len(w) : v[j] \notin Quotes
  <2> TAKE j \in l + 2 .. l + 1 + Len(w)
  <2>1. PICK i \in 1 .. Len(w) : j = l + 1 + i
    <3>1. j - (l + 1) \in 1 .. Len(w) /\ j = l + 1 + (j - (l + 1))
      BY <1>2, <1>5
    <3> QED BY <3>1
  <2>2. v[l + 1 + i] = w[i] /\ w[i] \notin Quotes
    BY <1>5, Zenon
  <2> QED BY <2>1, <2>2, Zenon
<1>10. Word(v, l, l + 1 + Len(w), l + Len(w) + 2, w)
  <2>1. Content(v, l) = l + 1 /\ v[l + 1] \in Quotes /\ l + 1 + 1 = l + 2
    BY <1>2, <1>5 DEF Content
  <2>2. v[l + 1] \notin Blanks
    BY <1>5, TypableFacts
  <2>3. /\ l < l + Len(w) + 2 /\ l + Len(w) + 2 <= Len(v)
        /\ l + 1 + Len(w) <= l + Len(w) + 2 /\ l + 1 <= l + 1 + Len(w)
        /\ l + Len(w) + 2 = l + 1 + Len(w) + 1
    BY <1>2, <1>5, <1>7
  <2>4. v[l + Len(w) + 2] \in Quotes
    BY <1>7
  <2> QED BY <1>8, <1>9, <2>1, <2>2, <2>3, <2>4 DEF Word
<1>11. Gap(v, l + Len(w) + 2, l + Len(x) + 1)
  <2>1. l + Len(w) + 2 + 1 = l + Len(w) + 3 /\ l + Len(x) + 1 = l + Len(w) + 3
    BY <1>2, <1>5, <1>7
  <2>2. l + Len(w) + 3 \in Nat
    BY <1>2, <1>5
  <2>3. \A j \in l + Len(w) + 3 .. l + Len(w) + 3 : j = l + Len(w) + 3
    BY <2>2
  <2> QED BY <1>7, <2>1, <2>3, TypableFacts DEF Gap
<1>12. /\ l + Len(w) + 2 \in Nat /\ l + 1 + Len(w) \in Nat
       /\ l + Len(w) + 2 <= l + Len(x)
  BY <1>2, <1>5, <1>7
<1> QED BY <1>1, <1>2, <1>5, <1>6, <1>10, <1>11, <1>12, LineGrows DEF v, x, Sent

\* A string that only the end of the message ends.
LEMMA TypedOpenString ==
  ASSUME TypingOK, NEW b, NEW t, NEW e, Lined(b, t, e), TypeOpenString
  PROVE  TypingOK' /\ \E b2, t2, e2 : Lined(b2, t2, e2)'
<1>1. PICK q \in Quotes, w \in Quoted(room - 1) :
        /\ last # "word" /\ Type(<<q>> \o w, "open") /\ words' = Append(words, w \o <<"nl">>)
  BY DEF TypeOpenString
<1> DEFINE l == Len(line)
           u == w \o <<"nl">>
<1>2. /\ line \in Seq(Typable) /\ l \in Nat /\ room - 1 \in Int
      /\ last \notin {"word", "open"}
  BY <1>1, ExchangeAssumption DEF TypingOK, Type
<1>3. w \in Seq(Letters \cup {"sp"})
  BY <1>2, ShortTexts DEF Quoted
<1>4. PICK y \in Seq(Typable) : y = <<>> /\ Len(y) = 0
  <2>1. <<>> \in Seq(Typable) /\ Len(<<>>) = 0
    OBVIOUS
  <2> QED BY <2>1
<1> DEFINE x == Enclosed(q, w, y)
           v == Sent(line, q, w, y)
<1>5. /\ x \in Seq(Typable) /\ x # <<>> /\ x[1] = q /\ w \in Seq(Typable)
      /\ Len(x) = Len(w) + 1 + Len(y) /\ Len(w) \in Nat /\ Len(y) \in Nat
      /\ v \in Seq(Typable) /\ Len(v) = l + Len(w) + Len(y) + 2
      /\ v[l + 1] = q
      /\ \A i \in 1 .. Len(w) : v[l + 1 + i] = w[i] /\ w[i] \notin Quotes
      /\ v[l + Len(w) + Len(y) + 2] = "nl"
  <2>1. Placed(line, q, w, y)
    BY <1>2, <1>3, QuotedText
  <2> QED BY <2>1 DEF Placed
<1>6. Type(x, "open")
  <2>1. <<q>> \o w \in Seq(Typable)
    BY <1>5 DEF Typable
  <2>2. x = <<q>> \o w
    BY <1>4, <2>1 DEF Enclosed
  <2> QED BY <1>1, <2>2
<1> HIDE DEF x, v
<1>7. /\ Len(x) = Len(w) + 1 /\ Len(v) = l + Len(w) + 2
      /\ v[l + Len(w) + 2] = "nl"
  BY <1>2, <1>4, <1>5
<1>8. /\ u \in Seq(Typable) /\ Len(u) = Len(w) + 1 /\ u[Len(w) + 1] = "nl"
      /\ \A i \in 1 .. Len(w) : u[i] = w[i]
  <2>1. "nl" \in Typable
    BY TypableFacts DEF Typable
  <2> QED BY <1>5, <2>1
<1> HIDE DEF u
<1>9. \A i \in 1 .. Len(u) : v[l + 1 + i] = u[i] /\ u[i] \notin Quotes
  <2>1. \A i \in 1 .. Len(u) : i = Len(w) + 1 \/ i \in 1 .. Len(w)
    BY <1>5, <1>8
  <2>2. l + 1 + (Len(w) + 1) = l + Len(w) + 2 /\ "nl" \notin Quotes
    BY <1>2, <1>5, TypableFacts
  <2> QED BY <1>5, <1>7, <1>8, <2>1, <2>2
<1>10. u = SubSeq(v, l + 2, Len(v))
  <2>1. \A i \in l + 2 .. Len(v) : v[i] \in Typable
    BY <1>2, <1>5, <1>7
  <2>2. /\ SubSeq(v, l + 2, Len(v)) \in Seq(Typable)
        /\ Len(SubSeq(v, l + 2, Len(v))) =
             IF l + 2 <= Len(v) THEN Len(v) - (l + 2) + 1 ELSE 0
        /\ \A i \in 1 .. Len(v) - (l + 2) + 1 : SubSeq(v, l + 2, Len(v))[i] = v[l + 2 + i - 1]
    <3>1. l + 2 \in Int /\ Len(v) \in Int
      BY <1>2, <1>5, <1>7
    <3> QED BY <2>1, <3>1, SubSeqProperties
  <2>3. \A i \in 1 .. Len(u) : l + 2 + i - 1 = l + 1 + i /\ i \in 1 .. Len(v) - (l + 2) + 1
    BY <1>2, <1>5, <1>7, <1>8
  <2>4. \A i \in 1 .. Len(u) : u[i] = SubSeq(v, l + 2, Len(v))[i]
    BY <1>9, <2>2, <2>3
  <2>5. Len(u) = Len(SubSeq(v, l + 2, Len(v)))
    BY <1>2, <1>5, <1>7, <1>8, <2>2
  <2> QED BY <1>8, <2>2, <2>4, <2>5, SeqEqual
<1>11. \A j \in l + 2 .. Len(v) : v[j] \notin Quotes
  <2>1. \A j \in l + 2 .. Len(v) :
          j - (l + 1) \in 1 .. Len(u) /\ j = l + 1 + (j - (l + 1))
    BY <1>2, <1>5, <1>7, <1>8
  <2> QED BY <1>9, <2>1
<1>12. Word(v, l, Len(v), Len(v), u)
  <2>1. Content(v, l) = l + 1 /\ v[l + 1] \in Quotes /\ l + 1 + 1 = l + 2
    BY <1>2, <1>5 DEF Content
  <2>2. v[l + 1] \notin Blanks
    BY <1>5, TypableFacts
  <2>3. l < Len(v) /\ Len(v) <= Len(v) /\ l + 1 <= Len(v)
    BY <1>2, <1>5, <1>7
  <2> QED BY <1>10, <1>11, <2>1, <2>2, <2>3 DEF Word
<1>13. Gap(v, Len(v), l + Len(x) + 1)
  BY <1>2, <1>5, <1>7 DEF Gap
<1>14. Len(v) \in Nat /\ words' = Append(words, u)
  BY <1>1, <1>2, <1>5, <1>7 DEF u
<1> QED BY <1>2, <1>5, <1>6, <1>8, <1>12, <1>13, <1>14, LineGrows DEF v, x, Sent

\* A line of blanks has no words.
LEMMA BlankLine ==
  ASSUME NEW l, NEW lead \in Leads, l = [i \in 1 .. lead |-> "sp"]
  PROVE  /\ l \in Seq(Typable) /\ \E b, t, e : Spans(Message(l), <<>>, b, t, e) /\ e[0] = 0
<1> DEFINE b0 == [i \in 1 .. 0 |-> 0]
           e0 == [i \in 0 .. 0 |-> 0]
           v == Message(l)
<1>1. lead \in Nat /\ "sp" \in Typable
  BY ExchangeAssumption, TypableFacts DEF Typable
<1>2. l \in Seq(Typable) /\ Len(l) = lead /\ \A i \in 1 .. lead : l[i] = "sp"
  <2>1. l \in [1 .. lead -> Typable]
    BY <1>1
  <2> QED BY <1>1, <2>1
<1>3. /\ Len(v) = lead + 1 /\ v[lead + 1] = "nl" /\ \A i \in 1 .. lead : v[i] = "sp"
  BY <1>1, <1>2 DEF Message
<1> HIDE DEF v
<1>4. \A j \in 1 .. Len(v) : v[j] \in Blanks
  <2>1. \A j \in 1 .. Len(v) : j \in 1 .. lead \/ j = lead + 1
    BY <1>1, <1>3
  <2> QED BY <1>3, <2>1, TypableFacts
<1>5. /\ b0 \in [1 .. 0 -> Nat] /\ e0 \in [0 .. 0 -> Nat] /\ e0[0] = 0
  OBVIOUS
<1> HIDE DEF b0, e0
<1>6. Len(<<>>) = 0 /\ \A i \in 1 .. 0 : FALSE
  OBVIOUS
<1>7. Found(v, <<>>, b0, b0, e0)
  BY <1>5, <1>6 DEF Found
<1>8. Spans(v, <<>>, b0, b0, e0)
  <2>1. e0[Len(<<>>)] = 0 /\ 0 <= Len(v) /\ \A j \in 0 + 1 .. Len(v) : v[j] \in Blanks
    BY <1>1, <1>3, <1>4, <1>5, <1>6
  <2> QED BY <1>7, <2>1 DEF Spans, Gap
<1> QED BY <1>2, <1>5, <1>8 DEF v

\* A prompt begins with such a line.
LEMMA FreshLine ==
  ASSUME NEW lead \in Leads, Fresh(lead)
  PROVE  TypingOK' /\ \E b2, t2, e2 : Lined(b2, t2, e2)'
<1>1. line' = [i \in 1 .. lead |-> "sp"] /\ words' = <<>> /\ last' = "gap" /\ room' = MaxChars
  BY DEF Fresh
<1>2. PICK b2, t2, e2 : Spans(Message(line'), <<>>, b2, t2, e2) /\ e2[0] = 0
  BY <1>1, BlankLine
<1>3. line' \in Seq(Typable)
  BY <1>1, BlankLine
<1>4. Lined(b2, t2, e2)'
  <2>1. Len(words') = 0 /\ (\A i \in 1 .. 0 : FALSE) /\ (\A i \in 0 .. 0 : i = 0)
    BY <1>1
  <2>2. 0 <= Len(line')
    BY <1>3
  <2>3. Spans(Message(line'), words', b2, t2, e2)
    BY <1>1, <1>2
  <2>4. \A i \in 0 .. Len(words') : e2[i] <= Len(line')
    BY <1>2, <2>1, <2>2
  <2>5. \A i \in 1 .. Len(words') : Message(line')[b2[i] + 1] \notin Quotes => e2[i] < Len(line')
    BY <2>1
  <2> QED BY <2>3, <2>4, <2>5 DEF Lined
<1> QED BY <1>1, <1>3, <1>4, ExchangeAssumption DEF TypingOK

\* The first prompt does, too.
LEMMA FirstLine ==
  ASSUME Init
  PROVE  TypingOK /\ \E b, t, e : Lined(b, t, e)
<1>1. PICK lead \in Leads : line = [i \in 1 .. lead |-> "sp"]
  BY DEF Init
<1>2. words = <<>> /\ last = "gap" /\ room = MaxChars
  BY DEF Init
<1>3. PICK b, t, e : Spans(Message(line), <<>>, b, t, e) /\ e[0] = 0
  BY <1>1, BlankLine
<1>4. line \in Seq(Typable)
  BY <1>1, BlankLine
<1>5. Lined(b, t, e)
  <2>1. Len(words) = 0 /\ (\A i \in 1 .. 0 : FALSE) /\ (\A i \in 0 .. 0 : i = 0)
    BY <1>2
  <2>2. Len(line) \in Nat
    BY <1>4
  <2> QED BY <1>2, <1>3, <2>1, <2>2 DEF Lined
<1> QED BY <1>2, <1>4, <1>5, ExchangeAssumption DEF TypingOK

-----------------------------------------------------------------------------
(* Scanning *)

\* The character behind p, and where parser_advance goes from p.
Char(str, p) == IF p < Len(str) THEN str[p + 1] ELSE NULL
After(str, p) == IF p < Len(str) THEN p + 1 ELSE p

\* A scan that has k tokens of str stands at p: before the next word, in an
\* identifier or in a string of which it has read tok.
At(str, ws, b, t, e, k, where, p, tok) ==
  \/ /\ where = "blanks" /\ tok = <<>> /\ e[k] <= p
     /\ p <= (IF k < Len(ws) THEN b[k + 1] ELSE Len(str))
  \/ /\ where = "id" /\ k < Len(ws) /\ str[b[k + 1] + 1] \notin Quotes
     /\ b[k + 1] < p /\ p <= t[k + 1] /\ tok = SubSeq(str, b[k + 1] + 1, p)
  \/ /\ where = "string" /\ k < Len(ws) /\ str[b[k + 1] + 1] \in Quotes
     /\ b[k + 1] < p /\ p <= t[k + 1] /\ tok = SubSeq(str, b[k + 1] + 2, p)

\* The texts and the place that the lemmas on scanning are about.
Here(str, ws, b, t, e, k, where, p, tok) ==
  /\ str \in Seq(Typable) /\ ws \in Seq(Seq(Typable)) /\ Spans(str, ws, b, t, e)
  /\ k \in 0 .. Len(ws) /\ p \in Nat /\ At(str, ws, b, t, e, k, where, p, tok)

\* The place of the next word.
LEMMA NextWord ==
  ASSUME NEW str \in Seq(Typable), NEW ws \in Seq(Seq(Typable)), NEW b, NEW t, NEW e,
         Spans(str, ws, b, t, e), NEW k \in 0 .. Len(ws), k < Len(ws)
  PROVE  /\ b[k + 1] \in Nat /\ t[k + 1] \in Nat /\ e[k + 1] \in Nat /\ e[k] \in Nat
         /\ e[k] <= b[k + 1] /\ Gap(str, e[k], b[k + 1])
         /\ Word(str, b[k + 1], t[k + 1], e[k + 1], ws[k + 1])
<1> DEFINE n == Len(ws)
<1>1. n \in Nat /\ k \in Nat /\ k + 1 \in 1 .. n /\ k + 1 \in 0 .. n /\ k + 1 - 1 = k
  OBVIOUS
<1>2. Found(str, ws, b, t, e)
  BY DEF Spans
<1>3. b[k + 1] \in Nat /\ t[k + 1] \in Nat /\ e[k + 1] \in Nat /\ e[k] \in Nat
  <2>1. b \in [1 .. n -> Nat] /\ t \in [1 .. n -> Nat] /\ e \in [0 .. n -> Nat]
    BY <1>2 DEF Found
  <2> QED BY <1>1, <2>1
<1>4. /\ e[k + 1 - 1] <= b[k + 1] /\ Gap(str, e[k + 1 - 1], b[k + 1])
      /\ Word(str, b[k + 1], t[k + 1], e[k + 1], ws[k + 1])
  BY <1>1, <1>2 DEF Found
<1> QED BY <1>1, <1>3, <1>4

\* Every word takes a character at least, so that there are no more words than
\* characters.
LEMMA WordsFit ==
  ASSUME NEW str \in Seq(Typable), NEW ws \in Seq(Seq(Typable)), NEW b, NEW t, NEW e,
         Spans(str, ws, b, t, e), NEW k \in 0 .. Len(ws)
  PROVE  e[k] \in Nat /\ k <= e[k] /\ e[k] <= Len(str)
<1> DEFINE n == Len(ws)
<1>1. n \in Nat /\ k \in Nat /\ Len(str) \in Nat
  OBVIOUS
<1>2. Found(str, ws, b, t, e)
  BY DEF Spans
<1>3. e \in [0 .. n -> Nat] /\ e[0] = 0
  BY <1>2 DEF Found
<1>4. CASE k = 0
  BY <1>1, <1>3, <1>4
<1>5. CASE k # 0
  <2>1. k \in 1 .. n
    BY <1>1, <1>5
  <2>2. k <= e[k] /\ Word(str, b[k], t[k], e[k], ws[k])
    BY <1>2, <2>1 DEF Found
  <2> QED BY <1>3, <2>2 DEF Word
<1> QED BY <1>4, <1>5

\* What a scan in the blanks before a word sees, and where it goes: on, into a
\* string or an identifier; or there is no word and the message ends.
LEMMA FromBlanks ==
  ASSUME NEW str, NEW ws, NEW b, NEW t, NEW e, NEW k, NEW p, NEW tok,
         Here(str, ws, b, t, e, k, "blanks", p, tok)
  PROVE  /\ Char(str, p) \in Blanks => At(str, ws, b, t, e, k, "blanks", After(str, p), tok)
         /\ Char(str, p) = NULL => k = Len(ws)
         /\ Char(str, p) \in Quotes => At(str, ws, b, t, e, k, "string", After(str, p), tok)
         /\ Char(str, p) \notin Blanks \cup Quotes \cup {NULL} =>
              At(str, ws, b, t, e, k, "id", After(str, p), tok \o <<Char(str, p)>>)
<1>1. /\ str \in Seq(Typable) /\ ws \in Seq(Seq(Typable)) /\ Spans(str, ws, b, t, e)
      /\ k \in 0 .. Len(ws) /\ p \in Nat /\ tok = <<>> /\ e[k] <= p
      /\ p <= (IF k < Len(ws) THEN b[k + 1] ELSE Len(str))
  BY DEF Here, At
<1>2. Len(str) \in Nat /\ Len(ws) \in Nat /\ k \in Nat /\ e[k] \in Nat
  <2>1. Len(str) \in Nat /\ Len(ws) \in Nat /\ k \in Nat
    BY <1>1
  <2> QED BY <1>1, <2>1, WordsFit
<1>3. CASE k < Len(ws)
  <2> DEFINE b1 == b[k + 1]
             t1 == t[k + 1]
             e1 == e[k + 1]
  <2>1. /\ b1 \in Nat /\ t1 \in Nat /\ e1 \in Nat
        /\ Gap(str, e[k], b1) /\ Word(str, b1, t1, e1, ws[k + 1]) /\ p <= b1
    BY <1>1, <1>3, NextWord
  <2> HIDE DEF b1, t1, e1
  <2>2. /\ b1 < e1 /\ e1 <= Len(str) /\ Content(str, b1) <= t1 /\ str[b1 + 1] \notin Blanks
        /\ str[b1 + 1] \notin Quotes => e1 = t1
    BY <2>1 DEF Word
  <2>3. p < Len(str) /\ Char(str, p) = str[p + 1] /\ After(str, p) = p + 1
    BY <1>1, <1>2, <2>1, <2>2 DEF Char, After
  <2>4. Char(str, p) \in Typable /\ Char(str, p) # NULL
    <3>1. p + 1 \in 1 .. Len(str)
      BY <1>1, <1>2, <2>3
    <3> QED BY <1>1, <2>3, <3>1, TypableFacts
  <2>5. CASE p < b1
    <3>1. p + 1 \in e[k] + 1 .. b1
      BY <1>1, <1>2, <2>1, <2>5
    <3>2. Char(str, p) \in Blanks
      BY <2>1, <2>3, <3>1 DEF Gap
    <3>3. At(str, ws, b, t, e, k, "blanks", After(str, p), tok)
      <4>1. e[k] <= p + 1 /\ p + 1 <= b1
        BY <1>1, <1>2, <2>1, <2>5
      <4> QED BY <1>1, <1>3, <2>3, <4>1 DEF At, b1
    <3> QED BY <2>4, <3>2, <3>3, TypableFacts
  <2>6. CASE p = b1
    <3>1. Char(str, p) = str[b1 + 1] /\ Char(str, p) \notin Blanks
      BY <2>2, <2>3, <2>6
    <3>2. CASE str[b1 + 1] \in Quotes
      <4>1. b1 < b1 + 1 /\ b1 + 1 <= t1
        BY <2>1, <2>2, <3>2 DEF Content
      <4>2. tok = SubSeq(str, b1 + 2, b1 + 1)
        <5>1. SubSeq(str, b1 + 1 + 1, b1 + 1) = <<>>
          BY <2>1, EmptyPart
        <5>2. b1 + 1 + 1 = b1 + 2
          BY <2>1
        <5> QED BY <1>1, <5>1, <5>2
      <4>3. At(str, ws, b, t, e, k, "string", After(str, p), tok)
        BY <1>3, <2>3, <2>6, <3>2, <4>1, <4>2 DEF At, b1, t1
      <4> QED BY <2>4, <3>1, <3>2, <4>3
    <3>3. CASE str[b1 + 1] \notin Quotes
      <4>1. b1 < b1 + 1 /\ b1 + 1 <= t1
        BY <2>1, <2>2, <3>3
      <4>2. tok \o <<Char(str, p)>> = SubSeq(str, b1 + 1, b1 + 1)
        <5>1. SubSeq(str, b1 + 1, b1) = <<>>
          BY <2>1, EmptyPart
        <5>2. SubSeq(str, b1 + 1, b1 + 1) = SubSeq(str, b1 + 1, b1) \o <<str[b1 + 1]>>
          <6>1. b1 <= b1 /\ b1 < Len(str)
            BY <1>2, <2>1, <2>2
          <6> QED BY <1>1, <2>1, <6>1, PartGrows
        <5> QED BY <1>1, <3>1, <5>1, <5>2
      <4>3. At(str, ws, b, t, e, k, "id", After(str, p), tok \o <<Char(str, p)>>)
        BY <1>3, <2>3, <2>6, <3>3, <4>1, <4>2 DEF At, b1, t1
      <4> QED BY <2>4, <3>1, <3>3, <4>3
    <3> QED BY <3>2, <3>3
  <2> QED BY <1>1, <2>1, <2>5, <2>6
<1>4. CASE ~(k < Len(ws))
  <2>1. k = Len(ws) /\ p <= Len(str)
    BY <1>1, <1>2, <1>4
  <2>2. CASE p < Len(str)
    <3>1. Gap(str, e[k], Len(str)) /\ p + 1 \in e[k] + 1 .. Len(str)
      BY <1>1, <1>2, <2>1, <2>2 DEF Spans
    <3>2. Char(str, p) \in Blanks /\ After(str, p) = p + 1
      BY <2>2, <3>1 DEF Char, After, Gap
    <3>3. At(str, ws, b, t, e, k, "blanks", After(str, p), tok)
      <4>1. e[k] <= p + 1 /\ p + 1 <= Len(str)
        BY <1>1, <1>2, <2>2
      <4> QED BY <1>1, <1>4, <3>2, <4>1 DEF At
    <3> QED BY <2>1, <3>2, <3>3, TypableFacts
  <2>3. CASE p = Len(str)
    <3>1. Char(str, p) = NULL
      BY <1>2, <2>3 DEF Char
    <3> QED BY <2>1, <3>1, CharAssumption
  <2> QED BY <1>1, <1>2, <2>1, <2>2, <2>3
<1> QED BY <1>3, <1>4

\* A scan in a string goes on to its end, where it has the text of the word.
LEMMA FromString ==
  ASSUME NEW str, NEW ws, NEW b, NEW t, NEW e, NEW k, NEW p, NEW tok,
         Here(str, ws, b, t, e, k, "string", p, tok)
  PROVE  /\ Char(str, p) \notin Quotes \cup {NULL} =>
              At(str, ws, b, t, e, k, "string", After(str, p), tok \o <<Char(str, p)>>)
         /\ Char(str, p) \in Quotes \cup {NULL} =>
              k < Len(ws) /\ tok = ws[k + 1] /\ After(str, p) = e[k + 1]
<1>1. /\ str \in Seq(Typable) /\ ws \in Seq(Seq(Typable)) /\ Spans(str, ws, b, t, e)
      /\ k \in 0 .. Len(ws) /\ p \in Nat /\ k < Len(ws) /\ str[b[k + 1] + 1] \in Quotes
      /\ b[k + 1] < p /\ p <= t[k + 1] /\ tok = SubSeq(str, b[k + 1] + 2, p)
  BY DEF Here, At
<1> DEFINE b1 == b[k + 1]
           t1 == t[k + 1]
           e1 == e[k + 1]
<1>2. b1 \in Nat /\ t1 \in Nat /\ e1 \in Nat /\ Word(str, b1, t1, e1, ws[k + 1])
  BY <1>1, NextWord
<1>3. Len(str) \in Nat /\ str[b1 + 1] \in Quotes /\ b1 < p /\ p <= t1 /\ tok = SubSeq(str, b1 + 2, p)
  BY <1>1
<1> HIDE DEF b1, t1, e1
<1>4. /\ b1 < e1 /\ e1 <= Len(str) /\ t1 <= e1 /\ ws[k + 1] = SubSeq(str, b1 + 1 + 1, t1)
      /\ \A j \in b1 + 2 .. t1 : str[j] \notin Quotes
      /\ \/ e1 = t1 + 1 /\ str[e1] \in Quotes
         \/ e1 = t1 /\ t1 = Len(str)
  BY <1>2, <1>3 DEF Word, Content
<1>5. CASE p < t1
  <2>1. p < Len(str) /\ Char(str, p) = str[p + 1] /\ After(str, p) = p + 1
    BY <1>1, <1>2, <1>3, <1>4, <1>5 DEF Char, After
  <2>2. Char(str, p) \notin Quotes /\ Char(str, p) # NULL
    <3>1. p + 1 \in b1 + 2 .. t1 /\ p + 1 \in 1 .. Len(str)
      BY <1>1, <1>2, <1>3, <1>4, <1>5
    <3>2. str[p + 1] \in Typable
      BY <1>1, <3>1
    <3> QED BY <1>4, <2>1, <3>1, <3>2, TypableFacts
  <2>3. tok \o <<Char(str, p)>> = SubSeq(str, b1 + 2, p + 1)
    <3>1. b1 + 1 \in Nat /\ b1 + 1 <= p /\ b1 + 1 + 1 = b1 + 2
      BY <1>1, <1>2, <1>3
    <3>2. SubSeq(str, b1 + 1 + 1, p + 1) = SubSeq(str, b1 + 1 + 1, p) \o <<str[p + 1]>>
      BY <1>1, <2>1, <3>1, PartGrows
    <3> QED BY <1>3, <2>1, <3>1, <3>2
  <2>4. At(str, ws, b, t, e, k, "string", After(str, p), tok \o <<Char(str, p)>>)
    <3>1. b1 < p + 1 /\ p + 1 <= t1
      BY <1>1, <1>2, <1>3, <1>5
    <3> QED BY <1>1, <1>3, <2>1, <2>3, <3>1 DEF At, b1, t1
  <2> QED BY <2>2, <2>4
<1>6. CASE p = t1
  <2>1. tok = ws[k + 1]
    <3>1. b1 + 1 + 1 = b1 + 2
      BY <1>2
    <3> QED BY <1>3, <1>4, <1>6, <3>1
  <2>2. CASE e1 = t1 + 1 /\ str[e1] \in Quotes
    <3>1. Char(str, p) \in Quotes /\ After(str, p) = e1
      BY <1>1, <1>2, <1>3, <1>4, <1>6, <2>2 DEF Char, After
    <3> QED BY <1>1, <2>1, <3>1 DEF e1
  <2>3. CASE e1 = t1 /\ t1 = Len(str)
    <3>1. Char(str, p) = NULL /\ After(str, p) = e1
      BY <1>3, <1>6, <2>3 DEF Char, After
    <3> QED BY <1>1, <2>1, <3>1 DEF e1
  <2> QED BY <1>4, <2>2, <2>3
<1> QED BY <1>1, <1>2, <1>3, <1>5, <1>6

\* So does a scan in an identifier.
LEMMA FromId ==
  ASSUME NEW str, NEW ws, NEW b, NEW t, NEW e, NEW k, NEW p, NEW tok,
         Here(str, ws, b, t, e, k, "id", p, tok)
  PROVE  /\ Char(str, p) \notin Blanks \cup {NULL} =>
              At(str, ws, b, t, e, k, "id", After(str, p), tok \o <<Char(str, p)>>)
         /\ Char(str, p) \in Blanks \cup {NULL} =>
              k < Len(ws) /\ tok = ws[k + 1] /\ p = e[k + 1]
<1>1. /\ str \in Seq(Typable) /\ ws \in Seq(Seq(Typable)) /\ Spans(str, ws, b, t, e)
      /\ k \in 0 .. Len(ws) /\ p \in Nat /\ k < Len(ws) /\ str[b[k + 1] + 1] \notin Quotes
      /\ b[k + 1] < p /\ p <= t[k + 1] /\ tok = SubSeq(str, b[k + 1] + 1, p)
  BY DEF Here, At
<1> DEFINE b1 == b[k + 1]
           t1 == t[k + 1]
           e1 == e[k + 1]
<1>2. b1 \in Nat /\ t1 \in Nat /\ e1 \in Nat /\ Word(str, b1, t1, e1, ws[k + 1])
  BY <1>1, NextWord
<1>3. Len(str) \in Nat /\ str[b1 + 1] \notin Quotes /\ b1 < p /\ p <= t1 /\ tok = SubSeq(str, b1 + 1, p)
  BY <1>1
<1> HIDE DEF b1, t1, e1
<1>4. /\ e1 <= Len(str) /\ ws[k + 1] = SubSeq(str, b1 + 1, t1)
      /\ \A j \in b1 + 1 .. t1 : str[j] \notin Blanks
      /\ e1 = t1 /\ (t1 < Len(str) => str[t1 + 1] \in Blanks)
  BY <1>2, <1>3 DEF Word, Content
<1>5. CASE p < t1
  <2>1. p < Len(str) /\ Char(str, p) = str[p + 1] /\ After(str, p) = p + 1
    BY <1>1, <1>2, <1>3, <1>4, <1>5 DEF Char, After
  <2>2. Char(str, p) \notin Blanks /\ Char(str, p) # NULL
    <3>1. p + 1 \in b1 + 1 .. t1 /\ p + 1 \in 1 .. Len(str)
      BY <1>1, <1>2, <1>3, <1>4, <1>5
    <3>2. str[p + 1] \in Typable
      BY <1>1, <3>1
    <3> QED BY <1>4, <2>1, <3>1, <3>2, TypableFacts
  <2>3. tok \o <<Char(str, p)>> = SubSeq(str, b1 + 1, p + 1)
    <3>1. b1 <= p
      BY <1>1, <1>2, <1>3
    <3>2. SubSeq(str, b1 + 1, p + 1) = SubSeq(str, b1 + 1, p) \o <<str[p + 1]>>
      BY <1>1, <1>2, <2>1, <3>1, PartGrows
    <3> QED BY <1>3, <2>1, <3>2
  <2>4. At(str, ws, b, t, e, k, "id", After(str, p), tok \o <<Char(str, p)>>)
    <3>1. b1 < p + 1 /\ p + 1 <= t1
      BY <1>1, <1>2, <1>3, <1>5
    <3> QED BY <1>1, <1>3, <2>1, <2>3, <3>1 DEF At, b1, t1
  <2> QED BY <2>2, <2>4
<1>6. CASE p = t1
  <2>1. tok = ws[k + 1] /\ p = e1
    BY <1>3, <1>4, <1>6
  <2>2. Char(str, p) \in Blanks \cup {NULL}
    BY <1>4, <1>6 DEF Char
  <2> QED BY <1>1, <2>1, <2>2 DEF e1
<1> QED BY <1>1, <1>2, <1>3, <1>5, <1>6

\* The end of a word is a place from which the next one is looked for.
LEMMA BehindWord ==
  ASSUME NEW str \in Seq(Typable), NEW ws \in Seq(Seq(Typable)), NEW b, NEW t, NEW e,
         Spans(str, ws, b, t, e), NEW k \in 0 .. Len(ws)
  PROVE  At(str, ws, b, t, e, k, "blanks", e[k], <<>>)
<1>1. e[k] \in Nat /\ e[k] <= Len(str)
  BY WordsFit
<1>2. k < Len(ws) => e[k] <= b[k + 1]
  BY NextWord
<1> QED BY <1>1, <1>2 DEF At

-----------------------------------------------------------------------------
(* Parsing *)

\* The types of the parser. It never reads a token that is not there.
ParserOK ==
  /\ string \in Seq(Typable) /\ args \in Seq(Seq(Typable))
  /\ parser \in 0 .. Len(string) /\ dup \in 0 .. Len(string)
  /\ scan \in {"name", "count", "args", "done"}
  /\ mode \in {"blanks", "id", "string"}
  /\ argc \in -1 .. Len(string) /\ Len(args) <= Len(string)

\* The arguments so far are the words behind the name.
Arguments == \A i \in 1 .. Len(args) : args[i] = words[i + 1]

\* What each scan has read and where it is: the name, as many tokens as there
\* are words, as many arguments as get_argc has counted.
Progress(b, t, e) ==
  LET n == Len(words) IN
  /\ scan = "name" => /\ argc = 0 /\ dup = 0 /\ args = <<>>
                      /\ At(string, words, b, t, e, 0, mode, parser, token)
  /\ scan = "count" => /\ argc \in 0 .. n /\ args = <<>>
                       /\ n > 0 => name = words[1] /\ parser = e[1]
                       /\ At(string, words, b, t, e, argc, mode, dup, token)
  /\ scan = "args" => /\ argc = n - 1 /\ Len(args) < argc /\ Arguments /\ name = words[1]
                      /\ At(string, words, b, t, e, Len(args) + 1, mode, parser, token)
  /\ scan = "done" => /\ argc = n - 1
                      /\ n > 0 => Len(args) = argc /\ Arguments /\ name = words[1]

\* A step of a scan at its place in a message.
Scanned(b, t, e, k) ==
  /\ string \in Seq(Typable) /\ words \in Seq(Seq(Typable)) /\ Spans(string, words, b, t, e)
  /\ k \in 0 .. Len(words) /\ pos \in Nat
  /\ At(string, words, b, t, e, k, mode, pos, token)

\* A step of a scan goes on in the same token, or returns the next word, or
\* returns NULL when there is none.
LEMMA StepOrToken ==
  ASSUME NEW b, NEW t, NEW e, NEW k, Scanned(b, t, e, k), parse
  PROVE  \/ \E where \in {"blanks", "id", "string"} : \E kept :
              Step(where, kept) /\ At(string, words, b, t, e, k, where, Advanced, token \o kept)
         \/ k < Len(words) /\ Return(words[k + 1], e[k + 1])
         \/ k = Len(words) /\ Return(NULL, pos)
<1>1. Here(string, words, b, t, e, k, mode, pos, token)
  BY DEF Scanned, Here
<1>2. current_char = Char(string, pos) /\ Advanced = After(string, pos)
  BY DEF current_char, Advanced, Char, After
<1>3. CASE mode = "blanks"
  <2>1. /\ Char(string, pos) \in Blanks =>
             At(string, words, b, t, e, k, "blanks", After(string, pos), token)
        /\ Char(string, pos) = NULL => k = Len(words)
        /\ Char(string, pos) \in Quotes =>
             At(string, words, b, t, e, k, "string", After(string, pos), token)
        /\ Char(string, pos) \notin Blanks \cup Quotes \cup {NULL} =>
             At(string, words, b, t, e, k, "id", After(string, pos), token \o <<Char(string, pos)>>)
    BY <1>1, <1>3, FromBlanks
  <2>2. token \o <<>> = token
    <3>1. token = <<>>
      BY <1>3 DEF Scanned, At
    <3> QED BY <3>1
  <2>3. CASE SkipBlank
    <3>1. Step("blanks", <<>>) /\ current_char \in Blanks
      BY <2>3 DEF SkipBlank
    <3> QED BY <1>2, <2>1, <2>2, <3>1
  <2>4. CASE NoToken
    BY <1>2, <2>1, <2>4 DEF NoToken
  <2>5. CASE OpenString
    <3>1. Step("string", <<>>) /\ current_char \in Quotes
      BY <2>5 DEF OpenString
    <3> QED BY <1>2, <2>1, <2>2, <3>1
  <2>6. CASE OpenId
    <3>1. Step("id", <<current_char>>) /\ current_char \notin Blanks \cup Quotes \cup {NULL}
      BY <2>6 DEF OpenId
    <3> QED BY <1>2, <2>1, <3>1
  <2> QED BY <1>3, <2>3, <2>4, <2>5, <2>6 DEF parse, parse_string, parse_id, Scanning
<1>4. CASE mode = "string"
  <2>1. /\ Char(string, pos) \notin Quotes \cup {NULL} =>
             At(string, words, b, t, e, k, "string", After(string, pos), token \o <<Char(string, pos)>>)
        /\ Char(string, pos) \in Quotes \cup {NULL} =>
             k < Len(words) /\ token = words[k + 1] /\ After(string, pos) = e[k + 1]
    BY <1>1, <1>4, FromString
  <2>2. parse_string
    BY <1>4 DEF parse, parse_id, Scanning, SkipBlank, NoToken, OpenString, OpenId
  <2>3. \/ current_char \notin Quotes \cup {NULL} /\ Step("string", <<current_char>>)
        \/ current_char \in Quotes \cup {NULL} /\ Return(token, Advanced)
    BY <2>2 DEF parse_string, EndsString
  <2> QED BY <1>2, <2>1, <2>3
<1>5. CASE mode = "id"
  <2>1. /\ Char(string, pos) \notin Blanks \cup {NULL} =>
             At(string, words, b, t, e, k, "id", After(string, pos), token \o <<Char(string, pos)>>)
        /\ Char(string, pos) \in Blanks \cup {NULL} =>
             k < Len(words) /\ token = words[k + 1] /\ pos = e[k + 1]
    BY <1>1, <1>5, FromId
  <2>2. parse_id
    BY <1>5 DEF parse, parse_string, Scanning, SkipBlank, NoToken, OpenString, OpenId
  <2>3. \/ current_char \notin Blanks \cup {NULL} /\ Step("id", <<current_char>>)
        \/ current_char \in Blanks \cup {NULL} /\ Return(token, pos)
    BY <2>2 DEF parse_id, EndsId
  <2> QED BY <1>2, <2>1, <2>3
<1> QED BY <1>3, <1>4, <1>5 DEF parse, SkipBlank, NoToken, OpenString, OpenId, parse_string, parse_id, Scanning

\* A step inside a token keeps all that has been read.
LEMMA ScanGoesOn ==
  ASSUME NEW b, NEW t, NEW e, NEW k, TypingOK, ParserOK, Progress(b, t, e), UNCHANGED words,
         k = CASE scan = "name" -> 0 [] scan = "count" -> argc [] OTHER -> Len(args) + 1,
         scan # "done", NEW where \in {"blanks", "id", "string"}, NEW kept, Step(where, kept),
         At(string, words, b, t, e, k, where, Advanced, token \o kept)
  PROVE  ParserOK' /\ Progress(b, t, e)'
<1>1. /\ mode' = where /\ token' = token \o kept
      /\ string' = string /\ scan' = scan /\ argc' = argc /\ name' = name /\ args' = args
      /\ words' = words
  BY DEF Step
<1>2. /\ scan = "count" => dup' = Advanced /\ parser' = parser
      /\ scan # "count" => parser' = Advanced /\ dup' = dup
  BY DEF Step, MoveTo
<1>3. Advanced \in 0 .. Len(string) /\ Len(string) \in Nat
  BY DEF ParserOK, Advanced, pos
<1>4. ParserOK'
  BY <1>1, <1>2, <1>3 DEF ParserOK
<1>5. CASE scan = "name"
  <2>1. k = 0 /\ argc = 0 /\ dup = 0 /\ args = <<>>
    BY <1>5 DEF Progress
  <2>2. /\ scan' = "name" /\ argc' = 0 /\ dup' = 0 /\ args' = <<>>
        /\ At(string', words', b, t, e, 0, mode', parser', token')
    BY <1>1, <1>2, <1>5, <2>1
  <2> QED BY <1>4, <2>2 DEF Progress
<1>6. CASE scan = "count"
  <2>1. /\ k = argc /\ argc \in 0 .. Len(words) /\ args = <<>>
        /\ Len(words) > 0 => name = words[1] /\ parser = e[1]
    BY <1>6 DEF Progress
  <2>2. /\ scan' = "count" /\ argc' \in 0 .. Len(words') /\ args' = <<>>
        /\ Len(words') > 0 => name' = words'[1] /\ parser' = e[1]
    BY <1>1, <1>2, <1>6, <2>1
  <2>3. At(string', words', b, t, e, argc', mode', dup', token')
    BY <1>1, <1>2, <1>6, <2>1
  <2> QED BY <1>4, <2>2, <2>3 DEF Progress
<1>7. CASE scan = "args"
  <2>1. /\ k = Len(args) + 1 /\ argc = Len(words) - 1 /\ Len(args) < argc
        /\ Arguments /\ name = words[1]
    BY <1>7 DEF Progress
  <2>2. /\ scan' = "args" /\ argc' = Len(words') - 1 /\ Len(args') < argc'
        /\ Arguments' /\ name' = words'[1]
    BY <1>1, <1>7, <2>1 DEF Arguments
  <2>3. At(string', words', b, t, e, Len(args') + 1, mode', parser', token')
    BY <1>1, <1>2, <1>7, <2>1
  <2> QED BY <1>4, <2>2, <2>3 DEF Progress
<1> QED BY <1>4, <1>5, <1>6, <1>7 DEF ParserOK

\* What get_next_token changes when it returns.
LEMMA Returned ==
  ASSUME NEW x, NEW p, Return(x, p)
  PROVE  /\ mode' = "blanks" /\ token' = <<>> /\ string' = string
         /\ scan = "count" => dup' = p /\ parser' = parser
         /\ scan # "count" => parser' = p /\ dup' = dup
         /\ scan = "name" => scan' = "count" /\ name' = x /\ argc' = argc /\ args' = args
         /\ scan = "count" => name' = name /\ args' = args
         /\ scan = "count" /\ x # NULL => argc' = argc + 1 /\ scan' = scan
         /\ scan = "count" /\ x = NULL =>
              argc' = argc - 1 /\ scan' = IF argc' > 0 THEN "args" ELSE "done"
         /\ scan = "args" => argc' = argc /\ name' = name
         /\ scan = "args" /\ x # NULL =>
              args' = Append(args, x) /\ scan' = IF Len(args') < argc THEN "args" ELSE "done"
<1>1. /\ mode' = "blanks" /\ token' = <<>> /\ string' = string
      /\ scan = "count" => dup' = p /\ parser' = parser
      /\ scan # "count" => parser' = p /\ dup' = dup
  BY DEF Return, MoveTo
<1> QED BY <1>1 DEF Return, get_argc

\* A token that is returned is the next word, for both scans of the message.
LEMMA TokenRead ==
  ASSUME NEW b, NEW t, NEW e, NEW k \in Nat, TypingOK, ParserOK, Progress(b, t, e), UNCHANGED words,
         Spans(string, words, b, t, e), k < Len(words), scan # "done",
         k = CASE scan = "name" -> 0 [] scan = "count" -> argc [] OTHER -> Len(args) + 1,
         Return(words[k + 1], e[k + 1])
  PROVE  ParserOK' /\ Progress(b, t, e)'
<1> DEFINE n == Len(words)
           w == words[k + 1]
           p == e[k + 1]
<1>1. /\ string \in Seq(Typable) /\ words \in Seq(Seq(Typable)) /\ n \in Nat
      /\ Len(string) \in Nat /\ words' = words
  BY DEF ParserOK, TypingOK
<1>2. w \in Seq(Typable) /\ w # NULL
  <2>1. k + 1 \in 1 .. Len(words)
    BY <1>1
  <2> QED BY <1>1, <2>1, TextIsThere
<1>3. p \in Nat /\ k + 1 <= p /\ p <= Len(string)
  <2>1. k + 1 \in 0 .. Len(words)
    BY <1>1
  <2> QED BY <1>1, <2>1, WordsFit
<1>4. At(string, words, b, t, e, k + 1, "blanks", p, <<>>)
  <2>1. k + 1 \in 0 .. Len(words)
    BY <1>1
  <2> QED BY <1>1, <2>1, BehindWord
<1>5. At(string, words, b, t, e, 0, "blanks", 0, <<>>)
  <2>1. e[0] = 0
    BY DEF Spans, Found
  <2>2. At(string, words, b, t, e, 0, "blanks", e[0], <<>>)
    BY <1>1, BehindWord
  <2> QED BY <2>1, <2>2
<1>6. Return(w, p)
  OBVIOUS
<1> HIDE DEF w, p
<1>7. /\ mode' = "blanks" /\ token' = <<>> /\ string' = string
      /\ scan = "count" => dup' = p /\ parser' = parser
      /\ scan # "count" => parser' = p /\ dup' = dup
      /\ scan = "name" => scan' = "count" /\ name' = w /\ argc' = argc /\ args' = args
      /\ scan = "count" => name' = name /\ args' = args
      /\ scan = "count" => argc' = argc + 1 /\ scan' = scan
      /\ scan = "args" => argc' = argc /\ name' = name
      /\ scan = "args" =>
           args' = Append(args, w) /\ scan' = IF Len(args') < argc THEN "args" ELSE "done"
  BY <1>2, <1>6, Returned
<1>8. CASE scan = "name"
  <2>1. k = 0 /\ argc = 0 /\ dup = 0 /\ args = <<>>
    BY <1>8 DEF Progress
  <2>2. ParserOK'
    BY <1>1, <1>3, <1>7, <1>8, <2>1 DEF ParserOK
  <2>3. w = words[1] /\ p = e[1]
    BY <2>1 DEF w, p
  <2>4. /\ scan' = "count" /\ argc' \in 0 .. Len(words') /\ args' = <<>>
        /\ name' = words'[1] /\ parser' = e[1]
    BY <1>1, <1>7, <1>8, <2>1, <2>3
  <2>5. At(string', words', b, t, e, argc', mode', dup', token')
    BY <1>1, <1>5, <1>7, <1>8, <2>1
  <2> QED BY <2>2, <2>4, <2>5 DEF Progress
<1>9. CASE scan = "count"
  <2>1. /\ k = argc /\ args = <<>> /\ n > 0
        /\ name = words[1] /\ parser = e[1]
    BY <1>1, <1>9 DEF Progress
  <2>2. ParserOK'
    BY <1>1, <1>3, <1>7, <1>9, <2>1 DEF ParserOK
  <2>3. /\ scan' = "count" /\ argc' \in 0 .. Len(words') /\ args' = <<>>
        /\ name' = words'[1] /\ parser' = e[1]
    BY <1>1, <1>7, <1>9, <2>1
  <2>4. At(string', words', b, t, e, argc', mode', dup', token')
    BY <1>1, <1>4, <1>7, <1>9, <2>1
  <2> QED BY <2>2, <2>3, <2>4 DEF Progress
<1>10. CASE scan = "args"
  <2>1. /\ k = Len(args) + 1 /\ argc = n - 1 /\ Len(args) < argc
        /\ Arguments /\ name = words[1] /\ args \in Seq(Seq(Typable)) /\ Len(args) \in Nat
    BY <1>10 DEF Progress, ParserOK
  <2>2. /\ args' = Append(args, w) /\ args' \in Seq(Seq(Typable)) /\ Len(args') = k
        /\ args'[k] = w /\ \A i \in 1 .. Len(args) : args'[i] = args[i]
    <3>1. args' = Append(args, w)
      BY <1>7, <1>10
    <3>2. /\ Append(args, w) \in Seq(Seq(Typable)) /\ Len(Append(args, w)) = k
          /\ Append(args, w)[k] = w /\ \A i \in 1 .. Len(args) : Append(args, w)[i] = args[i]
      BY <1>2, <2>1
    <3> QED BY <3>1, <3>2
  <2>3. ParserOK'
    BY <1>1, <1>3, <1>7, <1>10, <2>1, <2>2 DEF ParserOK
  <2>4. Arguments'
    <3>1. \A i \in 1 .. k : i = k \/ i \in 1 .. Len(args)
      BY <2>1
    <3>2. \A i \in 1 .. k : args'[i] = words[i + 1]
      BY <2>1, <2>2, <3>1 DEF Arguments, w
    <3> QED BY <1>1, <2>2, <3>2 DEF Arguments
  <2>5. argc' = Len(words') - 1 /\ name' = words'[1] /\ argc \in Nat
    BY <1>1, <1>7, <1>10, <2>1
  <2>6. CASE k < argc
    <3>1. scan' = "args" /\ Len(args') < argc'
      BY <1>7, <1>10, <2>2, <2>6
    <3>2. At(string', words', b, t, e, Len(args') + 1, mode', parser', token')
      BY <1>1, <1>4, <1>7, <1>10, <2>2
    <3> QED BY <2>3, <2>4, <2>5, <3>1, <3>2 DEF Progress
  <2>7. CASE ~(k < argc)
    <3>1. scan' = "done" /\ Len(args') = argc'
      BY <1>1, <1>7, <1>10, <2>1, <2>2, <2>7
    <3> QED BY <2>3, <2>4, <2>5, <3>1 DEF Progress
  <2> QED BY <2>6, <2>7
<1> QED BY <1>8, <1>9, <1>10 DEF ParserOK

\* NULL is returned when all words have been counted, never for an argument.
LEMMA NoneLeft ==
  ASSUME NEW b, NEW t, NEW e, NEW k \in Nat, TypingOK, ParserOK, Progress(b, t, e), UNCHANGED words,
         Spans(string, words, b, t, e), k = Len(words), scan # "done",
         k = CASE scan = "name" -> 0 [] scan = "count" -> argc [] OTHER -> Len(args) + 1,
         Return(NULL, pos)
  PROVE  ParserOK' /\ Progress(b, t, e)'
<1> DEFINE n == Len(words)
<1>1. /\ string \in Seq(Typable) /\ words \in Seq(Seq(Typable)) /\ n \in Nat
      /\ Len(string) \in Nat /\ words' = words /\ pos \in 0 .. Len(string)
  BY DEF ParserOK, TypingOK, pos
<1>2. n <= Len(string)
  <2>1. n \in 0 .. n
    BY <1>1
  <2>2. e[n] \in Nat /\ n <= e[n] /\ e[n] <= Len(string)
    BY <1>1, <2>1, WordsFit
  <2> QED BY <1>1, <2>2
<1>3. /\ mode' = "blanks" /\ token' = <<>> /\ string' = string
      /\ scan = "count" => dup' = pos /\ parser' = parser
      /\ scan # "count" => parser' = pos /\ dup' = dup
      /\ scan = "name" => scan' = "count" /\ argc' = argc /\ args' = args
      /\ scan = "count" => name' = name /\ args' = args
      /\ scan = "count" =>
           argc' = argc - 1 /\ scan' = IF argc' > 0 THEN "args" ELSE "done"
  BY Returned
<1>4. CASE scan = "name"
  <2>1. n = 0 /\ argc = 0 /\ dup = 0 /\ args = <<>>
    BY <1>4 DEF Progress
  <2>2. ParserOK'
    BY <1>1, <1>3, <1>4, <2>1 DEF ParserOK
  <2>3. At(string, words, b, t, e, 0, "blanks", 0, <<>>)
    <3>1. e[0] = 0 /\ 0 \in 0 .. n
      BY <1>1 DEF Spans, Found
    <3>2. At(string, words, b, t, e, 0, "blanks", e[0], <<>>)
      BY <1>1, <3>1, BehindWord
    <3> QED BY <3>1, <3>2
  <2>4. scan' = "count" /\ argc' \in 0 .. Len(words') /\ args' = <<>> /\ ~(Len(words') > 0)
    BY <1>1, <1>3, <1>4, <2>1
  <2>5. At(string', words', b, t, e, argc', mode', dup', token')
    BY <1>1, <1>3, <1>4, <2>1, <2>3
  <2> QED BY <2>2, <2>4, <2>5 DEF Progress
<1>5. CASE scan = "count"
  <2>1. /\ argc = n /\ args = <<>>
        /\ n > 0 => name = words[1] /\ parser = e[1]
    BY <1>5 DEF Progress
  <2>2. ParserOK'
    <3>1. argc' \in -1 .. Len(string) /\ scan' \in {"args", "done"}
      BY <1>1, <1>2, <1>3, <1>5, <2>1
    <3> QED BY <1>1, <1>3, <1>5, <2>1, <3>1 DEF ParserOK
  <2>3. argc' = n - 1 /\ argc' = Len(words') - 1 /\ args' = <<>> /\ Len(args') = 0
    BY <1>1, <1>3, <1>5, <2>1
  <2>4. Arguments'
    BY <2>3 DEF Arguments
  <2>5. CASE n > 1
    <3>1. scan' = "args" /\ Len(args') < argc' /\ name' = words'[1]
      BY <1>1, <1>3, <1>5, <2>1, <2>3, <2>5
    <3>2. At(string, words, b, t, e, 1, "blanks", e[1], <<>>)
      <4>1. 1 \in 0 .. Len(words)
        BY <1>1, <2>5
      <4> QED BY <1>1, <4>1, BehindWord
    <3>3. At(string', words', b, t, e, Len(args') + 1, mode', parser', token')
      <4>1. Len(args') + 1 = 1 /\ parser' = e[1]
        BY <1>3, <1>5, <2>1, <2>3, <2>5
      <4> QED BY <1>1, <1>3, <3>2, <4>1
    <3> QED BY <2>2, <2>3, <2>4, <3>1, <3>3 DEF Progress
  <2>6. CASE ~(n > 1)
    <3>1. scan' = "done" /\ (Len(words') > 0 => Len(args') = argc' /\ name' = words'[1])
      BY <1>1, <1>3, <1>5, <2>1, <2>3, <2>6
    <3> QED BY <2>2, <2>3, <2>4, <3>1 DEF Progress
  <2> QED BY <2>5, <2>6
<1>6. CASE scan = "args"
  BY <1>1, <1>6 DEF Progress
<1> QED BY <1>4, <1>5, <1>6 DEF ParserOK

\* A step of the parser keeps its progress.
LEMMA ParserStep ==
  ASSUME NEW b, NEW t, NEW e, TypingOK, ParserOK, Progress(b, t, e), UNCHANGED words,
         Spans(string, words, b, t, e), parse
  PROVE  ParserOK' /\ Progress(b, t, e)'
<1>1. scan # "done"
  BY DEF parse, SkipBlank, NoToken, OpenString, OpenId, parse_string, parse_id, Scanning
<1> DEFINE k == CASE scan = "name" -> 0 [] scan = "count" -> argc [] OTHER -> Len(args) + 1
<1>2. k \in 0 .. Len(words) /\ pos \in Nat /\ At(string, words, b, t, e, k, mode, pos, token)
  <2>1. Len(words) \in Nat /\ Len(args) \in Nat /\ parser \in Nat /\ dup \in Nat
    BY DEF TypingOK, ParserOK
  <2>2. CASE scan = "name"
    BY <2>1, <2>2 DEF Progress, pos
  <2>3. CASE scan = "count"
    BY <2>1, <2>3 DEF Progress, pos
  <2>4. CASE scan = "args"
    BY <2>1, <2>4 DEF Progress, pos
  <2> QED BY <1>1, <2>2, <2>3, <2>4 DEF ParserOK
<1>3. PICK m \in Nat : m = k
  BY <1>2 DEF TypingOK
<1>4. Scanned(b, t, e, m)
  BY <1>2, <1>3 DEF Scanned, TypingOK, ParserOK
<1>5. \/ \E where \in {"blanks", "id", "string"} : \E kept :
           Step(where, kept) /\ At(string, words, b, t, e, m, where, Advanced, token \o kept)
      \/ m < Len(words) /\ Return(words[m + 1], e[m + 1])
      \/ m = Len(words) /\ Return(NULL, pos)
  BY <1>4, StepOrToken
<1> HIDE DEF k
<1>6. m = CASE scan = "name" -> 0 [] scan = "count" -> argc [] OTHER -> Len(args) + 1
  BY <1>3 DEF k
<1>7. CASE \E where \in {"blanks", "id", "string"} : \E kept :
             Step(where, kept) /\ At(string, words, b, t, e, m, where, Advanced, token \o kept)
  BY <1>1, <1>6, <1>7, ScanGoesOn
<1>8. CASE m < Len(words) /\ Return(words[m + 1], e[m + 1])
  BY <1>1, <1>6, <1>8, TokenRead
<1>9. CASE m = Len(words) /\ Return(NULL, pos)
  BY <1>1, <1>6, <1>9, NoneLeft
<1> QED BY <1>5, <1>7, <1>8, <1>9

-----------------------------------------------------------------------------
(* Numbers *)

\* A property that holds of a number when it holds of all smaller ones.
LEMMA Induction ==
  ASSUME NEW P, \A n \in Nat : (\A m \in Nat : m < n => m \in P) => n \in P
  PROVE  \A n \in Nat : n \in P
<1> SUFFICES ASSUME \E n \in Nat : n \notin P  PROVE FALSE
  OBVIOUS
<1> DEFINE Off == {n \in Nat : n \notin P}
<1>1. PICK n \in Off : \A m \in Off : n <= m
  BY LeastExists
<1>2. \A m \in Nat : m < n => m \in P
  BY <1>1
<1> QED BY <1>1, <1>2

\* The digits.
Digits == {DigitChar[i] : i \in 1 .. 10}

\* The digits are ten characters, none of them another one's or a sign.
LEMMA DigitFacts ==
  /\ Len(DigitChar) = 10
  /\ \A d \in 0 .. 9 : DigitChar[d + 1] \in Digits
  /\ \A d \in 0 .. 9 : \A i \in 1 .. 10 : DigitChar[i] = DigitChar[d + 1] => i = d + 1
  /\ \A c \in Digits : c \notin {"-", "cr", "nl", "$", ":", "*", "ERR"}
BY DEF DigitChar, Digits

\* The text of a digit.
Digit(d) == <<DigitChar[d + 1]>>

\* One step of Decimal.
Decimally(f, n) == IF n < 10 THEN Digit(n) ELSE f[n \div 10] \o Digit(n % 10)

\* The last digit of a number and the number without it.
LEMMA LastDigit ==
  ASSUME NEW n \in Nat
  PROVE  /\ n \div 10 \in Nat /\ n % 10 \in 0 .. 9 /\ n = (n \div 10) * 10 + (n % 10)
         /\ n \div 10 <= n /\ (n # 0 => n \div 10 < n) /\ (n >= 10 => n \div 10 > 0)
OBVIOUS

\* Decimal satisfies its definition: it can be made up from its beginnings.
LEMMA DecimalIs ==
  Decimal = [n \in Nat |-> Decimally(Decimal, n)]
<1> DEFINE Begins(f, n) == f \in [0 .. n -> Seq(Digits)] /\ \A m \in 0 .. n : f[m] = Decimally(f, m)
<1>1. \A n \in Nat : \E f : Begins(f, n)
  <2> DEFINE P == {n \in Nat : \E f : Begins(f, n)}
  <2> SUFFICES \A n \in Nat : n \in P
    OBVIOUS
  <2>1. ASSUME NEW n \in Nat, \A m \in Nat : m < n => m \in P
        PROVE  n \in P
    <3>1. CASE n = 0
      <4> DEFINE f == [m \in 0 .. 0 |-> Digit(0)]
      <4>1. f \in [0 .. 0 -> Seq(Digits)] /\ \A m \in 0 .. 0 : f[m] = Decimally(f, m)
        BY DigitFacts DEF Decimally, Digit
      <4> QED BY <3>1, <4>1
    <3>2. CASE n # 0
      <4>1. n - 1 \in Nat /\ n - 1 < n
        BY <3>2
      <4>2. PICK f : Begins(f, n - 1)
        BY <2>1, <4>1
      <4> DEFINE g == [m \in 0 .. n |-> IF m = n THEN Decimally(f, n) ELSE f[m]]
      <4>3. ASSUME NEW m \in 0 .. n PROVE Decimally(f, m) = Decimally(g, m) /\ Decimally(f, m) \in Seq(Digits)
        <5>1. m >= 10 => m \div 10 \in 0 .. n - 1 /\ m \div 10 # n /\ m \div 10 \in 0 .. n
          BY LastDigit
        <5>2. m >= 10 => f[m \div 10] = g[m \div 10] /\ f[m \div 10] \in Seq(Digits)
          BY <4>2, <5>1
        <5>3. m % 10 \in 0 .. 9
          BY LastDigit
        <5>4. m < 10 => m \in 0 .. 9
          OBVIOUS
        <5> HIDE DEF g
        <5> QED BY <5>2, <5>3, <5>4, DigitFacts DEF Decimally, Digit
      <4>4. ASSUME NEW m \in 0 .. n PROVE g[m] = Decimally(g, m) /\ g[m] \in Seq(Digits)
        <5>1. CASE m = n
          BY <4>3, <5>1
        <5>2. CASE m # n
          <6>1. m \in 0 .. n - 1 /\ g[m] = f[m]
            BY <5>2
          <6>2. f[m] = Decimally(f, m)
            BY <4>2, <6>1
          <6> HIDE DEF g
          <6> QED BY <4>3, <6>1, <6>2
        <5> QED BY <5>1, <5>2
      <4>5. g = [m \in 0 .. n |-> g[m]]
        OBVIOUS
      <4> HIDE DEF g
      <4>6. g \in [0 .. n -> Seq(Digits)]
        BY <4>4, <4>5
      <4>7. Begins(g, n)
        BY <4>4, <4>6
      <4> QED BY <4>7
    <3> QED BY <3>1, <3>2
  <2> HIDE DEF P
  <2> QED BY <2>1, Induction
<1>2. ASSUME NEW m \in Nat, NEW k \in Nat, NEW n \in Nat, m <= k, m <= n,
             NEW f, NEW g, Begins(f, k), Begins(g, n)
      PROVE  f[m] = g[m]
  <2> DEFINE P == {i \in Nat : i <= k /\ i <= n => f[i] = g[i]}
  <2>1. ASSUME NEW i \in Nat, \A j \in Nat : j < i => j \in P
        PROVE  i \in P
    <3> SUFFICES ASSUME i <= k, i <= n PROVE f[i] = g[i]
      OBVIOUS
    <3>1. f[i] = Decimally(f, i) /\ g[i] = Decimally(g, i)
      BY <1>2
    <3>2. i >= 10 => f[i \div 10] = g[i \div 10]
      <4> HAVE i >= 10
      <4>1. i \div 10 \in Nat /\ i \div 10 < i
        BY LastDigit
      <4> QED BY <2>1, <4>1
    <3>3. Decimally(f, i) = Decimally(g, i)
      BY <3>2 DEF Decimally
    <3> QED BY <3>1, <3>3
  <2> HIDE DEF P
  <2>2. m \in P
    BY <2>1, Induction
  <2> QED BY <1>2, <2>2 DEF P
<1> DEFINE Beginning(n) == CHOOSE f : Begins(f, n)
           F == [n \in Nat |-> Beginning(n)[n]]
<1>3. ASSUME NEW n \in Nat PROVE Begins(Beginning(n), n)
  <2> DEFINE B(f) == Begins(f, n)
  <2>1. \E f : B(f)
    BY <1>1
  <2> HIDE DEF B
  <2>2. B(CHOOSE f : B(f))
    BY <2>1, Zenon
  <2> QED BY <2>2 DEF B
<1> HIDE DEF Beginning
<1>4. ASSUME NEW n \in Nat PROVE F[n] = Decimally(F, n)
  <2>1. F[n] = Decimally(Beginning(n), n)
    BY <1>3
  <2>2. n >= 10 => Beginning(n)[n \div 10] = F[n \div 10]
    <3> HAVE n >= 10
    <3> DEFINE d == n \div 10
    <3>1. d \in Nat /\ d <= n
      BY LastDigit
    <3> HIDE DEF d
    <3>2. Begins(Beginning(n), n) /\ Begins(Beginning(d), d)
      BY <1>3, <3>1
    <3> HIDE DEF Begins
    <3>3. Beginning(n)[d] = Beginning(d)[d]
      BY <1>2, <3>1, <3>2
    <3> QED BY <3>1, <3>3 DEF d
  <2> HIDE DEF F
  <2> QED BY <2>1, <2>2 DEF Decimally
<1>5. F = [n \in Nat |-> Decimally(F, n)]
  <2>1. F = [n \in Nat |-> F[n]]
    OBVIOUS
  <2> HIDE DEF F
  <2> QED BY <1>4, <2>1, Zenon
<1> HIDE DEF F
<1> DEFINE Solves(f) == f = [n \in Nat |-> Decimally(f, n)]
<1>6. Decimal = CHOOSE f : Solves(f)
  BY DEF Decimal, Decimally, Digit
<1>7. Solves(F)
  BY <1>5
<1> HIDE DEF Solves
<1>8. Solves(CHOOSE f : Solves(f))
  BY <1>7, Zenon
<1>9. Solves(Decimal)
  BY <1>6, <1>8
<1> QED BY <1>9 DEF Solves

\* A number has its digits, at least one of them.
LEMMA DecimalDigits ==
  \A n \in Nat : /\ Decimal[n] \in Seq(Digits) /\ Len(Decimal[n]) \in Nat \ {0}
                 /\ n < 10 => Decimal[n] = Digit(n)
                 /\ n >= 10 => Decimal[n] = Decimal[n \div 10] \o Digit(n % 10)
<1> DEFINE D == Decimal
<1>1. D = [m \in Nat |-> Decimally(D, m)]
  BY DecimalIs
<1> HIDE DEF D
<1>2. ASSUME NEW n \in Nat
      PROVE  /\ n < 10 => D[n] = Digit(n)
             /\ n >= 10 => D[n] = D[n \div 10] \o Digit(n % 10)
  <2> DEFINE F == [m \in Nat |-> Decimally(D, m)]
  <2>1. F[n] = Decimally(D, n)
    OBVIOUS
  <2>2. D = F
    BY <1>1
  <2> HIDE DEF F
  <2>3. D[n] = Decimally(D, n)
    BY <2>1, <2>2
  <2>4. n >= 10 => ~(n < 10)
    OBVIOUS
  <2> QED BY <2>3, <2>4, Zenon DEF Decimally
<1>3. ASSUME NEW d \in 0 .. 9 PROVE Digit(d) \in Seq(Digits) /\ Len(Digit(d)) = 1
  BY DigitFacts DEF Digit
<1>6. ASSUME NEW n \in Nat, n < 10 PROVE D[n] = Digit(n) /\ n \in 0 .. 9
  <2>1. D[n] = Digit(n)
    BY <1>2, <1>6, Zenon
  <2> QED BY <1>6, <2>1
<1> DEFINE Good(n) == D[n] \in Seq(Digits) /\ Len(D[n]) \in Nat \ {0}
           P == {n \in Nat : Good(n)}
<1>4. ASSUME NEW n \in Nat, \A m \in Nat : m < n => m \in P
      PROVE  n \in P
  <2>1. CASE n < 10
    <3>1. n \in 0 .. 9 /\ D[n] = Digit(n)
      BY <1>6, <2>1
    <3>3. Digit(n) \in Seq(Digits) /\ Len(Digit(n)) = 1
      BY <1>3, <3>1
    <3>2. Good(n)
      <4> HIDE DEF Digits
      <4> QED BY <3>1, <3>3
    <3> QED BY <3>2
  <2>2. CASE n >= 10
    <3>1. n \div 10 \in P /\ n % 10 \in 0 .. 9
      BY <1>4, <2>2, LastDigit
    <3> DEFINE d == D[n \div 10]
               c == Digit(n % 10)
    <3>2. d \in Seq(Digits) /\ Len(d) \in Nat \ {0} /\ c \in Seq(Digits) /\ Len(c) = 1
      BY <1>3, <3>1
    <3>3. D[n] = d \o c
      BY <1>2, <2>2
    <3> HIDE DEF d, c
    <3>4. d \o c \in Seq(Digits) /\ Len(d \o c) = Len(d) + Len(c)
      BY <3>2, ConcatProperties
    <3>5. Len(d \o c) \in Nat \ {0}
      BY <3>2, <3>4
    <3>6. Good(n)
      BY <3>3, <3>4, <3>5
    <3> QED BY <3>6
  <2> QED BY <2>1, <2>2
<1>5. ASSUME NEW n \in Nat PROVE Good(n)
  <2> HIDE DEF Good
  <2>1. n \in P
    <3> HIDE DEF P
    <3> QED BY <1>4, Induction
  <2> QED BY <2>1
<1> QED BY <1>2, <1>5 DEF D

\* A printed number is a text of digits.
LEMMA DecimalIsText ==
  \A n \in Nat : Decimal[n] \in Seq(Digits) /\ Len(Decimal[n]) \in Nat \ {0}
BY DecimalDigits, Zenon

\* An int stays one.
LEMMA IntStays ==
  ASSUME NEW n \in Int
  PROVE  AsInt(n) \in IntRange /\ AsInt(n) \in Int
<1> DEFINE q == 2 * (IntMax + 1)
           r == (n + IntMax + 1) % q
<1>1. q \in Int /\ q > 0
  BY WidthAssumption
<1>2. n + IntMax + 1 \in Int
  BY WidthAssumption
<1> HIDE DEF q
<1>3. r \in 0 .. q - 1
  BY <1>1, <1>2
<1> QED BY <1>3, WidthAssumption DEF AsInt, IntRange, q

\* The steps by which values of A are made from those before them, n times.
Steps(step, n, A) == step \in [1 .. n -> [A -> A]]

\* The values that they make from a.
Made(f, step, n, A, a) ==
  f \in [0 .. n -> A] /\ f[0] = a /\ \A i \in 1 .. n : f[i] = step[i][f[i - 1]]

\* Steps make values.
LEMMA Iterates ==
  ASSUME NEW A, NEW n \in Nat, NEW a \in A, NEW step, Steps(step, n, A)
  PROVE  \E f : Made(f, step, n, A, a)
<1> DEFINE Begins(f, k) == f \in [0 .. k -> A] /\ f[0] = a /\ \A i \in 1 .. k : f[i] = step[i][f[i - 1]]
           P == {k \in Nat : k <= n => \E f : Begins(f, k)}
<1>1. ASSUME NEW k \in Nat, \A m \in Nat : m < k => m \in P
      PROVE  k \in P
  <2> SUFFICES ASSUME k <= n PROVE \E f : Begins(f, k)
    OBVIOUS
  <2>1. CASE k = 0
    <3> DEFINE f == [i \in 0 .. 0 |-> a]
    <3>1. Begins(f, 0)
      OBVIOUS
    <3> QED BY <2>1, <3>1
  <2>2. CASE k # 0
    <3>1. k - 1 \in Nat /\ k - 1 < k /\ k - 1 <= n
      BY <2>2
    <3>2. k - 1 \in P
      BY <1>1, <3>1
    <3>3. PICK f : Begins(f, k - 1)
      BY <3>1, <3>2
    <3> DEFINE v == step[k][f[k - 1]]
               g == [i \in 0 .. k |-> IF i = k THEN v ELSE f[i]]
    <3>4. v \in A
      <4>1. f[k - 1] \in A /\ k \in 1 .. n
        BY <2>2, <3>1, <3>3
      <4> QED BY <4>1 DEF Steps
    <3>5. g \in [0 .. k -> A]
      <4>1. \A i \in 0 .. k : i # k => f[i] \in A
        BY <3>3
      <4> HIDE DEF v
      <4> QED BY <3>4, <4>1
    <3>6. ASSUME NEW i \in 1 .. k PROVE g[i] = step[i][g[i - 1]]
      <4>1. i - 1 \in 0 .. k /\ i - 1 # k /\ g[i - 1] = f[i - 1]
        OBVIOUS
      <4>2. CASE i = k
        BY <4>1, <4>2
      <4>3. CASE i # k
        <5>1. i \in 1 .. k - 1 /\ g[i] = f[i]
          BY <4>3
        <5>2. f[i] = step[i][f[i - 1]]
          BY <3>3, <5>1
        <5> HIDE DEF g
        <5> QED BY <4>1, <5>1, <5>2
      <4> QED BY <4>2, <4>3
    <3>7. g[0] = a
      BY <2>2, <3>3
    <3> HIDE DEF g
    <3>8. Begins(g, k)
      BY <3>5, <3>6, <3>7
    <3> QED BY <3>8
  <2> QED BY <2>1, <2>2
<1> HIDE DEF P
<1>2. n \in P
  BY <1>1, Induction
<1> QED BY <1>2 DEF P, Made

\* The digit a character stands for, as "- '0'" finds it.
DigitOf(char) == FirstOf(char, DigitChar) - 1

\* The digits are found.
LEMMA DigitIs ==
  /\ \A c : DigitOf(c) \in Int
  /\ \A d \in 0 .. 9 : DigitOf(DigitChar[d + 1]) = d
<1>1. ASSUME NEW c
      PROVE  DigitOf(c) \in Int /\ \A d \in 0 .. 9 : c = DigitChar[d + 1] => DigitOf(c) = d
  <2> DEFINE I == {i \in 1 .. 10 : DigitChar[i] = c}
  <2>1. FirstOf(c, DigitChar) = IF I # {} THEN Min(I) ELSE 0
    BY DigitFacts DEF FirstOf, SelectInSeq
  <2>2. CASE I = {}
    <3>1. \A d \in 0 .. 9 : d + 1 \in 1 .. 10
      OBVIOUS
    <3>2. \A d \in 0 .. 9 : c # DigitChar[d + 1]
      BY <2>2, <3>1
    <3> HIDE DEF I
    <3> QED BY <2>1, <2>2, <3>2 DEF DigitOf
  <2>3. CASE I # {}
    <3>1. I \in SUBSET Nat
      OBVIOUS
    <3> HIDE DEF I
    <3>2. PICK i \in I : \A j \in I : i <= j
      BY <2>3, <3>1, LeastExists
    <3>3. Min(I) \in I /\ \A j \in I : Min(I) <= j
      BY <3>2 DEF Min
    <3>4. Min(I) \in 1 .. 10 /\ DigitChar[Min(I)] = c
      BY <3>3 DEF I
    <3>5. \A d \in 0 .. 9 : c = DigitChar[d + 1] => Min(I) = d + 1
      BY <3>4, DigitFacts
    <3> QED BY <2>1, <2>3, <3>4, <3>5 DEF DigitOf
  <2> QED BY <2>2, <2>3
<1> QED BY <1>1

\* What the loop of strtoi computes.
Runs(v, s) ==
  /\ v \in [0 .. Len(s) -> IntRange] /\ v[0] = 0
  /\ \A i \in 1 .. Len(s) : v[i] = AsInt(v[i - 1] * 10 + DigitOf(s[i]))

\* The value is where the loop ends.
LEMMA ValueRuns ==
  ASSUME NEW S, NEW s \in Seq(S)
  PROVE  \E v : Runs(v, s) /\ Value(s) = v[Len(s)]
<1> DEFINE n == Len(s)
           step == [i \in 1 .. n |-> [x \in IntRange |-> AsInt(x * 10 + DigitOf(s[i]))]]
           Solves(f) == f = [i \in 0 .. n |-> IF i = 0 THEN 0 ELSE AsInt(f[i - 1] * 10 + DigitOf(s[i]))]
<1>1. n \in Nat /\ 0 \in IntRange /\ \A x \in IntRange : x \in Int
  BY WidthAssumption DEF IntRange
<1>2. step \in [1 .. n -> [IntRange -> IntRange]]
  <2>1. ASSUME NEW i \in 1 .. n, NEW x \in IntRange
        PROVE  AsInt(x * 10 + DigitOf(s[i])) \in IntRange
    <3>1. x \in Int /\ DigitOf(s[i]) \in Int
      BY <1>1, DigitIs
    <3>2. x * 10 + DigitOf(s[i]) \in Int
      BY <3>1
    <3> QED BY <3>2, IntStays
  <2> QED BY <2>1
<1>3. PICK f : Made(f, step, n, IntRange, 0)
  <2>1. n \in Nat /\ 0 \in IntRange /\ Steps(step, n, IntRange)
    BY <1>1, <1>2 DEF Steps
  <2> HIDE DEF n, step
  <2> QED BY <2>1, Iterates
<1>4. Solves(f)
  <2>1. ASSUME NEW i \in 1 .. n PROVE f[i] = AsInt(f[i - 1] * 10 + DigitOf(s[i]))
    <3>1. i - 1 \in 0 .. n /\ f[i - 1] \in IntRange
      BY <1>1, <1>3 DEF Made
    <3>3. f[i] = step[i][f[i - 1]]
      BY <1>3 DEF Made
    <3>2. step[i][f[i - 1]] = AsInt(f[i - 1] * 10 + DigitOf(s[i]))
      BY <3>1
    <3> QED BY <3>2, <3>3
  <2>3. f = [i \in 0 .. n |-> f[i]] /\ f[0] = 0
    BY <1>3 DEF Made
  <2>2. \A i \in 0 .. n : i = 0 \/ i \in 1 .. n
    BY <1>1
  <2> HIDE DEF n, step
  <2> QED BY <2>1, <2>2, <2>3
<1> DEFINE v == CHOOSE h : Solves(h)
<1>5. Value(s) = v[n]
  BY DEF Value, DigitOf
<1>6. Solves(v)
  <2> HIDE DEF Solves
  <2> QED BY <1>4, Zenon
<1> HIDE DEF v
<1>7. v[0] = 0 /\ \A i \in 1 .. n : v[i] = AsInt(v[i - 1] * 10 + DigitOf(s[i]))
  <2>1. \A i \in 0 .. n : v[i] = IF i = 0 THEN 0 ELSE AsInt(v[i - 1] * 10 + DigitOf(s[i]))
    BY <1>6
  <2>2. 0 \in 0 .. n /\ \A i \in 1 .. n : i \in 0 .. n /\ i # 0
    BY <1>1
  <2> HIDE DEF n
  <2> QED BY <2>1, <2>2
<1>8. \A i \in 0 .. n : v[i] \in IntRange
  <2> DEFINE P == {i \in Nat : i <= n => v[i] \in IntRange}
  <2>1. ASSUME NEW i \in Nat, \A j \in Nat : j < i => j \in P
        PROVE  i \in P
    <3>1. CASE i = 0
      BY <1>1, <1>7, <3>1
    <3>2. CASE i # 0
      <4> SUFFICES ASSUME i <= n PROVE v[i] \in IntRange
        OBVIOUS
      <4>1. i - 1 \in Nat /\ i - 1 < i /\ i - 1 <= n /\ i \in 1 .. n
        BY <3>2, <1>1
      <4>2. v[i - 1] \in Int
        BY <1>1, <2>1, <4>1
      <4>3. v[i - 1] * 10 + DigitOf(s[i]) \in Int
        <5>1. PICK x \in Int : x = v[i - 1]
          BY <4>2, Zenon
        <5>2. PICK d \in Int : d = DigitOf(s[i])
          BY DigitIs, Zenon
        <5>3. x * 10 + d \in Int
          OBVIOUS
        <5> QED BY <5>1, <5>2, <5>3, Zenon
      <4> QED BY <1>7, <4>1, <4>3, IntStays
    <3> QED BY <3>1, <3>2
  <2>2. ASSUME NEW i \in Nat PROVE i \in P
    <3> HIDE DEF P
    <3> QED BY <2>1, Induction
  <2> QED BY <1>1, <2>2
<1>9. v \in [0 .. n -> IntRange]
  <2>1. v = [i \in 0 .. n |-> v[i]]
    BY <1>6
  <2> QED BY <1>8, <2>1
<1>10. Runs(v, s)
  BY <1>7, <1>9 DEF Runs
<1> QED BY <1>5, <1>10

\* One more digit.
LEMMA ValueGrows ==
  ASSUME NEW S, NEW s \in Seq(S), NEW c \in S
  PROVE  /\ Value(s) \in IntRange
         /\ Value(s \o <<c>>) = AsInt(Value(s) * 10 + DigitOf(c))
<1> DEFINE x == <<c>>
           n == Len(s)
           r == s \o x
<1>1. n \in Nat /\ x \in Seq(S) /\ Len(x) = 1 /\ x[1] = c
  OBVIOUS
<1>2. r \in Seq(S) /\ Len(r) = n + 1 /\ r[n + 1] = c /\ \A i \in 1 .. n : r[i] = s[i]
  <2> HIDE DEF x
  <2>1. /\ s \o x \in Seq(S) /\ Len(s \o x) = Len(s) + Len(x)
        /\ \A i \in 1 .. Len(s) + Len(x) : (s \o x)[i] = IF i <= Len(s) THEN s[i] ELSE x[i - Len(s)]
    BY <1>1, ConcatProperties
  <2> QED BY <1>1, <2>1
<1> HIDE DEF x, n, r
<1>3. PICK v : Runs(v, s) /\ Value(s) = v[n]
  BY ValueRuns DEF n
<1>4. PICK w : Runs(w, r) /\ Value(r) = w[n + 1]
  BY <1>2, ValueRuns
<1>5. w[n] = v[n]
  <2> DEFINE P == {i \in Nat : i <= n => w[i] = v[i]}
  <2>1. ASSUME NEW i \in Nat, \A j \in Nat : j < i => j \in P
        PROVE  i \in P
    <3>1. CASE i = 0
      BY <1>3, <1>4, <3>1 DEF Runs
    <3>2. CASE i # 0
      <4> SUFFICES ASSUME i <= n PROVE w[i] = v[i]
        OBVIOUS
      <4>1. i - 1 \in Nat /\ i - 1 < i /\ i - 1 <= n /\ i \in 1 .. n /\ i \in 1 .. n + 1
        BY <3>2, <1>1
      <4>2. w[i - 1] = v[i - 1] /\ r[i] = s[i]
        BY <1>2, <2>1, <4>1
      <4>3. w[i] = AsInt(w[i - 1] * 10 + DigitOf(r[i]))
        BY <1>2, <1>4, <4>1 DEF Runs
      <4>4. v[i] = AsInt(v[i - 1] * 10 + DigitOf(s[i]))
        BY <1>3, <4>1 DEF Runs, n
      <4> QED BY <4>2, <4>3, <4>4
    <3> QED BY <3>1, <3>2
  <2>2. ASSUME NEW i \in Nat PROVE i \in P
    <3> HIDE DEF P
    <3> QED BY <2>1, Induction
  <2> QED BY <1>1, <2>2
<1>6. n + 1 \in 1 .. Len(r) /\ n + 1 - 1 = n
  BY <1>1, <1>2
<1>7. w[n + 1] = AsInt(w[n] * 10 + DigitOf(c))
  <2>1. \A i \in 1 .. Len(r) : w[i] = AsInt(w[i - 1] * 10 + DigitOf(r[i]))
    BY <1>4 DEF Runs
  <2> DEFINE k == n + 1
  <2>3. k \in 1 .. Len(r)
    BY <1>6
  <2> HIDE DEF k
  <2>4. w[k] = AsInt(w[k - 1] * 10 + DigitOf(r[k]))
    BY <2>1, <2>3
  <2>2. w[n + 1] = AsInt(w[n + 1 - 1] * 10 + DigitOf(r[n + 1]))
    BY <1>1, <2>4 DEF k
  <2> QED BY <1>2, <1>6, <2>2
<1>8. v[n] \in IntRange
  BY <1>1, <1>3 DEF Runs, n
<1> QED BY <1>3, <1>4, <1>5, <1>7, <1>8 DEF r, x

\* strtoi reads the digits of an int, and of the number after the largest one
\* as far as it fits.
LEMMA DecimalReads ==
  \A n \in 0 .. IntMax + 1 : Value(Decimal[n]) = AsInt(n)
<1> DEFINE P == {n \in Nat : n <= IntMax + 1 => Value(Decimal[n]) = AsInt(n)}
<1>1. ASSUME NEW n \in Nat, \A m \in Nat : m < n => m \in P
      PROVE  n \in P
  <2> SUFFICES ASSUME n <= IntMax + 1 PROVE Value(Decimal[n]) = AsInt(n)
    OBVIOUS
  <2>1. CASE n < 10
    <3> DEFINE c == DigitChar[n + 1]
    <3>1. n \in 0 .. 9 /\ c \in Digits /\ DigitOf(c) = n
      BY <2>1, DigitFacts, DigitIs
    <3> HIDE DEF c
    <3>2. Value(<<>> \o <<c>>) = AsInt(Value(<<>>) * 10 + DigitOf(c))
      <4>1. <<>> \in Seq(Digits)
        OBVIOUS
      <4> QED BY <3>1, <4>1, ValueGrows
    <3>3. Value(<<>>) = 0
      <4>1. <<>> \in Seq(Digits) /\ Len(<<>>) = 0
        OBVIOUS
      <4>2. PICK v : Runs(v, <<>>) /\ Value(<<>>) = v[Len(<<>>)]
        BY <4>1, ValueRuns
      <4> QED BY <4>1, <4>2 DEF Runs
    <3>4. <<>> \o <<c>> = <<c>>
      OBVIOUS
    <3>5. Decimal[n] = <<c>>
      BY <2>1, DecimalDigits DEF c, Digit
    <3>6. Value(<<>>) * 10 + DigitOf(c) = n
      BY <3>1, <3>3
    <3> QED BY <3>2, <3>4, <3>5, <3>6
  <2>2. CASE n >= 10
    <3> DEFINE m == n \div 10
               c == DigitChar[(n % 10) + 1]
    <3>1. /\ m \in Nat /\ m < n /\ n % 10 \in 0 .. 9 /\ n = m * 10 + (n % 10) /\ m <= IntMax
      BY <2>2, LastDigit, WidthAssumption
    <3>2. c \in Digits /\ DigitOf(c) = n % 10
      BY <3>1, DigitFacts, DigitIs
    <3>3. Decimal[n] = Decimal[m] \o <<c>> /\ Decimal[m] \in Seq(Digits)
      BY <2>2, <3>1, DecimalDigits DEF Digit
    <3> HIDE DEF m, c
    <3>4. Value(Decimal[m] \o <<c>>) = AsInt(Value(Decimal[m]) * 10 + DigitOf(c))
      BY <3>2, <3>3, ValueGrows
    <3>5. Value(Decimal[m]) = AsInt(m)
      BY <1>1, <3>1, WidthAssumption
    <3>6. AsInt(m) = m
      BY <3>1, WidthAssumption DEF AsInt, IntRange
    <3> QED BY <3>1, <3>2, <3>3, <3>4, <3>5, <3>6
  <2> QED BY <2>1, <2>2
<1>2. ASSUME NEW n \in Nat PROVE n \in P
  <2> HIDE DEF P
  <2> QED BY <1>1, Induction
<1> QED BY <1>2, WidthAssumption

-----------------------------------------------------------------------------
(* Printing an int and reading it *)

\* r is the text s and then the text t.
Joins(r, s, t) ==
  /\ Len(r) = Len(s) + Len(t) /\ Len(s) \in Nat /\ Len(t) \in Nat
  /\ \A i \in 1 .. Len(s) : r[i] = s[i]
  /\ \A i \in 1 .. Len(t) : r[Len(s) + i] = t[i]

\* One text behind another.
LEMMA Joined ==
  ASSUME NEW A, NEW s \in Seq(A), NEW t \in Seq(A)
  PROVE  s \o t \in Seq(A) /\ Joins(s \o t, s, t)
<1>1. Len(s) \in Nat /\ Len(t) \in Nat
  OBVIOUS
<1>2. /\ s \o t \in Seq(A) /\ Len(s \o t) = Len(s) + Len(t)
      /\ \A i \in 1 .. Len(s) + Len(t) : (s \o t)[i] = IF i <= Len(s) THEN s[i] ELSE t[i - Len(s)]
  BY ConcatProperties
<1>3. ASSUME NEW i \in 1 .. Len(s) PROVE (s \o t)[i] = s[i]
  <2>1. i \in 1 .. Len(s) + Len(t) /\ i <= Len(s)
    BY <1>1
  <2> QED BY <1>2, <2>1
<1>4. ASSUME NEW i \in 1 .. Len(t) PROVE (s \o t)[Len(s) + i] = t[i]
  <2> DEFINE k == Len(s) + i
  <2>1. k \in 1 .. Len(s) + Len(t) /\ ~(k <= Len(s)) /\ k - Len(s) = i
    BY <1>1
  <2> HIDE DEF k
  <2>2. (s \o t)[k] = t[k - Len(s)]
    BY <1>2, <2>1
  <2> QED BY <2>1, <2>2 DEF k
<1> QED BY <1>1, <1>2, <1>3, <1>4 DEF Joins

\* The characters that replies are written with.
Written == Digits \cup {"-", "$", ":", "*", "cr", "nl", "ERR", "expected"}

\* An int is printed as its digits, behind a sign if it is negative.
LEMMA PrintedDigits ==
  ASSUME NEW x \in Int
  PROVE  /\ Printed(x) \in Seq(Digits \cup {"-"}) /\ Len(Printed(x)) \in Nat \ {0}
         /\ x >= 0 => Printed(x) = Decimal[x]
         /\ x < 0 => /\ Printed(x) = <<"-">> \o Decimal[-x]
                     /\ Len(Printed(x)) = Len(Decimal[-x]) + 1
<1> DEFINE A == Digits \cup {"-"}
<1>1. CASE x >= 0
  <2>1. Printed(x) = Decimal[x] /\ Decimal[x] \in Seq(Digits) /\ Len(Decimal[x]) \in Nat \ {0}
    BY <1>1, DecimalIsText DEF Printed
  <2>2. Decimal[x] \in Seq(A)
    BY <2>1, SeqMonotonic
  <2> QED BY <1>1, <2>1, <2>2
<1>2. CASE x < 0
  <2> DEFINE d == Decimal[-x]
             s == <<"-">>
  <2>1. -x \in Nat
    BY <1>2
  <2>2. d \in Seq(Digits) /\ Len(d) \in Nat \ {0}
    BY <2>1, DecimalIsText
  <2>3. d \in Seq(A) /\ s \in Seq(A) /\ Len(s) = 1
    BY <2>2, SeqMonotonic
  <2>4. Printed(x) = s \o d
    BY <1>2 DEF Printed
  <2> HIDE DEF d, s, A
  <2>5. s \o d \in Seq(A) /\ Len(s \o d) = Len(s) + Len(d)
    BY <2>3, ConcatProperties
  <2>6. Len(s \o d) = Len(d) + 1 /\ Len(s \o d) \in Nat \ {0}
    BY <2>2, <2>3, <2>5
  <2> QED BY <1>2, <2>4, <2>5, <2>6 DEF d, s, A
<1> QED BY <1>1, <1>2

\* A natural number is printed as its digits alone.
LEMMA PrintedNat ==
  ASSUME NEW x \in Nat
  PROVE  /\ Printed(x) = Decimal[x] /\ Decimal[x] \in Seq(Digits)
         /\ Len(Decimal[x]) \in Nat \ {0}
<1>1. x >= 0 /\ x \in Int /\ ~(x < 0)
  OBVIOUS
<1>2. Printed(x) = Decimal[x]
  BY <1>1 DEF Printed
<1> QED BY <1>2, DecimalIsText

\* strtoi reads what is printed, the least int too, whose digits wrap to it.
LEMMA PrintedReads ==
  ASSUME NEW x \in IntRange
  PROVE  strtoi(Printed(x)) = x
<1>1. x \in Int /\ IntMax \in Nat \ {0}
  BY WidthAssumption DEF IntRange
<1>2. CASE x >= 0
  <2> DEFINE d == Decimal[x]
  <2>1. d \in Seq(Digits) /\ Len(d) \in Nat \ {0} /\ Printed(x) = d
    BY <1>1, <1>2, PrintedNat
  <2>2. x \in 0 .. IntMax + 1 /\ AsInt(x) = x
    BY <1>1, <1>2 DEF IntRange, AsInt
  <2>3. Value(d) = x
    BY <2>2, DecimalReads
  <2> HIDE DEF d
  <2>4. d # <<>> /\ Head(d) \in Digits
    BY <2>1
  <2>5. Unsigned(d) = d
    BY <2>4, DigitFacts DEF Unsigned
  <2> QED BY <2>1, <2>3, <2>5 DEF strtoi
<1>3. CASE x < 0
  <2> DEFINE d == Decimal[-x]
             p == Printed(x)
             A == Digits \cup {"-"}
  <2>1. -x \in Nat /\ -x \in 0 .. IntMax + 1
    BY <1>1, <1>3 DEF IntRange
  <2>2. /\ d \in Seq(Digits) /\ Len(d) \in Nat \ {0}
        /\ p = <<"-">> \o d /\ p \in Seq(A) /\ Len(p) = Len(d) + 1
    BY <1>1, <1>3, <2>1, DecimalIsText, PrintedDigits
  <2>3. Value(d) = AsInt(-x)
    BY <2>1, DecimalReads
  <2> HIDE DEF d
  <2>4. d \in Seq(A)
    BY <2>2, SeqMonotonic
  <2>5. p[1] = "-" /\ \A i \in 1 .. Len(d) : p[i + 1] = d[i]
    <3> DEFINE s == <<"-">>
    <3>1. s \in Seq(A) /\ Len(s) = 1 /\ s[1] = "-" /\ 1 \in 1 .. 1
      OBVIOUS
    <3> HIDE DEF s, A
    <3>8. Joins(s \o d, s, d)
      BY <2>4, <3>1, Joined
    <3>2. /\ \A i \in 1 .. Len(s) : (s \o d)[i] = s[i]
          /\ \A i \in 1 .. Len(d) : (s \o d)[Len(s) + i] = d[i]
      BY <3>8 DEF Joins
    <3>3. \A i \in 1 .. Len(d) : (s \o d)[1 + i] = d[i]
      BY <3>1, <3>2
    <3>4. \A i \in 1 .. Len(d) : 1 + i = i + 1
      OBVIOUS
    <3>5. p = s \o d
      BY <2>2 DEF s
    <3> HIDE DEF p
    <3>6. \A i \in 1 .. Len(d) : p[i + 1] = d[i]
      BY <3>3, <3>4, <3>5
    <3>7. p[1] = "-"
      BY <3>1, <3>2, <3>5
    <3> QED BY <3>6, <3>7
  <2> HIDE DEF p, A
  <2>6. p # <<>> /\ Head(p) = "-"
    BY <2>2, <2>5
  <2>7. Unsigned(p) = d
    <3>1. /\ Tail(p) \in Seq(A) /\ Len(Tail(p)) = Len(p) - 1
          /\ \A i \in 1 .. Len(Tail(p)) : Tail(p)[i] = p[i + 1]
      BY <2>2, <2>6, HeadTailProperties
    <3>2. Len(Tail(p)) = Len(d)
      BY <2>2, <3>1
    <3>3. \A i \in 1 .. Len(Tail(p)) : Tail(p)[i] = d[i]
      BY <2>5, <3>1, <3>2
    <3>4. Tail(p) = d
      BY <2>4, <3>1, <3>2, <3>3, SeqEqual
    <3> QED BY <2>6, <3>4 DEF Unsigned
  <2>8. d # p
    BY <2>2
  <2>9. strtoi(p) = AsInt(-AsInt(-x))
    BY <2>3, <2>7, <2>8 DEF strtoi
  <2>10. AsInt(-AsInt(-x)) = x
    <3>1. CASE x = -IntMax - 1
      <4> DEFINE q == 2 * (IntMax + 1)
      <4>1. -x = IntMax + 1 /\ -x \notin IntRange /\ -x + IntMax + 1 = q /\ q \in Nat \ {0}
        BY <1>1, <3>1 DEF IntRange
      <4>2. AsInt(-x) = (q % q) - IntMax - 1
        BY <4>1 DEF AsInt
      <4> HIDE DEF q
      <4>3. q % q = 0
        BY <4>1
      <4>4. AsInt(-x) = x
        BY <1>1, <3>1, <4>2, <4>3
      <4> QED BY <4>4
    <3>2. CASE x # -IntMax - 1
      <4>1. -x \in IntRange /\ -(-x) = x
        BY <1>1, <1>3, <3>2 DEF IntRange
      <4>2. AsInt(-x) = -x /\ AsInt(x) = x
        BY <4>1 DEF AsInt
      <4> QED BY <4>1, <4>2
    <3> QED BY <3>1, <3>2
  <2> QED BY <2>9, <2>10 DEF p
<1> QED BY <1>1, <1>2, <1>3

\* The least int.
Least == -IntMax - 1

\* What a buffer that is sized by ndigits has to spare for the number: a digit
\* that a positive number does not need, nothing for the 0 that is not counted
\* or the sign, and too little for the least int.
LEMMA DigitsFit ==
  ASSUME NEW x \in Int, x >= Least
  PROVE  /\ ndigits(x) \in Nat
         /\ x # Least => ndigits(x) + 1 - Len(Printed(x)) \in {0, 1}
         /\ x = Least => ndigits(x) + 1 - Len(Printed(x)) = -Len(Decimal[IntMax + 1])
         /\ Len(Decimal[IntMax + 1]) \in Nat \ {0}
<1>1. IntMax \in Nat \ {0} /\ IntMax + 1 \in Nat /\ Least < 0 /\ Least \in Int
  BY WidthAssumption DEF Least
<1>2. Len(Decimal[IntMax + 1]) \in Nat \ {0}
  BY <1>1, DecimalIsText
<1>3. CASE x > 0
  <2>1. Len(Decimal[x]) \in Nat /\ Printed(x) = Decimal[x] /\ ndigits(x) = Len(Decimal[x])
    <3>1. x \in Nat /\ ~(x < 0)
      BY <1>3
    <3>2. ndigits(x) = Len(Decimal[x])
      BY <1>3, <3>1 DEF ndigits
    <3> QED BY <3>1, <3>2, PrintedNat
  <2> QED BY <1>1, <1>2, <1>3, <2>1
<1>4. CASE x = 0
  <2>1. Decimal[0] = Digit(0) /\ Len(Digit(0)) = 1
    <3>1. 0 \in Nat /\ 0 < 10
      OBVIOUS
    <3>2. Decimal[0] = Digit(0)
      BY <3>1, DecimalDigits, Zenon
    <3> QED BY <3>2 DEF Digit
  <2>2. Printed(x) = Decimal[0]
    BY <1>4, PrintedDigits
  <2>5. ndigits(x) = 0
    BY <1>4 DEF ndigits
  <2>3. Len(Printed(x)) = 1
    BY <2>1, <2>2
  <2>4. ndigits(x) + 1 - Len(Printed(x)) = 0 /\ x # Least
    <3>1. x # Least
      BY <1>1, <1>4
    <3>2. ndigits(x) + 1 - Len(Printed(x)) = 0
      BY <2>3, <2>5
    <3> QED BY <3>1, <3>2
  <2> QED BY <1>2, <2>4, <2>5
<1>5. CASE x < 0 /\ x # Least
  <2> DEFINE n == -x
  <2>1. n \in Nat /\ n > 0 /\ AsInt(n) = n
    BY <1>1, <1>5 DEF AsInt, IntRange, Least
  <2>2. Len(Decimal[n]) \in Nat /\ Len(Printed(x)) = Len(Decimal[n]) + 1
    BY <1>5, <2>1, DecimalIsText, PrintedDigits
  <2>3. ndigits(x) = Len(Decimal[n])
    BY <1>5, <2>1 DEF ndigits
  <2> QED BY <1>1, <1>2, <1>5, <2>2, <2>3
<1>6. CASE x = Least
  <2>1. -x = IntMax + 1 /\ AsInt(-x) = x
    <3> DEFINE q == 2 * (IntMax + 1)
    <3>1. -x = IntMax + 1 /\ -x \notin IntRange /\ -x + IntMax + 1 = q /\ q \in Nat \ {0}
      BY <1>1, <1>6 DEF IntRange, Least
    <3>2. AsInt(-x) = (q % q) - IntMax - 1
      BY <3>1 DEF AsInt
    <3> HIDE DEF q
    <3>3. q % q = 0
      BY <3>1
    <3> QED BY <1>1, <1>6, <3>1, <3>2, <3>3 DEF Least
  <2>2. ndigits(x) = 0
    BY <1>1, <1>6, <2>1 DEF ndigits
  <2>3. Len(Printed(x)) = Len(Decimal[IntMax + 1]) + 1
    BY <1>1, <1>6, <2>1, PrintedDigits
  <2> QED BY <1>1, <1>2, <1>6, <2>2, <2>3
<1> QED BY <1>1, <1>2, <1>3, <1>4, <1>5, <1>6

-----------------------------------------------------------------------------
(* Headers *)

\* The place where a character is first found.
LEMMA FirstFound ==
  ASSUME NEW A, NEW s \in Seq(A), NEW c, NEW k \in 1 .. Len(s), s[k] = c,
         \A i \in 1 .. k - 1 : s[i] # c
  PROVE  FirstOf(c, s) = k
<1> DEFINE I == {i \in 1 .. Len(s) : s[i] = c}
<1>1. Len(s) \in Nat /\ k \in I
  OBVIOUS
<1>2. \A i \in I : k <= i /\ i \in Nat
  <2> SUFFICES ASSUME NEW i \in 1 .. Len(s), s[i] = c, ~(k <= i) PROVE FALSE
    BY <1>1
  <2>1. i \in 1 .. k - 1
    BY <1>1
  <2> QED BY <2>1
<1>3. FirstOf(c, s) = IF I # {} THEN Min(I) ELSE 0
  BY DEF FirstOf, SelectInSeq
<1> HIDE DEF I
<1>4. Min(I) \in I /\ \A i \in I : Min(I) <= i
  BY <1>1, <1>2 DEF Min
<1>5. Min(I) = k
  <2>1. Min(I) <= k /\ k <= Min(I) /\ k \in Nat /\ Min(I) \in Nat
    BY <1>1, <1>2, <1>4
  <2> QED BY <2>1
<1> QED BY <1>1, <1>3, <1>5

\* A reply begins with the character of its kind and a number.
Header(c, x) == <<c>> \o Printed(x) \o CRLF

\* What a header consists of.
HeaderIs(h, c, x) ==
  /\ Len(h) = Len(Printed(x)) + 3 /\ Len(Printed(x)) \in Nat \ {0}
  /\ h[1] = c /\ h[Len(Printed(x)) + 2] = "cr" /\ h[Len(Printed(x)) + 3] = "nl"
  /\ \A i \in 1 .. Len(Printed(x)) : h[i + 1] = Printed(x)[i]

\* A header is a text of these.
LEMMA HeaderText ==
  ASSUME NEW A, Written \subseteq A, NEW c \in A, NEW x \in Int
  PROVE  Header(c, x) \in Seq(A) /\ HeaderIs(Header(c, x), c, x)
<1> DEFINE p == Printed(x)
           s == <<c>>
           z == CRLF
<1>1. s \in Seq(A) /\ Len(s) = 1 /\ s[1] = c
  OBVIOUS
<1>2. p \in Seq(A) /\ Len(p) \in Nat \ {0}
  <2>1. p \in Seq(Digits \cup {"-"}) /\ Len(p) \in Nat \ {0}
    BY PrintedDigits
  <2>2. Digits \cup {"-"} \subseteq A
    BY DEF Written
  <2> HIDE DEF p
  <2> QED BY <2>1, <2>2, SeqMonotonic
<1>3. z \in Seq(A) /\ Len(z) = 2 /\ z[1] = "cr" /\ z[2] = "nl"
  BY DEF CRLF, Written
<1> HIDE DEF p, s, z
<1>4. s \o p \in Seq(A) /\ Joins(s \o p, s, p)
  BY <1>1, <1>2, Joined
<1> DEFINE q == s \o p
<1>5. q \in Seq(A) /\ Joins(q, s, p)
  BY <1>4
<1> HIDE DEF q
<1>6. q \o z \in Seq(A) /\ Joins(q \o z, q, z)
  BY <1>3, <1>5, Joined
<1> DEFINE h == q \o z
<1>7. h \in Seq(A) /\ Joins(h, q, z)
  BY <1>6
<1> HIDE DEF h
<1>8. /\ Len(q) = Len(p) + 1 /\ q[1] = c
      /\ \A i \in 1 .. Len(p) : q[1 + i] = p[i]
  BY <1>1, <1>5 DEF Joins
<1>9. /\ Len(h) = Len(q) + 2
      /\ \A i \in 1 .. Len(q) : h[i] = q[i]
      /\ \A i \in 1 .. 2 : h[Len(q) + i] = z[i]
  BY <1>3, <1>7 DEF Joins
<1>10. Len(h) = Len(p) + 3 /\ h[1] = c
  <2>1. 1 \in 1 .. Len(q)
    BY <1>2, <1>8
  <2>2. Len(h) = Len(p) + 3
    BY <1>2, <1>8, <1>9
  <2> QED BY <1>8, <1>9, <2>1, <2>2
<1>11. h[Len(p) + 2] = "cr" /\ h[Len(p) + 3] = "nl"
  <2>1. h[Len(q) + 1] = "cr" /\ h[Len(q) + 2] = "nl"
    BY <1>3, <1>9
  <2>2. Len(q) + 1 = Len(p) + 2 /\ Len(q) + 2 = Len(p) + 3
    BY <1>2, <1>8
  <2> QED BY <2>1, <2>2
<1>12. ASSUME NEW i \in 1 .. Len(p) PROVE h[i + 1] = p[i]
  <2>1. i + 1 \in 1 .. Len(q) /\ 1 + i = i + 1
    BY <1>2, <1>8
  <2>2. h[i + 1] = q[i + 1]
    BY <1>9, <2>1
  <2>3. q[1 + i] = p[i]
    BY <1>8
  <2> QED BY <2>1, <2>2, <2>3
<1>13. Header(c, x) = h
  BY DEF Header, h, q, s, p, z
<1>14. HeaderIs(h, c, x)
  BY <1>2, <1>10, <1>11, <1>12 DEF HeaderIs, p
<1> QED BY <1>7, <1>13, <1>14

\* A printed number has no line end in it.
LEMMA NoLineEnd ==
  ASSUME NEW x \in Int, NEW i \in 1 .. Len(Printed(x))
  PROVE  Printed(x)[i] # "cr" /\ Printed(x)[i] # "nl"
<1>1. Printed(x) \in Seq(Digits \cup {"-"})
  BY PrintedDigits
<1>2. Printed(x)[i] \in Digits \cup {"-"}
  BY <1>1, ElementOfSeq
<1> QED BY <1>2, DigitFacts

\* How the client takes a reply apart.
Read(t, c, x, rest) ==
  /\ t # <<>> /\ Head(t) = c /\ t[1] = c
  /\ Len(t) = Len(Printed(x)) + 3 + Len(rest)
  /\ SubSeq(t, 2, FirstOf("cr", t) - 1) = Printed(x)
  /\ Body(t) = rest

\* It finds the number in the header, and what follows it.
LEMMA HeaderRead ==
  ASSUME NEW A, Written \subseteq A, NEW c \in A \ {"cr", "nl"}, NEW x \in Int,
         NEW rest \in Seq(A)
  PROVE  Header(c, x) \o rest \in Seq(A) /\ Read(Header(c, x) \o rest, c, x, rest)
<1> DEFINE h == Header(c, x)
           p == Printed(x)
           t == h \o rest
           n == Len(p)
           m == Len(rest)
<1>1. h \in Seq(A) /\ HeaderIs(h, c, x)
  BY HeaderText
<1>2. p \in Seq(A)
  <2>1. p \in Seq(Digits \cup {"-"})
    BY PrintedDigits
  <2>2. Digits \cup {"-"} \subseteq A
    BY DEF Written
  <2> HIDE DEF p
  <2> QED BY <2>1, <2>2, SeqMonotonic
<1>3. \A i \in 1 .. n : p[i] # "cr" /\ p[i] # "nl"
  BY NoLineEnd
<1> HIDE DEF h
<1>4. t \in Seq(A) /\ Joins(t, h, rest)
  BY <1>1, Joined
<1> HIDE DEF t
<1>5. /\ n \in Nat \ {0} /\ Len(h) = n + 3
      /\ h[1] = c /\ h[n + 2] = "cr" /\ h[n + 3] = "nl"
      /\ \A i \in 1 .. n : h[i + 1] = p[i]
  BY <1>1 DEF HeaderIs
<1>6. /\ m \in Nat /\ Len(t) = n + 3 + m
      /\ \A i \in 1 .. n + 3 : t[i] = h[i]
      /\ \A i \in 1 .. m : t[n + 3 + i] = rest[i]
  <2>1. /\ m \in Nat /\ Len(t) = Len(h) + m
        /\ \A i \in 1 .. Len(h) : t[i] = h[i]
        /\ \A i \in 1 .. m : t[Len(h) + i] = rest[i]
    BY <1>4 DEF Joins
  <2> HIDE DEF n, m
  <2> QED BY <1>5, <2>1
<1> HIDE DEF n, m, p
<1>7. t[1] = c /\ t[n + 2] = "cr" /\ t[n + 3] = "nl"
  <2>1. 1 \in 1 .. n + 3 /\ n + 2 \in 1 .. n + 3 /\ n + 3 \in 1 .. n + 3
    BY <1>5
  <2> QED BY <1>5, <1>6, <2>1
<1>8. \A i \in 1 .. n : t[i + 1] = p[i]
  <2> TAKE i \in 1 .. n
  <2>1. i + 1 \in 1 .. n + 3
    BY <1>5
  <2>2. t[i + 1] = h[i + 1]
    BY <1>6, <2>1
  <2> QED BY <1>5, <2>2
<1>9. ASSUME NEW i \in 1 .. n + 1 PROVE t[i] # "cr" /\ t[i] # "nl"
  <2>1. CASE i = 1
    BY <1>7, <2>1
  <2>2. CASE i # 1
    <3> DEFINE j == i - 1
    <3>1. j \in 1 .. n /\ j + 1 = i
      BY <1>5, <2>2
    <3> HIDE DEF j
    <3>2. t[j + 1] = p[j]
      BY <1>8, <3>1
    <3> QED BY <1>3, <3>1, <3>2
  <2> QED BY <2>1, <2>2
<1>10. FirstOf("cr", t) = n + 2
  <2> DEFINE k == n + 2
  <2>1. k \in 1 .. Len(t) /\ \A i \in 1 .. k - 1 : i \in 1 .. n + 1
    BY <1>5, <1>6
  <2>2. t[k] = "cr" /\ \A i \in 1 .. k - 1 : t[i] # "cr"
    BY <1>7, <1>9, <2>1
  <2> HIDE DEF k
  <2>3. FirstOf("cr", t) = k
    BY <1>4, <2>1, <2>2, FirstFound
  <2> QED BY <2>3 DEF k
<1>11. FirstOf("nl", t) = n + 3
  <2> DEFINE k == n + 3
  <2>1. k \in 1 .. Len(t) /\ \A i \in 1 .. k - 1 : i \in 1 .. n + 1 \/ i = n + 2
    BY <1>5, <1>6
  <2>2. t[k] = "nl" /\ \A i \in 1 .. k - 1 : t[i] # "nl"
    BY <1>7, <1>9, <2>1
  <2> HIDE DEF k
  <2>3. FirstOf("nl", t) = k
    BY <1>4, <2>1, <2>2, FirstFound
  <2> QED BY <2>3 DEF k
<1>12. SubSeq(t, 2, n + 1) = p
  <2> DEFINE e == n + 1
  <2>1. /\ e \in Int /\ e - 2 + 1 = n /\ 2 <= e
        /\ \A i \in 2 .. e : i \in 1 .. Len(t)
        /\ \A i \in 1 .. n : 2 + i - 1 = i + 1
    BY <1>5, <1>6
  <2> HIDE DEF e
  <2>2. \A i \in 2 .. e : t[i] \in A
    BY <1>4, <2>1
  <2>3. /\ SubSeq(t, 2, e) \in Seq(A)
        /\ Len(SubSeq(t, 2, e)) = IF 2 <= e THEN e - 2 + 1 ELSE 0
        /\ \A i \in 1 .. e - 2 + 1 : SubSeq(t, 2, e)[i] = t[2 + i - 1]
    BY <2>1, <2>2, SubSeqProperties
  <2>4. Len(SubSeq(t, 2, e)) = n /\ \A i \in 1 .. n : SubSeq(t, 2, e)[i] = t[2 + i - 1]
    BY <2>1, <2>3
  <2>5. \A i \in 1 .. n : SubSeq(t, 2, e)[i] = p[i]
    BY <1>8, <2>1, <2>4
  <2>6. n = Len(p)
    BY DEF n
  <2>7. SubSeq(t, 2, e) = p
    BY <1>2, <2>3, <2>4, <2>5, <2>6, SeqEqual
  <2> QED BY <2>7 DEF e
<1>13. SubSeq(t, n + 4, Len(t)) = rest
  <2> DEFINE b == n + 4
             e == Len(t)
             w == SubSeq(t, b, e)
  <2>1. /\ b \in Int /\ e \in Int /\ e - b + 1 = m
        /\ \A i \in b .. e : i \in 1 .. Len(t)
        /\ \A i \in 1 .. m : b + i - 1 = n + 3 + i
        /\ (IF b <= e THEN e - b + 1 ELSE 0) = m
    BY <1>5, <1>6
  <2> HIDE DEF b, e
  <2>2. \A i \in b .. e : t[i] \in A
    BY <1>4, <2>1
  <2>3. /\ SubSeq(t, b, e) \in Seq(A)
        /\ Len(SubSeq(t, b, e)) = IF b <= e THEN e - b + 1 ELSE 0
        /\ \A i \in 1 .. e - b + 1 : SubSeq(t, b, e)[i] = t[b + i - 1]
    BY <2>1, <2>2, SubSeqProperties
  <2>4. Len(w) = m /\ \A i \in 1 .. m : w[i] = t[b + i - 1]
    BY <2>1, <2>3
  <2> HIDE DEF w
  <2>5. \A i \in 1 .. m : w[i] = rest[i]
    BY <1>6, <2>1, <2>4
  <2>6. m = Len(rest)
    BY DEF m
  <2>7. w \in Seq(A)
    BY <2>3 DEF w
  <2>8. w = rest
    BY <2>4, <2>5, <2>6, <2>7, SeqEqual
  <2> QED BY <2>8 DEF w, b, e
<1>14. t # <<>> /\ Head(t) = c
  <2>1. Len(t) # 0
    BY <1>5, <1>6
  <2> QED BY <1>4, <1>7, <2>1
<1>15. n + 2 - 1 = n + 1 /\ n + 3 + 1 = n + 4
  BY <1>5
<1>16. SubSeq(t, 2, FirstOf("cr", t) - 1) = p
  <2>1. FirstOf("cr", t) - 1 = n + 1
    BY <1>5, <1>10
  <2> QED BY <1>12, <2>1, Zenon
<1>17. Body(t) = rest
  BY <1>11, <1>13, <1>15 DEF Body
<1>18. Read(t, c, x, rest)
  BY <1>6, <1>7, <1>14, <1>16, <1>17 DEF Read, n, m, p
<1> QED BY <1>4, <1>18 DEF t, h

\* parse_int finds an int.
LEMMA IntRead ==
  ASSUME NEW t, NEW c, NEW x \in IntRange, NEW rest, Read(t, c, x, rest)
  PROVE  parse_int(t) = x
BY PrintedReads DEF Read, parse_int

-----------------------------------------------------------------------------
(* Buffers *)

\* Texts one behind the other are a text.
LEMMA Flattened ==
  ASSUME NEW A, NEW ts \in Seq(Seq(A))
  PROVE  FlattenSeq(ts) \in Seq(A)
<1> DEFINE n == Len(ts)
           B == Seq(A)
           Solves(f) == f = [i \in 1 .. n |-> IF i = 1 THEN ts[i] ELSE f[i - 1] \o ts[i]]
<1>1. n \in Nat /\ \A i \in 1 .. n : ts[i] \in B
  OBVIOUS
<1>2. CASE n = 0
  <2>1. ts = <<>>
    BY <1>2
  <2>2. FlattenSeq(ts) = ts
    BY <1>2, Zenon DEF FlattenSeq
  <2>3. <<>> \in Seq(A)
    OBVIOUS
  <2> QED BY <2>1, <2>2, <2>3, Zenon
<1>3. CASE n # 0
  <2> DEFINE m == n - 1
             step == [i \in 1 .. m |-> [t \in B |-> t \o ts[i + 1]]]
  <2>1. m \in Nat /\ m + 1 = n /\ ts[1] \in B /\ \A i \in 1 .. m : i + 1 \in 1 .. n
    BY <1>1, <1>3
  <2>2. Steps(step, m, B)
    <3>1. ASSUME NEW i \in 1 .. m, NEW t \in B PROVE t \o ts[i + 1] \in B
      <4>1. ts[i + 1] \in B
        BY <1>1, <2>1
      <4> QED BY <4>1, ConcatProperties
    <3> HIDE DEF B, m
    <3> QED BY <3>1 DEF Steps
  <2>3. PICK g : Made(g, step, m, B, ts[1])
    <3> HIDE DEF B, m, step, n
    <3> QED BY <2>1, <2>2, Iterates
  <2> DEFINE f == [i \in 1 .. n |-> g[i - 1]]
  <2>4. ASSUME NEW i \in 1 .. n PROVE f[i] = IF i = 1 THEN ts[i] ELSE f[i - 1] \o ts[i]
    <3>1. f[i] = g[i - 1]
      OBVIOUS
    <3>2. CASE i = 1
      <4>1. g[0] = ts[1] /\ i - 1 = 0
        BY <2>3, <3>2 DEF Made
      <4> QED BY <3>1, <3>2, <4>1
    <3>3. CASE i # 1
      <4> DEFINE j == i - 1
      <4>1. j \in 1 .. m /\ j \in 1 .. n /\ j + 1 = i
        BY <1>1, <3>3
      <4>2. f[j] = g[j - 1]
        BY <4>1
      <4> HIDE DEF f, j
      <4>3. g[j] = step[j][g[j - 1]] /\ g[j - 1] \in B
        <5>1. j - 1 \in 0 .. m
          BY <2>1, <4>1
        <5> HIDE DEF m, B, step
        <5> QED BY <2>3, <4>1, <5>1 DEF Made
      <4>4. step[j][g[j - 1]] = g[j - 1] \o ts[j + 1]
        BY <4>1, <4>3
      <4>5. f[i] = f[j] \o ts[i]
        BY <3>1, <4>1, <4>2, <4>3, <4>4 DEF j
      <4> QED BY <3>3, <4>5 DEF j
    <3> QED BY <3>2, <3>3
  <2>5. Solves(f)
    <3>1. f = [i \in 1 .. n |-> f[i]]
      OBVIOUS
    <3> HIDE DEF f, n
    <3> QED BY <2>4, <3>1
  <2> DEFINE v == CHOOSE h : Solves(h)
  <2>6. FlattenSeq(ts) = v[n]
    BY <1>3 DEF FlattenSeq
  <2>7. Solves(v)
    <3> HIDE DEF Solves
    <3> QED BY <2>5, Zenon
  <2> HIDE DEF v
  <2>8. ASSUME NEW i \in 1 .. n
        PROVE  /\ i = 1 => v[i] = ts[i]
               /\ i # 1 => v[i] = v[i - 1] \o ts[i]
    <3>1. v[i] = IF i = 1 THEN ts[i] ELSE v[i - 1] \o ts[i]
      BY <2>7
    <3> QED BY <3>1, Zenon
  <2> DEFINE P == {i \in Nat : i \in 1 .. n => v[i] \in B}
  <2>9. ASSUME NEW i \in Nat, \A j \in Nat : j < i => j \in P
        PROVE  i \in P
    <3> SUFFICES ASSUME i \in 1 .. n PROVE v[i] \in B
      OBVIOUS
    <3>1. CASE i = 1
      BY <1>1, <2>8, <3>1
    <3>2. CASE i # 1
      <4>1. i - 1 \in Nat /\ i - 1 < i /\ i - 1 \in 1 .. n
        BY <1>1, <3>2
      <4>2. v[i - 1] \in B /\ ts[i] \in B
        BY <1>1, <2>9, <4>1
      <4>3. v[i - 1] \o ts[i] \in B
        BY <4>2, ConcatProperties
      <4>4. v[i] = v[i - 1] \o ts[i]
        BY <2>8, <3>2
      <4> HIDE DEF B
      <4> QED BY <4>3, <4>4
    <3> QED BY <3>1, <3>2
  <2>10. n \in P
    <3>1. n \in Nat
      BY <1>1
    <3> HIDE DEF P, n
    <3> QED BY <2>9, <3>1, Induction
  <2>11. v[n] \in B
    BY <1>1, <1>3, <2>10
  <2> QED BY <2>6, <2>11
<1> QED BY <1>2, <1>3

\* A set of ints that has a bound has a least one.
LEMMA MinExists ==
  ASSUME NEW S, S # {}, NEW d \in Nat, \A x \in S : x \in Int /\ -d <= x
  PROVE  Min(S) \in S /\ \A x \in S : Min(S) <= x
<1> DEFINE T == {x + d : x \in S}
<1>1. T \in SUBSET Nat /\ T # {}
  OBVIOUS
<1>2. PICK m \in T : \A y \in T : m <= y
  <2> HIDE DEF T
  <2> QED BY <1>1, LeastExists
<1>3. PICK x \in S : m = x + d
  BY <1>2
<1>4. \A y \in S : x <= y
  BY <1>2, <1>3
<1> QED BY <1>3, <1>4 DEF Min

\* A buffer has room for its text, or is for the least int.
Spare(b, fits) ==
  /\ b.spare \in Int /\ -Len(Decimal[IntMax + 1]) <= b.spare
  /\ b.spare < 0 <=> ~fits

\* A buffer with as many bytes as its header and the rest need, by ndigits.
LEMMA SizedByDigits ==
  ASSUME NEW x \in Int, x >= Least, NEW n \in Nat, NEW t, NEW size,
         Len(t) = Len(Printed(x)) + n, size = ndigits(x) + n + 2
  PROVE  Spare(Buffer(size, t), x # Least)
<1> DEFINE p == Len(Printed(x))
           k == ndigits(x)
           d == Len(Decimal[IntMax + 1])
           s == Buffer(size, t).spare
<1>1. /\ k \in Nat /\ d \in Nat \ {0}
      /\ x # Least => k + 1 - p \in {0, 1}
      /\ x = Least => k + 1 - p = -d
  BY DigitsFit
<1>2. p \in Nat
  BY PrintedDigits
<1>3. s = size - Len(t) - 1
  BY DEF Buffer
<1>4. Len(t) = p + n /\ size = k + n + 2
  OBVIOUS
<1> HIDE DEF p, k, d, s
<1>5. s = k + 1 - p /\ s \in Int
  BY <1>1, <1>2, <1>3, <1>4
<1>6. CASE x # Least
  <2>1. s \in {0, 1}
    BY <1>1, <1>5, <1>6
  <2>2. -d <= s /\ ~(s < 0)
    BY <1>1, <2>1
  <2> QED BY <1>5, <1>6, <2>2 DEF Spare, s, d
<1>7. CASE x = Least
  <2>1. s = -d
    BY <1>1, <1>5, <1>7
  <2>2. -d <= s /\ s < 0
    BY <1>1, <2>1
  <2> QED BY <1>5, <1>7, <2>2 DEF Spare, s, d
<1> QED BY <1>6, <1>7

\* What is known of a reply that begins with a header.
Headed(b, A, c, x, rest) == b.text \in Seq(A) /\ Read(b.text, c, x, rest)

\* The reply to an integer command.
LEMMA IntegerReply ==
  ASSUME NEW A, Written \subseteq A, NEW x \in IntRange
  PROVE  /\ Headed(reply_integer(x), A, ":", x, <<>>)
         /\ Spare(reply_integer(x), x # Least)
<1> DEFINE h == Header(":", x)
<1>1. x \in Int /\ x >= Least
  BY WidthAssumption DEF IntRange, Least
<1>2. ":" \in A \ {"cr", "nl"}
  BY DEF Written
<1>3. h \in Seq(A) /\ HeaderIs(h, ":", x)
  BY <1>1, <1>2, HeaderText
<1>4. <<>> \in Seq(A)
  OBVIOUS
<1>5. Read(h \o <<>>, ":", x, <<>>)
  BY <1>1, <1>2, <1>4, HeaderRead
<1>6. h \o <<>> = h
  <2> HIDE DEF h
  <2> QED BY <1>3, ConcatEmptySeq
<1>7. reply_integer(x) = Buffer(ndigits(x) + 5, h)
  BY DEF reply_integer, Header
<1>8. Buffer(ndigits(x) + 5, h).text = h
  BY DEF Buffer
<1> HIDE DEF h
<1>9. Headed(reply_integer(x), A, ":", x, <<>>)
  BY <1>3, <1>5, <1>6, <1>7, <1>8 DEF Headed
<1>10. Len(h) = Len(Printed(x)) + 3
  BY <1>3 DEF HeaderIs
<1>11. ndigits(x) + 5 = ndigits(x) + 3 + 2
  BY <1>1, DigitsFit
<1>12. Spare(Buffer(ndigits(x) + 5, h), x # Least)
  BY <1>1, <1>10, <1>11, SizedByDigits
<1> QED BY <1>7, <1>9, <1>12

\* The line end.
LEMMA LineEnd ==
  ASSUME NEW A, Written \subseteq A
  PROVE  CRLF \in Seq(A) /\ Len(CRLF) = 2
BY DEF CRLF, Written

\* The reply to a string command.
LEMMA TextReply ==
  ASSUME NEW A, Written \subseteq A, NEW s \in Seq(A), s # NULL
  PROVE  /\ Headed(reply_string(s), A, "$", Len(s), s \o CRLF)
         /\ Spare(reply_string(s), TRUE)
         /\ Len(reply_string(s).text) = Len(Printed(Len(s))) + Len(s) + 5
<1> DEFINE n == Len(s)
           h == Header("$", n)
           z == CRLF
           t == (h \o s) \o z
           size == n + ndigits(n) + 7
<1>1. n \in Nat /\ n \in Int /\ n >= Least /\ n # Least
  BY WidthAssumption DEF Least
<1>2. "$" \in A \ {"cr", "nl"}
  BY DEF Written
<1>3. z \in Seq(A) /\ Len(z) = 2
  BY LineEnd
<1>4. reply_string(s) = Buffer(size, t)
  BY DEF reply_string, Header
<1>5. ndigits(n) \in Nat /\ Len(Printed(n)) \in Nat
  BY <1>1, DigitsFit, PrintedDigits
<1> HIDE DEF n
<1>6. h \in Seq(A) /\ HeaderIs(h, "$", n)
  BY <1>1, <1>2, HeaderText
<1> HIDE DEF h, z
<1>7. s \o z \in Seq(A) /\ Joins(s \o z, s, z)
  BY <1>3, Joined
<1>8. h \o (s \o z) \in Seq(A) /\ Read(h \o (s \o z), "$", n, s \o z)
  <2> DEFINE rest == s \o z
  <2>1. rest \in Seq(A)
    BY <1>7
  <2> HIDE DEF rest
  <2>2. Header("$", n) \o rest \in Seq(A) /\ Read(Header("$", n) \o rest, "$", n, rest)
    BY <1>1, <1>2, <2>1, HeaderRead
  <2> QED BY <2>2 DEF h, rest
<1>9. t = h \o (s \o z)
  BY <1>3, <1>6, ConcatAssociative
<1>10. Buffer(size, t).text = t
  BY DEF Buffer
<1> HIDE DEF t
<1>11. Headed(reply_string(s), A, "$", n, s \o z)
  BY <1>4, <1>8, <1>9, <1>10 DEF Headed
<1>12. Len(t) = Len(Printed(n)) + n + 5
  <2>1. Len(s \o z) = n + 2
    BY <1>3, <1>7 DEF Joins, n
  <2>2. Len(t) = Len(Printed(n)) + 3 + Len(s \o z)
    BY <1>8, <1>9 DEF Read
  <2> QED BY <1>1, <1>5, <2>1, <2>2
<1>13. size = ndigits(n) + (n + 5) + 2 /\ Len(t) = Len(Printed(n)) + (n + 5) /\ n + 5 \in Nat
  BY <1>1, <1>5, <1>12
<1> HIDE DEF size
<1>14. Spare(Buffer(size, t), n # Least)
  <2> DEFINE k == n + 5
  <2>1. k \in Nat /\ size = ndigits(n) + k + 2 /\ Len(t) = Len(Printed(n)) + k
    BY <1>13
  <2> HIDE DEF k
  <2> QED BY <1>1, <2>1, SizedByDigits
<1>15. Spare(reply_string(s), TRUE)
  BY <1>1, <1>4, <1>14 DEF Spare
<1>16. Len(reply_string(s).text) = Len(Printed(n)) + n + 5
  BY <1>4, <1>10, <1>12
<1> QED BY <1>11, <1>15, <1>16 DEF n, z

\* A text and its NUL fit a buffer that is made for them.
LEMMA CopyFits ==
  ASSUME NEW A, NEW t \in Seq(A)
  PROVE  Copy(t).text = t /\ Spare(Copy(t), TRUE)
<1>1. Copy(t).text = t /\ Copy(t).spare = Len(t) + 1 - Len(t) - 1
  BY DEF Copy, Buffer
<1>2. Len(t) \in Nat
  OBVIOUS
<1>3. Len(t) + 1 - Len(t) - 1 = 0
  BY <1>2
<1>4. Len(Decimal[IntMax + 1]) \in Nat
  BY WidthAssumption, DecimalIsText
<1>5. Copy(t).spare = 0
  BY <1>1, <1>3
<1>6. -Len(Decimal[IntMax + 1]) <= 0
  BY <1>4
<1> QED BY <1>1, <1>5, <1>6 DEF Spare

\* The reply where there is no string.
LEMMA NilReply ==
  ASSUME NEW A, Written \subseteq A
  PROVE  /\ Headed(reply_string(NULL), A, "$", -1, <<>>)
         /\ Spare(reply_string(NULL), TRUE)
<1> DEFINE h == Header("$", -1)
           d == <<"$">>
           p == <<"-", "1">>
           r == <<"$", "-", "1">>
<1>1. "$" \in A \ {"cr", "nl"} /\ -1 \in Int
  BY DEF Written
<1>2. h \in Seq(A) /\ HeaderIs(h, "$", -1)
  BY <1>1, HeaderText
<1>3. <<>> \in Seq(A)
  OBVIOUS
<1>4. Read(h \o <<>>, "$", -1, <<>>)
  BY <1>1, <1>3, HeaderRead
<1>5. h \o <<>> = h
  <2> HIDE DEF h
  <2> QED BY <1>2, ConcatEmptySeq
<1>6. Printed(-1) = p
  <2>1. 1 \in Nat /\ 1 < 10
    OBVIOUS
  <2>2. Decimal[1] = Digit(1)
    BY <2>1, DecimalDigits, Zenon
  <2>3. Digit(1) = <<"1">>
    BY DEF Digit, DigitChar
  <2> DEFINE x == -1
  <2>7. x \in Int /\ x + 1 = 0
    OBVIOUS
  <2> HIDE DEF x
  <2>4. x \in Int /\ x < 0 /\ -x = 1
    BY <2>7
  <2>6. Printed(x) = <<"-">> \o Decimal[-x]
    BY <2>4 DEF Printed
  <2>5. Printed(x) = <<"-">> \o <<"1">>
    BY <2>2, <2>3, <2>4, <2>6, Zenon
  <2> USE DEF x
  <2> QED BY <2>5
<1>7. d \o p = r
  <2>1. d \in Seq(A) /\ p \in Seq(A) /\ r \in Seq(A)
    BY DEF Written, Digits, DigitChar
  <2>2. /\ Len(d) = 1 /\ Len(p) = 2 /\ Len(r) = 3 /\ d[1] = r[1]
        /\ p[1] = r[2] /\ p[2] = r[3]
    OBVIOUS
  <2> HIDE DEF d, p, r
  <2>3. d \o p \in Seq(A) /\ Joins(d \o p, d, p)
    BY <2>1, Joined
  <2>4. /\ Len(d \o p) = 3 /\ (d \o p)[1] = r[1]
        /\ (d \o p)[1 + 1] = r[2] /\ (d \o p)[1 + 2] = r[3]
    BY <2>2, <2>3 DEF Joins
  <2>5. \A i \in 1 .. 3 : i = 1 \/ i = 1 + 1 \/ i = 1 + 2
    OBVIOUS
  <2>6. \A i \in 1 .. 3 : (d \o p)[i] = r[i]
    BY <2>4, <2>5
  <2> QED BY <2>1, <2>2, <2>3, <2>4, <2>6, SeqEqual
<1>8. reply_string(NULL) = Copy(h)
  BY <1>6, <1>7 DEF reply_string, Header
<1> HIDE DEF h
<1>9. Copy(h).text = h /\ Spare(Copy(h), TRUE)
  BY <1>2, CopyFits
<1> QED BY <1>2, <1>4, <1>5, <1>8, <1>9 DEF Headed

\* What strtoi returns is an int.
LEMMA StringsAreInts ==
  ASSUME NEW A, NEW s \in Seq(A)
  PROVE  strtoi(s) \in IntRange
<1> DEFINE u == Unsigned(s)
<1>1. u \in Seq(A)
  <2>1. CASE s # <<>> /\ Head(s) = "-"
    <3>1. Tail(s) \in Seq(A)
      BY <2>1, HeadTailProperties
    <3> QED BY <2>1, <3>1 DEF Unsigned
  <2>2. CASE ~(s # <<>> /\ Head(s) = "-")
    BY <2>2 DEF Unsigned
  <2> QED BY <2>1, <2>2
<1> HIDE DEF u
<1>2. PICK v : Runs(v, u) /\ Value(u) = v[Len(u)]
  BY <1>1, ValueRuns
<1>3. Len(u) \in 0 .. Len(u)
  BY <1>1
<1>4. Value(u) \in IntRange
  BY <1>2, <1>3 DEF Runs
<1>5. Value(u) \in Int /\ -Value(u) \in Int
  BY <1>4, WidthAssumption DEF IntRange
<1>6. AsInt(-Value(u)) \in IntRange
  BY <1>5, IntStays
<1> QED BY <1>4, <1>6 DEF strtoi, u

\* A string that an array has an integer for, and that is the least int.
ReadsLeast(str) == str # NULL /\ is_number(str) /\ strtoi(str) = Least

\* The reply to an element of an array.
LEMMA ElementReply ==
  ASSUME NEW A, Written \subseteq A, NEW s \in Seq(A)
  PROVE  element(s).text \in Seq(A) /\ Spare(element(s), ~ReadsLeast(s))
<1>1. CASE s # NULL /\ is_number(s)
  <2> DEFINE x == strtoi(s)
  <2>1. x \in IntRange
    BY StringsAreInts
  <2>2. element(s) = reply_integer(x)
    BY <1>1 DEF element
  <2>3. ReadsLeast(s) <=> x = Least
    BY <1>1 DEF ReadsLeast
  <2> HIDE DEF x
  <2>4. reply_integer(x).text \in Seq(A) /\ Spare(reply_integer(x), x # Least)
    BY <2>1, IntegerReply DEF Headed
  <2>5. element(s).text \in Seq(A) /\ Spare(element(s), x # Least)
    BY <2>2, <2>4
  <2> QED BY <2>3, <2>5 DEF Spare
<1>2. CASE ~(s # NULL /\ is_number(s))
  <2>1. element(s) = reply_string(s) /\ ~ReadsLeast(s)
    BY <1>2 DEF element, ReadsLeast
  <2>2. reply_string(s).text \in Seq(A) /\ Spare(reply_string(s), TRUE)
    <3>1. CASE s = NULL
      <4>1. Headed(reply_string(NULL), A, "$", -1, <<>>) /\ Spare(reply_string(NULL), TRUE)
        BY NilReply
      <4> QED BY <3>1, <4>1 DEF Headed
    <3>2. CASE s # NULL
      <4>1. Headed(reply_string(s), A, "$", Len(s), s \o CRLF) /\ Spare(reply_string(s), TRUE)
        BY <3>2, TextReply
      <4> QED BY <4>1 DEF Headed
    <3> QED BY <3>1, <3>2
  <2>3. element(s).text \in Seq(A) /\ Spare(element(s), TRUE)
    BY <2>1, <2>2
  <2> QED BY <2>1, <2>3 DEF Spare
<1> QED BY <1>1, <1>2

\* The reply to a command that answers an array: none of its parts has too small
\* a buffer but that of the least int.
LEMMA ArrayReply ==
  ASSUME NEW A, Written \subseteq A, NEW arr \in Seq(Seq(A))
  PROVE  /\ \E rest : Headed(reply_array_n(arr), A, "*", Len(arr), rest)
         /\ reply_array_n(arr).spare < 0 <=> \E i \in DOMAIN arr : ReadsLeast(arr[i])
<1> DEFINE n == Len(arr)
           h == Header("*", n)
           header == Buffer(ndigits(n) + 5, h)
           elements == [i \in DOMAIN arr |-> element(arr[i])]
           texts == [i \in DOMAIN arr |-> elements[i].text]
           S == {header.spare} \cup {elements[i].spare : i \in DOMAIN arr}
           b == [text |-> header.text \o FlattenSeq(texts), spare |-> Min(S)]
           d == Len(Decimal[IntMax + 1])
<1>1. n \in Nat /\ n \in Int /\ n >= Least /\ n # Least
  BY WidthAssumption DEF Least
<1>2. "*" \in A \ {"cr", "nl"}
  BY DEF Written
<1>3. h \in Seq(A) /\ HeaderIs(h, "*", n)
  <2> HIDE DEF n
  <2> QED BY <1>1, <1>2, HeaderText
<1>4. reply_array_n(arr) = b
  BY DEF reply_array_n, Header
<1>5. d \in Nat
  BY WidthAssumption, DecimalIsText
<1>6. DOMAIN arr = 1 .. n /\ \A i \in 1 .. n : arr[i] \in Seq(A)
  OBVIOUS
<1>7. Spare(header, TRUE)
  <2>1. Len(h) = Len(Printed(n)) + 3
    BY <1>3 DEF HeaderIs
  <2>2. ndigits(n) + 5 = ndigits(n) + 3 + 2
    BY <1>1, DigitsFit
  <2> DEFINE size == ndigits(n) + 5
  <2>3. size = ndigits(n) + 3 + 2
    BY <2>2
  <2> HIDE DEF size, n, h
  <2>4. Spare(Buffer(size, h), n # Least)
    BY <1>1, <2>1, <2>3, SizedByDigits
  <2>5. Spare(Buffer(size, h), TRUE)
    BY <1>1, <2>4 DEF Spare
  <2> QED BY <2>5 DEF size
<1>8. ASSUME NEW i \in 1 .. n
      PROVE  /\ elements[i] = element(arr[i])
             /\ elements[i].text \in Seq(A) /\ Spare(elements[i], ~ReadsLeast(arr[i]))
  <2>1. elements[i] = element(arr[i])
    BY <1>6
  <2>2. element(arr[i]).text \in Seq(A) /\ Spare(element(arr[i]), ~ReadsLeast(arr[i]))
    BY <1>6, ElementReply
  <2> HIDE DEF elements
  <2> QED BY <2>1, <2>2
<1> HIDE DEF elements
<1>9. texts \in Seq(Seq(A))
  <2>1. texts \in [1 .. n -> Seq(A)]
    BY <1>6, <1>8
  <2> HIDE DEF texts, n
  <2> QED BY <1>1, <2>1, FunctionIsSeq
<1> HIDE DEF texts
<1>10. \E rest : Headed(b, A, "*", n, rest)
  <2> DEFINE rest == FlattenSeq(texts)
  <2>1. rest \in Seq(A)
    BY <1>9, Flattened
  <2>2. b.text = h \o rest
    BY DEF Buffer
  <2> HIDE DEF rest, b
  <2>3. Header("*", n) \o rest \in Seq(A) /\ Read(Header("*", n) \o rest, "*", n, rest)
    <3> HIDE DEF n
    <3> QED BY <1>1, <1>2, <2>1, HeaderRead
  <2>4. Headed(b, A, "*", n, rest)
    BY <2>2, <2>3 DEF Headed
  <2> QED BY <2>4
<1> HIDE DEF header, d, n
<1>11. \A x \in S : x \in Int /\ -d <= x
  <2>1. header.spare \in Int /\ -d <= header.spare
    BY <1>7 DEF Spare, d
  <2>2. \A i \in 1 .. n : elements[i].spare \in Int /\ -d <= elements[i].spare
    BY <1>8 DEF Spare, d
  <2> QED BY <1>6, <2>1, <2>2
<1>12. Min(S) \in S /\ \A x \in S : Min(S) <= x
  <2>1. S # {}
    OBVIOUS
  <2> HIDE DEF S
  <2> QED BY <1>5, <1>11, <2>1, MinExists
<1>13. b.spare = Min(S)
  OBVIOUS
<1> DEFINE m == Min(S)
<1>14. m \in S /\ \A x \in S : m <= x
  BY <1>12
<1>15. ~(header.spare < 0)
  BY <1>7 DEF Spare
<1>16. \A i \in 1 .. n : elements[i].spare < 0 <=> ReadsLeast(arr[i])
  BY <1>8 DEF Spare
<1> HIDE DEF m, b
<1>17. m < 0 => \E i \in DOMAIN arr : ReadsLeast(arr[i])
  <2> HAVE m < 0
  <2>1. PICK i \in DOMAIN arr : m = elements[i].spare
    BY <1>14, <1>15
  <2> QED BY <1>6, <1>16, <2>1
<1>18. (\E i \in DOMAIN arr : ReadsLeast(arr[i])) => m < 0
  <2> SUFFICES ASSUME NEW i \in DOMAIN arr, ReadsLeast(arr[i]) PROVE m < 0
    OBVIOUS
  <2>1. elements[i].spare < 0 /\ elements[i].spare \in S
    BY <1>6, <1>16
  <2>2. elements[i].spare \in Int /\ m \in Int /\ m <= elements[i].spare
    BY <1>11, <1>14, <2>1
  <2> QED BY <2>1, <2>2
<1>19. b.spare < 0 <=> \E i \in DOMAIN arr : ReadsLeast(arr[i])
  BY <1>13, <1>17, <1>18 DEF m
<1> QED BY <1>4, <1>10, <1>19 DEF n

\* What is known of an error message.
ErrorText(b, A) ==
  /\ b.text \in Seq(A) /\ Len(b.text) \in Nat /\ Len(b.text) >= 4
  /\ b.text # <<>> /\ Head(b.text) = "-" /\ Spare(b, TRUE)

\* The message that has no number in it.
LEMMA PlainError ==
  ASSUME NEW A, Written \subseteq A
  PROVE  ErrorText(reply_err, A) /\ Len(reply_err.text) = 4
<1> DEFINE s == <<"-", "ERR">>
           z == CRLF
<1>1. s \in Seq(A) /\ Len(s) = 2 /\ s[1] = "-"
  BY DEF Written
<1>2. z \in Seq(A) /\ Len(z) = 2
  BY LineEnd
<1>3. reply_err = Copy(s \o z)
  BY DEF reply_err
<1> HIDE DEF s, z
<1>4. s \o z \in Seq(A) /\ Joins(s \o z, s, z)
  BY <1>1, <1>2, Joined
<1> DEFINE t == s \o z
<1>5. t \in Seq(A) /\ Len(t) = 4 /\ t[1] = "-"
  BY <1>1, <1>2, <1>4 DEF Joins
<1> HIDE DEF t
<1>6. t # <<>> /\ Head(t) = "-"
  <2>1. t # <<>>
    <3>1. Len(<<>>) = 0 /\ Len(t) = 4 /\ 0 # 4
      BY <1>5
    <3> QED BY <3>1, Zenon
  <2>2. t \in Seq(A)
    BY <1>5
  <2>3. Head(t) = t[1]
    BY <2>1, <2>2
  <2> QED BY <1>5, <2>1, <2>3, Zenon
<1>7. Copy(t).text = t /\ Spare(Copy(t), TRUE)
  BY <1>5, CopyFits
<1>8. Len(t) \in Nat /\ Len(t) >= 4
  BY <1>5
<1> QED BY <1>3, <1>5, <1>6, <1>7, <1>8 DEF ErrorText, t

\* The message that says how many arguments were given.
LEMMA CountError ==
  ASSUME NEW A, Written \subseteq A, NEW g \in Nat
  PROVE  LET b == reply_err_argc(g, <<"expected">>) IN
         ErrorText(b, A) /\ Len(b.text) = Len(Printed(g)) + 5
<1> DEFINE s == <<"-", "ERR">>
           p == Printed(g)
           x == <<"expected">>
           z == CRLF
           b == reply_err_argc(g, x)
           fixed == Len(s \o z)
           size == ndigits(g) + Len(x) + fixed + 2
           t == s \o p \o x \o z
<1>1. /\ s \in Seq(A) /\ Len(s) = 2 /\ s[1] = "-"
      /\ x \in Seq(A) /\ Len(x) = 1
  BY DEF Written
<1>2. z \in Seq(A) /\ Len(z) = 2
  BY LineEnd
<1>3. p \in Seq(A) /\ Len(p) \in Nat \ {0}
  <2>1. p \in Seq(Digits \cup {"-"}) /\ Len(p) \in Nat \ {0}
    <3>1. g \in Int
      OBVIOUS
    <3> QED BY <3>1, PrintedDigits, Zenon
  <2>2. Digits \cup {"-"} \subseteq A
    BY DEF Written
  <2> HIDE DEF p
  <2> QED BY <2>1, <2>2, SeqMonotonic
<1>4. b = Buffer(size, t)
  BY DEF reply_err_argc
<1>5. g \in Int /\ g >= Least /\ g # Least
  BY WidthAssumption DEF Least
<1>6. ndigits(g) \in Nat
  BY <1>5, DigitsFit
<1> HIDE DEF s, x, z
<1>7. fixed = 4
  <2>1. Joins(s \o z, s, z)
    BY <1>1, <1>2, Joined
  <2> QED BY <1>1, <1>2, <2>1 DEF Joins
<1> HIDE DEF fixed, p
<1>8. s \o p \in Seq(A) /\ Len(s \o p) = Len(p) + 2 /\ (s \o p)[1] = "-"
  <2>1. s \o p \in Seq(A) /\ Joins(s \o p, s, p)
    BY <1>1, <1>3, Joined
  <2> QED BY <1>1, <1>3, <2>1 DEF Joins
<1> DEFINE q == s \o p
<1>9. q \in Seq(A) /\ Len(q) = Len(p) + 2 /\ q[1] = "-"
  BY <1>8
<1> HIDE DEF q
<1>10. q \o x \in Seq(A) /\ Len(q \o x) = Len(p) + 3 /\ (q \o x)[1] = "-"
  <2>1. q \o x \in Seq(A) /\ Joins(q \o x, q, x)
    BY <1>1, <1>9, Joined
  <2>2. 1 \in 1 .. Len(q)
    BY <1>3, <1>9
  <2> QED BY <1>1, <1>3, <1>9, <2>1, <2>2 DEF Joins
<1> DEFINE r == q \o x
<1>11. r \in Seq(A) /\ Len(r) = Len(p) + 3 /\ r[1] = "-"
  BY <1>10
<1> HIDE DEF r
<1>12. r \o z \in Seq(A) /\ Len(r \o z) = Len(p) + 5 /\ (r \o z)[1] = "-"
  <2>1. r \o z \in Seq(A) /\ Joins(r \o z, r, z)
    BY <1>2, <1>11, Joined
  <2>2. 1 \in 1 .. Len(r)
    BY <1>3, <1>11
  <2> QED BY <1>2, <1>3, <1>11, <2>1, <2>2 DEF Joins
<1>13. t = r \o z
  BY DEF r, q
<1> HIDE DEF t, b
<1>14. t \in Seq(A) /\ Len(t) = Len(p) + 5 /\ t[1] = "-" /\ Len(t) \in Nat /\ Len(t) >= 4
  BY <1>3, <1>12, <1>13
<1>15. t # <<>> /\ Head(t) = "-"
  BY <1>14
<1>16. size = ndigits(g) + 5 + 2
  BY <1>1, <1>6, <1>7
<1> HIDE DEF size
<1>17. Spare(Buffer(size, t), TRUE)
  <2>1. Len(t) = Len(Printed(g)) + 5
    BY <1>14 DEF p
  <2>2. Spare(Buffer(size, t), g # Least)
    BY <1>5, <1>16, <2>1, SizedByDigits
  <2> QED BY <1>5, <2>2 DEF Spare
<1>18. b.text = t /\ Spare(b, TRUE)
  BY <1>4, <1>17 DEF Buffer
<1>19. ErrorText(b, A) /\ Len(b.text) = Len(p) + 5
  BY <1>14, <1>15, <1>18 DEF ErrorText
<1> QED BY <1>19 DEF b, x, p

-----------------------------------------------------------------------------
(* Answers *)

\* The characters of a reply: those of a line, and those it is written with.
AnyChar == Typable \cup Written

\* What is in the buffer is the reply to an answer.
Replied(a, b) ==
  \/ a.kind = "none" /\ b = Copy(<<>>)
  \/ a.kind = "string" /\ a.texts = <<NULL>> /\ b = reply_string(NULL)
  \/ a.kind = "string" /\ \E s \in Seq(Typable) : a.texts = <<s>> /\ b = reply_string(s)
  \/ a.kind = "integer" /\ a.number \in IntRange /\ b = reply_integer(a.number)
  \/ a.kind = "array" /\ a.texts \in Seq(Seq(AnyChar)) /\ b = reply_array_n(a.texts)
  \/ a.kind = "error" /\ \/ b = reply_err
                         \/ \E g \in Nat \cap IntRange : b = reply_err_argc(g, <<"expected">>)

\* A text that is not NULL, and whose reply the buffers do not hold.
LongText(a) == a.kind = "string" /\ a.texts[1] # NULL /\ StringReply(Len(a.texts[1])) + 2 > BufSize

\* What is known of every reply: it is a text, its buffer is too small for the
\* least int alone, and only long texts and arrays are too long for the client.
ReplyKnown(a, b) ==
  /\ b.text \in Seq(AnyChar) /\ Len(b.text) \in Nat
  /\ b.spare < 0 <=> \/ a.kind = "integer" /\ a.number = Least
                     \/ a.kind = "array" /\ \E i \in DOMAIN a.texts : ReadsLeast(a.texts[i])
  /\ Len(b.text) + 2 > BufSize => LongText(a) \/ a.kind = "array"

\* The buffers hold what varies in an int.
LEMMA IntsFit ==
  /\ BufSize \in Nat /\ IntMax \in Nat /\ BufSize <= IntMax
  /\ \A x \in IntRange : /\ x \in Int /\ Len(Printed(x)) \in Nat \ {0}
                         /\ Len(Printed(x)) + 7 <= BufSize
  /\ 0 \in IntRange /\ -1 \in IntRange
<1>1. IntMax \in Nat \ {0}
  BY WidthAssumption
<1>2. \A x \in IntRange : x \in Int
  BY <1>1 DEF IntRange
<1>3. \A x \in IntRange : Len(Printed(x)) \in Nat \ {0}
  BY <1>2, PrintedDigits
<1>4. 0 \in IntRange /\ -1 \in IntRange
  BY <1>1 DEF IntRange
<1>5. BufSize \in Nat
  BY ExchangeAssumption
<1> QED BY <1>1, <1>2, <1>3, <1>4, <1>5, BufferAssumption

\* The characters that a reply is written with are among them.
LEMMA AnyCharFacts == Written \subseteq AnyChar /\ \A s \in Seq(Typable) : s \in Seq(AnyChar)
<1>1. Written \subseteq AnyChar /\ Typable \subseteq AnyChar
  BY DEF AnyChar
<1> QED BY <1>1, SeqMonotonic

\* No reply.
LEMMA NoneKnown ==
  ASSUME NEW a, a.kind = "none"
  PROVE  ReplyKnown(a, Copy(<<>>)) /\ Copy(<<>>).text = <<>>
<1> DEFINE t == <<>>
           b == Copy(t)
<1>1. t \in Seq(AnyChar) /\ Len(t) = 0
  OBVIOUS
<1> HIDE DEF t
<1>2. b.text = t /\ Spare(b, TRUE)
  BY <1>1, CopyFits
<1> HIDE DEF b
<1>3. ~(b.spare < 0)
  BY <1>2 DEF Spare
<1>4. ~(Len(b.text) + 2 > BufSize)
  <2>1. PICK x \in IntRange : x = 0
    BY IntsFit
  <2>2. Len(Printed(x)) \in Nat \ {0} /\ Len(Printed(x)) + 7 <= BufSize /\ BufSize \in Nat
    BY IntsFit
  <2> QED BY <1>1, <1>2, <2>2
<1>5. ReplyKnown(a, b)
  BY <1>1, <1>2, <1>3, <1>4 DEF ReplyKnown
<1> QED BY <1>2, <1>5 DEF b, t

\* No string.
LEMMA NilKnown ==
  ASSUME NEW a, a.kind = "string"
  PROVE  /\ ReplyKnown(a, reply_string(NULL))
         /\ Headed(reply_string(NULL), AnyChar, "$", -1, <<>>)
<1> DEFINE b == reply_string(NULL)
           x == -1
<1>1. Headed(b, AnyChar, "$", x, <<>>) /\ Spare(b, TRUE)
  BY AnyCharFacts, NilReply
<1>2. x \in IntRange /\ Len(<<>>) = 0
  BY IntsFit
<1> HIDE DEF b, x
<1>3. b.text \in Seq(AnyChar) /\ Len(b.text) = Len(Printed(x)) + 3
  <2>1. Len(b.text) = Len(Printed(x)) + 3 + Len(<<>>)
    BY <1>1 DEF Headed, Read
  <2>2. Len(Printed(x)) \in Nat
    BY <1>2, IntsFit
  <2> QED BY <1>1, <1>2, <2>1, <2>2 DEF Headed
<1>4. ~(b.spare < 0)
  BY <1>1 DEF Spare
<1>5. Len(b.text) \in Nat /\ ~(Len(b.text) + 2 > BufSize)
  <2>1. Len(Printed(x)) \in Nat /\ Len(Printed(x)) + 7 <= BufSize /\ BufSize \in Nat
    BY <1>2, IntsFit
  <2> QED BY <1>3, <2>1
<1>6. ReplyKnown(a, b)
  BY <1>3, <1>4, <1>5 DEF ReplyKnown
<1> QED BY <1>1, <1>6 DEF b, x

\* A string.
LEMMA TextKnown ==
  ASSUME NEW a, NEW s \in Seq(Typable), a.kind = "string", a.texts = <<s>>
  PROVE  /\ ReplyKnown(a, reply_string(s)) /\ s # NULL /\ a.texts[1] = s
         /\ Headed(reply_string(s), AnyChar, "$", Len(s), s \o CRLF)
         /\ Len(reply_string(s).text) = StringReply(Len(s))
<1> DEFINE b == reply_string(s)
<1>1. s # NULL /\ s \in Seq(AnyChar) /\ Len(s) \in Nat
  BY TextIsThere, AnyCharFacts
<1>2. /\ Headed(b, AnyChar, "$", Len(s), s \o CRLF) /\ Spare(b, TRUE)
      /\ Len(b.text) = Len(Printed(Len(s))) + Len(s) + 5
  BY <1>1, AnyCharFacts, TextReply
<1> HIDE DEF b
<1>3. a.texts[1] = s
  OBVIOUS
<1>4. b.text \in Seq(AnyChar) /\ Len(b.text) \in Nat
  BY <1>2 DEF Headed
<1>5. ~(b.spare < 0)
  BY <1>2 DEF Spare
<1>6. Len(b.text) = StringReply(Len(s))
  BY <1>2 DEF StringReply
<1>7. Len(b.text) + 2 > BufSize => LongText(a)
  BY <1>1, <1>3, <1>6 DEF LongText
<1>8. ReplyKnown(a, b)
  BY <1>4, <1>5, <1>7 DEF ReplyKnown
<1> QED BY <1>1, <1>2, <1>3, <1>6, <1>8 DEF b

\* An integer.
LEMMA IntegerKnown ==
  ASSUME NEW a, NEW x \in IntRange, a.kind = "integer", a.number = x
  PROVE  /\ ReplyKnown(a, reply_integer(x))
         /\ Headed(reply_integer(x), AnyChar, ":", x, <<>>)
<1> DEFINE b == reply_integer(x)
<1>1. Headed(b, AnyChar, ":", x, <<>>) /\ Spare(b, x # Least)
  BY AnyCharFacts, IntegerReply
<1>2. Len(<<>>) = 0
  OBVIOUS
<1> HIDE DEF b
<1>3. Len(Printed(x)) \in Nat /\ Len(Printed(x)) + 7 <= BufSize /\ BufSize \in Nat
  BY IntsFit
<1>4. b.text \in Seq(AnyChar) /\ Len(b.text) = Len(Printed(x)) + 3
  <2>1. Len(b.text) = Len(Printed(x)) + 3 + Len(<<>>)
    BY <1>1 DEF Headed, Read
  <2> QED BY <1>1, <1>2, <1>3, <2>1 DEF Headed
<1>5. b.spare < 0 <=> x = Least
  BY <1>1 DEF Spare
<1>6. Len(b.text) \in Nat /\ ~(Len(b.text) + 2 > BufSize)
  BY <1>3, <1>4
<1>7. ReplyKnown(a, b)
  BY <1>4, <1>5, <1>6 DEF ReplyKnown
<1> QED BY <1>1, <1>7 DEF b

\* An array.
LEMMA ArrayKnown ==
  ASSUME NEW a, NEW arr \in Seq(Seq(AnyChar)), a.kind = "array", a.texts = arr
  PROVE  /\ ReplyKnown(a, reply_array_n(arr))
         /\ reply_array_n(arr).text # <<>> /\ Head(reply_array_n(arr).text) = "*"
<1> DEFINE b == reply_array_n(arr)
<1>1. /\ \E rest : Headed(b, AnyChar, "*", Len(arr), rest)
      /\ b.spare < 0 <=> \E i \in DOMAIN arr : ReadsLeast(arr[i])
  BY AnyCharFacts, ArrayReply
<1> HIDE DEF b
<1>2. b.text \in Seq(AnyChar) /\ b.text # <<>> /\ Head(b.text) = "*"
  BY <1>1 DEF Headed, Read
<1>3. Len(b.text) \in Nat
  BY <1>2
<1>4. ReplyKnown(a, b)
  BY <1>1, <1>2, <1>3 DEF ReplyKnown
<1> QED BY <1>2, <1>4 DEF b

\* An error.
LEMMA ErrorKnown ==
  ASSUME NEW a, a.kind = "error", NEW b,
         \/ b = reply_err
         \/ \E g \in Nat \cap IntRange : b = reply_err_argc(g, <<"expected">>)
  PROVE  ReplyKnown(a, b) /\ ErrorText(b, AnyChar)
<1>1. /\ ErrorText(b, AnyChar)
      /\ \/ Len(b.text) = 4
         \/ \E x \in IntRange : Len(b.text) = Len(Printed(x)) + 5
  <2>1. CASE b = reply_err
    BY <2>1, AnyCharFacts, PlainError
  <2>2. CASE \E g \in Nat \cap IntRange : b = reply_err_argc(g, <<"expected">>)
    BY <2>2, AnyCharFacts, CountError
  <2> QED BY <2>1, <2>2
<1>2. \E x \in IntRange : Len(b.text) <= Len(Printed(x)) + 5
  <2>1. CASE Len(b.text) = 4
    <3>1. 0 \in IntRange /\ Len(Printed(0)) \in Nat
      BY IntsFit
    <3>2. 4 <= Len(Printed(0)) + 5
      BY <3>1
    <3> QED BY <2>1, <3>1, <3>2
  <2>2. CASE \E x \in IntRange : Len(b.text) = Len(Printed(x)) + 5
    <3>1. PICK x \in IntRange : Len(b.text) = Len(Printed(x)) + 5
      BY <2>2
    <3>2. Len(Printed(x)) \in Nat
      BY IntsFit
    <3> QED BY <3>1, <3>2
  <2> QED BY <1>1, <2>1, <2>2
<1>3. b.text \in Seq(AnyChar) /\ Len(b.text) \in Nat /\ ~(b.spare < 0)
  BY <1>1 DEF ErrorText, Spare
<1>4. ~(Len(b.text) + 2 > BufSize)
  <2>1. PICK x \in IntRange : Len(b.text) <= Len(Printed(x)) + 5
    BY <1>2
  <2>2. Len(Printed(x)) \in Nat /\ Len(Printed(x)) + 7 <= BufSize /\ BufSize \in Nat
    BY IntsFit
  <2> QED BY <1>3, <2>1, <2>2
<1>5. ReplyKnown(a, b)
  BY <1>3, <1>4 DEF ReplyKnown
<1> QED BY <1>1, <1>5

\* Every reply.
LEMMA RepliedKnown ==
  ASSUME NEW a, NEW b, Replied(a, b)
  PROVE  ReplyKnown(a, b)
<1>1. CASE a.kind = "none" /\ b = Copy(<<>>)
  BY <1>1, NoneKnown
<1>2. CASE a.kind = "string" /\ a.texts = <<NULL>> /\ b = reply_string(NULL)
  BY <1>2, NilKnown
<1>3. CASE a.kind = "string" /\ \E s \in Seq(Typable) : a.texts = <<s>> /\ b = reply_string(s)
  BY <1>3, TextKnown
<1>4. CASE a.kind = "integer" /\ a.number \in IntRange /\ b = reply_integer(a.number)
  BY <1>4, IntegerKnown
<1>5. CASE a.kind = "array" /\ a.texts \in Seq(Seq(AnyChar)) /\ b = reply_array_n(a.texts)
  BY <1>5, ArrayKnown
<1>6. CASE a.kind = "error" /\ \/ b = reply_err
                               \/ \E g \in Nat \cap IntRange : b = reply_err_argc(g, <<"expected">>)
  BY <1>6, ErrorKnown
<1> QED BY <1>1, <1>2, <1>3, <1>4, <1>5, <1>6 DEF Replied

\* The beginning of a text that goes on is what it was.
LEMMA Beginning ==
  ASSUME NEW A, NEW s \in Seq(A), NEW z \in Seq(A)
  PROVE  SubSeq(s \o z, 1, Len(s)) = s
<1>1. CASE s = <<>>
  BY <1>1, SubSeqEmpty
<1>2. CASE s # <<>>
  <2>1. Len(s) \in Nat \ {0}
    BY <1>2, EmptySeq
  <2>2. 1 \in 1 .. Len(s) /\ Len(s) \in 1 .. Len(s)
    BY <2>1
  <2>3. SubSeq(s \o z, 1, Len(s)) = SubSeq(s, 1, Len(s))
    BY <2>2, SubSeqOfConcat1
  <2>4. SubSeq(s, 1, Len(s)) = s
    BY SubSeqFull
  <2> QED BY <2>3, <2>4
<1> QED BY <1>1, <1>2

\* What parse_resp shows, by the character a reply begins with.
LEMMA Responses ==
  ASSUME NEW t, parse_resp(t)
  PROVE  /\ stage' = "shown"
         /\ t = <<>> \/ Head(t) = "*" => shown' = Nothing
         /\ t # <<>> /\ Head(t) = "$" =>
              shown' = IF parse_str(t) = NULL THEN [Nothing EXCEPT !.as = "nil"]
                       ELSE [Nothing EXCEPT !.as = "string", !.text = parse_str(t)]
         /\ t # <<>> /\ Head(t) = ":" =>
              shown' = [Nothing EXCEPT !.as = "integer", !.number = parse_int(t)]
         /\ t # <<>> /\ Head(t) = "-" =>
              /\ shown'.as = "line"
              /\ \E tail \in {<<>>, <<Garbage>>} : shown'.text = parse_err(t) \o tail
<1> DEFINE is(c) == t # <<>> /\ Head(t) = c
<1>1. \/ is("$") /\ parse_str(t) = NULL /\ Show("nil", <<>>, 0)
      \/ is("$") /\ parse_str(t) # NULL /\ Show("string", parse_str(t), 0)
      \/ is(":") /\ Show("integer", <<>>, parse_int(t))
      \/ is("-") /\ \E tail \in {<<>>, <<Garbage>>} : Show("line", parse_err(t) \o tail, 0)
      \/ ~(is("$") \/ is(":") \/ is("-")) /\ shown' = Nothing /\ stage' = "shown"
  BY DEF parse_resp
<1>2. CASE is("$") /\ parse_str(t) = NULL /\ Show("nil", <<>>, 0)
  BY <1>2 DEF Show, Nothing
<1>3. CASE is("$") /\ parse_str(t) # NULL /\ Show("string", parse_str(t), 0)
  BY <1>3 DEF Show, Nothing
<1>4. CASE is(":") /\ Show("integer", <<>>, parse_int(t))
  <2>1. shown' = [Nothing EXCEPT !.as = "integer", !.number = parse_int(t)] /\ stage' = "shown"
    <3>1. PICK v : v = parse_int(t)
      OBVIOUS
    <3>2. Show("integer", <<>>, v)
      BY <1>4, <3>1, Zenon
    <3>3. shown' = [Nothing EXCEPT !.as = "integer", !.number = v] /\ stage' = "shown"
      <4>1. PICK z : z = 0
        OBVIOUS
      <4>2. Nothing = [as |-> "nothing", text |-> <<>>, number |-> z]
        BY <4>1, Zenon DEF Nothing
      <4>3. shown' = [as |-> "integer", text |-> <<>>, number |-> v] /\ stage' = "shown"
        BY <3>2, Zenon DEF Show
      <4>4. PICK q : q = [Nothing EXCEPT !.as = "integer"]
        OBVIOUS
      <4>5. q = [as |-> "integer", text |-> <<>>, number |-> z]
        BY <4>2, <4>4
      <4>6. [q EXCEPT !.number = v] = [as |-> "integer", text |-> <<>>, number |-> v]
        BY <4>5
      <4> QED BY <4>3, <4>4, <4>6, Zenon
    <3> QED BY <3>1, <3>3, Zenon
  <2>2. t # <<>> /\ Head(t) = ":" /\ Head(t) # "$" /\ Head(t) # "-" /\ Head(t) # "*"
    BY <1>4
  <2> QED BY <2>1, <2>2, Zenon
<1>5. CASE is("-") /\ \E tail \in {<<>>, <<Garbage>>} : Show("line", parse_err(t) \o tail, 0)
  <2>1. PICK tail \in {<<>>, <<Garbage>>} : Show("line", parse_err(t) \o tail, 0)
    BY <1>5
  <2>2. PICK text : text = parse_err(t) \o tail
    OBVIOUS
  <2>3. stage' = "shown" /\ shown' = [as |-> "line", text |-> text, number |-> 0]
    BY <2>1, <2>2, Zenon DEF Show
  <2>4. stage' = "shown" /\ shown'.as = "line" /\ shown'.text = text
    BY <2>3
  <2>5. \E other \in {<<>>, <<Garbage>>} : shown'.text = parse_err(t) \o other
    BY <2>2, <2>4, Zenon
  <2>6. is("-") /\ ~is("$") /\ ~is(":") /\ t # <<>> /\ Head(t) # "*"
    BY <1>5
  <2> QED BY <2>4, <2>5, <2>6, Zenon
<1>6. CASE ~(is("$") \/ is(":") \/ is("-")) /\ shown' = Nothing /\ stage' = "shown"
  BY <1>6
<1> QED BY <1>1, <1>2, <1>3, <1>4, <1>5, <1>6

\* The client finds no string.
LEMMA NilFound ==
  ASSUME NEW t, Read(t, "$", -1, <<>>)
  PROVE  parse_str(t) = NULL
<1> DEFINE x == -1
<1>1. x \in IntRange /\ x < 0
  BY IntsFit
<1>2. Read(t, "$", x, <<>>)
  OBVIOUS
<1> HIDE DEF x
<1>3. parse_int(t) = x
  BY <1>1, <1>2, IntRead
<1> QED BY <1>1, <1>3 DEF parse_str

\* The client finds the string.
LEMMA TextFound ==
  ASSUME NEW A, Written \subseteq A, NEW s \in Seq(A), NEW t, Len(s) <= IntMax,
         Read(t, "$", Len(s), s \o CRLF)
  PROVE  parse_str(t) = s
<1> DEFINE n == Len(s)
<1>1. n \in Nat /\ n \in IntRange /\ ~(n < 0)
  BY WidthAssumption DEF IntRange
<1> HIDE DEF n
<1>2. parse_int(t) = n
  <2>1. Read(t, "$", n, s \o CRLF)
    BY DEF n
  <2> QED BY <1>1, <2>1, IntRead
<1>3. Body(t) = s \o CRLF
  BY DEF Read
<1>4. CRLF \in Seq(A)
  BY LineEnd
<1>5. SubSeq(s \o CRLF, 1, n) = s
  BY <1>4, Beginning DEF n
<1>6. SubSeq(Body(t), 1, n) = s
  BY <1>3, <1>5, Zenon
<1> QED BY <1>1, <1>2, <1>6 DEF parse_str

\* An error message is shown at least as far as it goes.
LEMMA ErrorFound ==
  ASSUME NEW b, ErrorText(b, AnyChar), NEW tail \in {<<>>, <<Garbage>>}
  PROVE  IsPrefix(SubSeq(b.text, 2, Len(b.text) - 2), parse_err(b.text) \o tail)
<1> DEFINE A == AnyChar \cup {Garbage}
           n == Len(b.text) - 2
           s == SubSeq(b.text, 2, n)
<1>1. b.text \in Seq(AnyChar) /\ Len(b.text) \in Nat /\ Len(b.text) >= 4
  BY DEF ErrorText
<1>2. n \in Int /\ \A i \in 2 .. n : b.text[i] \in A
  <2>1. n \in Int /\ \A i \in 2 .. n : i \in 1 .. Len(b.text)
    BY <1>1
  <2>2. \A i \in 1 .. Len(b.text) : b.text[i] \in AnyChar
    BY <1>1
  <2> QED BY <2>1, <2>2
<1> HIDE DEF n
<1>3. s \in Seq(A)
  <2> HIDE DEF A
  <2> QED BY <1>2, SubSeqProperties
<1>4. tail \in Seq(A)
  <2>1. Garbage \in A
    OBVIOUS
  <2> HIDE DEF A
  <2>2. <<>> \in Seq(A) /\ <<Garbage>> \in Seq(A)
    BY <2>1
  <2> QED BY <2>2, Zenon
<1> HIDE DEF s, A
<1>5. Len(s) <= Len(s \o tail)
  <2>1. Len(s) \in Nat /\ Len(tail) \in Nat
    BY <1>3, <1>4
  <2>2. Len(s \o tail) = Len(s) + Len(tail)
    BY <1>3, <1>4, ConcatProperties
  <2> QED BY <2>1, <2>2
<1>6. SubSeq(s, 1, Len(s)) = s
  BY <1>3, SubSeqFull
<1>7. SubSeq(s \o tail, 1, Len(s)) = s
  BY <1>3, <1>4, Beginning
<1>8. IsPrefix(s, s \o tail)
  BY <1>5, <1>6, <1>7, Zenon DEF IsPrefix
<1>9. parse_err(b.text) = s
  BY DEF parse_err, s, n
<1> QED BY <1>8, <1>9 DEF s, n

\* What the prompt shows of a reply that arrives.
LEMMA RepliedShown ==
  ASSUME Replied(answer, reply), ~(Len(reply.text) + 2 > BufSize), parse_resp(reply.text),
         UNCHANGED <<answer, reply>>
  PROVE  /\ AnswerShown' /\ stage' = "shown"
         /\ shown'.as = "string" => StringReply(Len(shown'.text)) + 2 <= BufSize
<1> DEFINE t == reply.text
           Good == AnswerShown' /\ (shown'.as = "string" => StringReply(Len(shown'.text)) + 2 <= BufSize)
<1>1. stage' = "shown"
  BY Responses
<1>2. answer' = answer /\ reply' = reply
  OBVIOUS
<1>3. CASE answer.kind = "none" /\ reply = Copy(<<>>)
  <2>1. t = <<>>
    BY <1>3, NoneKnown
  <2>2. shown' = Nothing
    BY <2>1, Responses
  <2> QED BY <1>1, <1>2, <1>3, <2>2 DEF AnswerShown, Nothing
<1>4. CASE answer.kind = "string" /\ answer.texts = <<NULL>> /\ reply = reply_string(NULL)
  <2>1. Read(t, "$", -1, <<>>)
    BY <1>4, NilKnown DEF Headed
  <2>2. parse_str(t) = NULL /\ t # <<>> /\ Head(t) = "$"
    BY <2>1, NilFound DEF Read
  <2>3. shown' = [Nothing EXCEPT !.as = "nil"]
    BY <2>2, Responses
  <2>4. answer.texts[1] = NULL
    BY <1>4
  <2> QED BY <1>1, <1>2, <1>4, <2>3, <2>4 DEF AnswerShown, Nothing
<1>5. CASE answer.kind = "string" /\ \E s \in Seq(Typable) : answer.texts = <<s>> /\ reply = reply_string(s)
  <2>1. PICK s \in Seq(Typable) : answer.texts = <<s>> /\ reply = reply_string(s)
    BY <1>5
  <2>2. /\ s # NULL /\ answer.texts[1] = s
        /\ Read(t, "$", Len(s), s \o CRLF) /\ Len(t) = StringReply(Len(s))
        /\ Len(t) \in Nat
    <3>1. /\ ReplyKnown(answer, reply_string(s)) /\ s # NULL /\ answer.texts[1] = s
          /\ Headed(reply_string(s), AnyChar, "$", Len(s), s \o CRLF)
          /\ Len(reply_string(s).text) = StringReply(Len(s))
      BY <1>5, <2>1, TextKnown
    <3> QED BY <2>1, <3>1 DEF Headed, ReplyKnown
  <2>3. StringReply(Len(s)) + 2 <= BufSize /\ Len(s) <= IntMax
    <3>1. Len(s) \in Nat /\ BufSize \in Nat /\ IntMax \in Nat /\ BufSize <= IntMax
      BY IntsFit
    <3>2. Len(Printed(Len(s))) \in Nat
      BY <3>1, PrintedNat
    <3>3. StringReply(Len(s)) + 2 <= BufSize
      BY <2>2, <3>1
    <3>4. StringReply(Len(s)) = Len(Printed(Len(s))) + Len(s) + 5
      BY DEF StringReply
    <3> QED BY <3>1, <3>2, <3>3, <3>4
  <2>4. s \in Seq(AnyChar)
    BY AnyCharFacts
  <2>5. parse_str(t) = s
    BY <2>2, <2>3, <2>4, AnyCharFacts, TextFound
  <2>6. t # <<>> /\ Head(t) = "$"
    BY <2>2 DEF Read
  <2>7. shown' = [Nothing EXCEPT !.as = "string", !.text = s]
    BY <2>2, <2>5, <2>6, Responses
  <2>8. shown'.text = s
    BY <2>7 DEF Nothing
  <2>9. AnswerShown'
    BY <1>1, <1>2, <1>5, <2>2, <2>7 DEF AnswerShown
  <2> QED BY <1>1, <2>3, <2>8, <2>9
<1>6. CASE answer.kind = "integer" /\ answer.number \in IntRange /\ reply = reply_integer(answer.number)
  <2>1. Read(t, ":", answer.number, <<>>)
    BY <1>6, IntegerKnown DEF Headed
  <2>2. parse_int(t) = answer.number
    BY <1>6, <2>1, IntRead
  <2>3. t # <<>> /\ Head(t) = ":"
    BY <2>1 DEF Read
  <2>4. shown' = [Nothing EXCEPT !.as = "integer", !.number = answer.number]
    BY <2>2, <2>3, Responses
  <2> QED BY <1>1, <1>2, <1>6, <2>4 DEF AnswerShown, Nothing
<1>7. CASE answer.kind = "array" /\ answer.texts \in Seq(Seq(AnyChar)) /\ reply = reply_array_n(answer.texts)
  <2>1. Head(t) = "*"
    BY <1>7, ArrayKnown
  <2>2. shown' = Nothing
    BY <2>1, Responses
  <2> QED BY <1>1, <1>2, <1>7, <2>2 DEF AnswerShown, Nothing
<1>8. CASE answer.kind = "error" /\ \/ reply = reply_err
                                    \/ \E g \in Nat \cap IntRange : reply = reply_err_argc(g, <<"expected">>)
  <2>1. ErrorText(reply, AnyChar)
    BY <1>8, ErrorKnown
  <2>2. t # <<>> /\ Head(t) = "-"
    BY <2>1 DEF ErrorText
  <2>3. shown'.as = "line" /\ \E tail \in {<<>>, <<Garbage>>} : shown'.text = parse_err(t) \o tail
    BY <2>2, Responses
  <2>4. IsPrefix(SubSeq(t, 2, Len(t) - 2), shown'.text)
    BY <2>1, <2>3, ErrorFound
  <2> QED BY <1>1, <1>2, <1>8, <2>3, <2>4 DEF AnswerShown
<1> QED BY <1>1, <1>3, <1>4, <1>5, <1>6, <1>7, <1>8 DEF Replied

-----------------------------------------------------------------------------
(* The exchange *)

\* A message is on its way through the parser.
Carried(b, t, e) == stage = "parsing" => string = Message(line) /\ Progress(b, t, e)

\* The types of the rest.
StageOK ==
  /\ stage \in {"typing", "parsing", "replying", "shown", "overrun"}
  /\ answer.kind \in {"none", "string", "integer", "array", "error"}
  /\ shown.as \in {"nothing", "nil", "string", "integer", "line"}

\* The inductive invariant: a line has its spans, and the parser goes by them.
IInv ==
  /\ TypingOK /\ ParserOK /\ StageOK
  /\ \E b, t, e : Lined(b, t, e) /\ Carried(b, t, e)

\* What readline takes from a message is what writeline was given.
LEMMA SentIsRead ==
  ASSUME NEW A, NEW m \in Seq(A)
  PROVE  readline(writeline(m)) = m /\ Len(writeline(m)) = Len(m) + 2
<1> DEFINE S == A \cup {"nl", NULL}
           z == <<"nl", NULL>>
<1>1. m \in Seq(S) /\ z \in Seq(S) /\ Len(z) = 2 /\ Len(m) \in Nat
  BY SeqMonotonic
<1>2. writeline(m) = m \o z
  BY DEF writeline
<1> HIDE DEF S, z
<1>3. Len(m \o z) = Len(m) + 2 /\ Len(m \o z) - 2 = Len(m)
  <2>1. Len(m \o z) = Len(m) + Len(z)
    BY <1>1, ConcatProperties
  <2> QED BY <1>1, <2>1
<1>4. SubSeq(m \o z, 1, Len(m)) = m
  BY <1>1, Beginning
<1> QED BY <1>2, <1>3, <1>4, Zenon DEF readline

\* The buffers hold a line with three bytes to spare.
LEMMA LineFits ==
  ASSUME NEW typed \in Seq(Typable)
  PROVE  Terminated(writeline(fgets(typed))) <=> Len(typed) + 3 <= BufSize
<1>1. Message(typed) \in Seq(Typable) /\ Len(Message(typed)) = Len(typed) + 1
  BY TypableFacts DEF Message, Typable
<1>2. Len(typed) \in Nat /\ BufSize \in Nat
  BY ExchangeAssumption
<1>3. CASE Len(typed) + 1 < BufSize
  <2>1. fgets(typed) = Message(typed)
    BY <1>3 DEF fgets, Message
  <2>2. Len(writeline(Message(typed))) = Len(Message(typed)) + 2
    BY <1>1, SentIsRead
  <2>3. Len(writeline(fgets(typed))) = Len(typed) + 3
    BY <1>1, <1>2, <2>1, <2>2
  <2> QED BY <2>3 DEF Terminated
<1>4. CASE ~(Len(typed) + 1 < BufSize)
  <2> DEFINE cut == SubSeq(typed, 1, BufSize - 1)
  <2>1. fgets(typed) = cut
    BY <1>4 DEF fgets
  <2>2. \A i \in 1 .. BufSize - 1 : typed[i] \in Typable
    BY <1>2, <1>4
  <2>3. cut \in Seq(Typable) /\ Len(cut) = IF 1 <= BufSize - 1 THEN BufSize - 1 - 1 + 1 ELSE 0
    BY <1>2, <2>2, SubSeqProperties
  <2> HIDE DEF cut
  <2>4. Len(writeline(cut)) = Len(cut) + 2
    BY <2>3, SentIsRead
  <2>5. Len(writeline(cut)) > BufSize /\ ~(Len(typed) + 3 <= BufSize)
    BY <1>2, <1>4, <2>3, <2>4
  <2>6. Len(writeline(cut)) \in Nat
    BY <2>3, <2>4
  <2> QED BY <1>2, <2>1, <2>5, <2>6 DEF Terminated
<1> QED BY <1>3, <1>4

\* A line that the buffers hold arrives whole.
LEMMA LineArrives ==
  ASSUME NEW typed \in Seq(Typable), Terminated(writeline(fgets(typed)))
  PROVE  readline(writeline(fgets(typed))) = Message(typed)
<1>1. Message(typed) \in Seq(Typable) /\ Len(typed) \in Nat /\ BufSize \in Nat
  BY TypableFacts, ExchangeAssumption DEF Message, Typable
<1>2. Len(typed) + 3 <= BufSize
  BY LineFits
<1>3. fgets(typed) = Message(typed)
  <2>1. Len(typed) + 1 < BufSize
    BY <1>1, <1>2
  <2> QED BY <2>1 DEF fgets, Message
<1> QED BY <1>1, <1>3, SentIsRead

\* The invariant holds at first.
LEMMA InitIInv == Init => IInv
<1> SUFFICES ASSUME Init PROVE IInv
  OBVIOUS
<1>1. TypingOK
  BY FirstLine
<1>2. PICK b, t, e : Lined(b, t, e)
  BY FirstLine
<1>3. ParserOK
  BY DEF Init, ParserInit, ParserOK
<1>4. StageOK
  BY DEF Init, StageOK, NoAnswer, Nothing
<1>5. Carried(b, t, e)
  BY DEF Init, Carried
<1> QED BY <1>1, <1>2, <1>3, <1>4, <1>5 DEF IInv

\* What is typed keeps it.
LEMMA TypingIInv ==
  ASSUME IInv, TypeBlank \/ TypeWord \/ TypeString \/ TypeOpenString
  PROVE  IInv'
<1>1. PICK b, t, e : Lined(b, t, e)
  BY DEF IInv
<1>2. TypingOK /\ ParserOK /\ StageOK
  BY DEF IInv
<1>3. TypingOK' /\ \E b2, t2, e2 : Lined(b2, t2, e2)'
  BY <1>1, <1>2, BlankTyped, TypedWord, TypedString, TypedOpenString
<1>4. stage' = "typing" /\ UNCHANGED <<parserVars, answer, shown>>
  BY DEF TypeBlank, TypeWord, TypeString, TypeOpenString, Type
<1>5. ParserOK'
  BY <1>2, <1>4 DEF ParserOK, parserVars
<1>6. StageOK'
  BY <1>2, <1>4 DEF StageOK
<1>7. PICK b2, t2, e2 : Lined(b2, t2, e2)'
  BY <1>3
<1>8. Carried(b2, t2, e2)'
  BY <1>4 DEF Carried
<1> QED BY <1>3, <1>5, <1>6, <1>7, <1>8 DEF IInv

\* A line that is entered goes to the parser as it is, with its newline.
LEMMA EnterIInv ==
  ASSUME IInv, Enter
  PROVE  IInv'
<1>1. PICK b, t, e : Lined(b, t, e)
  BY DEF IInv
<1>2. TypingOK /\ ParserOK /\ StageOK
  BY DEF IInv
<1>3. UNCHANGED <<line, words, last, room, answer>> /\ shown' = Nothing
  BY DEF Enter, typing
<1>4. TypingOK' /\ Lined(b, t, e)'
  BY <1>1, <1>2, <1>3 DEF TypingOK, Lined
<1>5. CASE /\ Terminated(writeline(fgets(line)))
           /\ parser_init(readline(writeline(fgets(line)))) /\ stage' = "parsing"
  <2>1. line \in Seq(Typable) /\ words \in Seq(Seq(Typable)) /\ Message(line) \in Seq(Typable)
    BY <1>2, TypableFacts DEF TypingOK, Message, Typable
  <2>2. string' = Message(line)
    BY <1>5, <2>1, LineArrives DEF parser_init
  <2>3. /\ parser' = 0 /\ dup' = 0 /\ scan' = "name" /\ mode' = "blanks" /\ token' = <<>>
        /\ argc' = 0 /\ args' = <<>>
    BY <1>5 DEF parser_init
  <2>4. ParserOK'
    BY <2>1, <2>2, <2>3 DEF ParserOK
  <2>5. StageOK'
    BY <1>2, <1>3, <1>5 DEF StageOK, Nothing
  <2>6. At(Message(line), words, b, t, e, 0, "blanks", 0, <<>>)
    <3>1. Spans(Message(line), words, b, t, e) /\ 0 \in 0 .. Len(words)
      BY <1>1, <2>1 DEF Lined
    <3>2. e[0] = 0
      BY <3>1 DEF Spans, Found
    <3>3. At(Message(line), words, b, t, e, 0, "blanks", e[0], <<>>)
      BY <2>1, <3>1, BehindWord
    <3> QED BY <3>2, <3>3
  <2>7. At(string', words', b, t, e, 0, mode', parser', token')
    BY <1>3, <2>2, <2>3, <2>6
  <2>8. Progress(b, t, e)'
    BY <2>3, <2>7 DEF Progress
  <2>9. Carried(b, t, e)'
    BY <1>3, <2>2, <2>8 DEF Carried
  <2> QED BY <1>4, <2>4, <2>5, <2>9 DEF IInv
<1>6. CASE stage' = "overrun" /\ UNCHANGED parserVars
  <2>1. ParserOK'
    BY <1>2, <1>6 DEF ParserOK, parserVars
  <2>2. StageOK'
    BY <1>2, <1>3, <1>6 DEF StageOK, Nothing
  <2>3. Carried(b, t, e)'
    BY <1>6 DEF Carried
  <2> QED BY <1>4, <2>1, <2>2, <2>3 DEF IInv
<1> QED BY <1>5, <1>6 DEF Enter

\* The parser keeps it.
LEMMA ParseIInv ==
  ASSUME IInv, Parse
  PROVE  IInv'
<1>1. PICK b, t, e : Lined(b, t, e) /\ Carried(b, t, e)
  BY DEF IInv
<1>2. TypingOK /\ ParserOK /\ StageOK
  BY DEF IInv
<1>3. /\ UNCHANGED <<line, words, last, room, stage, answer, shown>>
      /\ stage = "parsing" /\ parse
  BY DEF Parse, typing
<1>4. TypingOK' /\ Lined(b, t, e)'
  BY <1>1, <1>2, <1>3 DEF TypingOK, Lined
<1>5. string = Message(line) /\ Progress(b, t, e)
  BY <1>1, <1>3 DEF Carried
<1>6. Spans(string, words, b, t, e)
  BY <1>1, <1>5 DEF Lined
<1>7. ParserOK' /\ Progress(b, t, e)'
  BY <1>2, <1>3, <1>5, <1>6, ParserStep
<1>8. string' = string
  BY <1>3 DEF parse, SkipBlank, NoToken, OpenString, OpenId, parse_string, parse_id, Step, Return
<1>9. Carried(b, t, e)'
  BY <1>3, <1>5, <1>7, <1>8 DEF Carried
<1>10. StageOK'
  BY <1>2, <1>3 DEF StageOK
<1> QED BY <1>4, <1>7, <1>9, <1>10 DEF IInv

\* What a step that leaves the line and the parser alone has to keep.
LEMMA AnswerIInv ==
  ASSUME IInv, UNCHANGED <<parserVars, typing>>, StageOK', stage' # "parsing"
  PROVE  IInv'
<1>1. PICK b, t, e : Lined(b, t, e)
  BY DEF IInv
<1>2. TypingOK' /\ Lined(b, t, e)'
  BY <1>1 DEF IInv, TypingOK, Lined, typing
<1>3. ParserOK'
  BY DEF IInv, ParserOK, parserVars
<1>4. Carried(b, t, e)'
  BY DEF Carried
<1> QED BY <1>2, <1>3, <1>4 DEF IInv

\* Replies, what is shown of them, and the next prompt keep it.
LEMMA OtherIInv ==
  ASSUME IInv, exec_noop \/ exec_unknown \/ interpret \/ repl \/ prompt
  PROVE  IInv'
<1>1. StageOK
  BY DEF IInv
<1>2. ASSUME NEW kind \in {"none", "string", "integer", "array", "error"},
             NEW texts, NEW number, NEW buffer, Reply(kind, texts, number, buffer)
      PROVE  IInv'
  <2>1. UNCHANGED <<parserVars, typing>> /\ stage' = "replying"
    BY <1>2 DEF Reply
  <2>2. StageOK'
    BY <1>1, <1>2 DEF Reply, StageOK
  <2> QED BY <2>1, <2>2, AnswerIInv
<1>3. CASE exec_noop
  BY <1>2, <1>3 DEF exec_noop
<1>4. CASE exec_unknown
  BY <1>2, <1>4 DEF exec_unknown
<1>5. CASE interpret
  <2>1. \E kind \in {"none", "string", "integer", "array", "error"} : \E texts, number, buffer :
          Reply(kind, texts, number, buffer)
    BY <1>5 DEF interpret
  <2> QED BY <1>2, <2>1
<1>6. CASE repl
  <2>1. UNCHANGED <<parserVars, typing, answer>>
    BY <1>6 DEF repl
  <2>2. \/ stage' = "overrun" /\ shown' = shown
        \/ stage' = "shown" /\ shown'.as \in {"nothing", "nil", "string", "integer", "line"}
    <3>1. CASE ~Terminated(writeline(reply.text)) /\ stage' = "overrun" /\ UNCHANGED shown
      BY <3>1
    <3>2. CASE parse_resp(readline(writeline(reply.text)))
      <4>1. \/ shown' = Nothing /\ stage' = "shown"
            \/ \E as \in {"nil", "string", "integer", "line"} : \E text, number : Show(as, text, number)
        BY <3>2 DEF parse_resp
      <4> QED BY <4>1 DEF Show, Nothing
    <3> QED BY <1>6, <3>1, <3>2 DEF repl
  <2>3. StageOK'
    BY <1>1, <2>1, <2>2 DEF StageOK
  <2> QED BY <2>1, <2>2, <2>3, AnswerIInv
<1>7. CASE prompt
  <2>1. PICK lead \in Leads : Fresh(lead)
    BY <1>7 DEF prompt
  <2>2. TypingOK' /\ \E b2, t2, e2 : Lined(b2, t2, e2)'
    BY <2>1, FreshLine
  <2>3. PICK b2, t2, e2 : Lined(b2, t2, e2)'
    BY <2>2
  <2>4. ParserOK'
    BY <1>7 DEF prompt, ParserOK, IInv
  <2>5. stage' = "typing" /\ answer' = NoAnswer /\ shown' = Nothing
    BY <1>7, <2>1 DEF prompt, Fresh
  <2>6. StageOK' /\ Carried(b2, t2, e2)'
    BY <2>5 DEF StageOK, NoAnswer, Nothing, Carried
  <2> QED BY <2>2, <2>3, <2>4, <2>6 DEF IInv
<1> QED BY <1>3, <1>4, <1>5, <1>6, <1>7

\* Every step keeps it.
LEMMA NextIInv == IInv /\ [Next]_vars => IInv'
<1> SUFFICES ASSUME IInv, [Next]_vars PROVE IInv'
  OBVIOUS
<1>1. CASE Next
  BY <1>1, TypingIInv, EnterIInv, ParseIInv, OtherIInv DEF Next, Computer
<1>2. CASE UNCHANGED vars
  <2>1. PICK b, t, e : Lined(b, t, e) /\ Carried(b, t, e)
    BY DEF IInv
  <2>2. UNCHANGED <<parserVars, typing>> /\ UNCHANGED <<stage, answer, shown>>
    BY <1>2 DEF vars
  <2>3. Lined(b, t, e)' /\ TypingOK'
    BY <2>1, <2>2 DEF Lined, TypingOK, typing, IInv
  <2>4. ParserOK' /\ StageOK'
    BY <2>2 DEF IInv, ParserOK, StageOK, parserVars
  <2>5. Carried(b, t, e)'
    BY <2>1, <2>2 DEF Carried, Progress, Arguments, parserVars, typing
  <2> QED BY <2>3, <2>4, <2>5 DEF IInv
<1> QED BY <1>1, <1>2

\* The spans and the progress of the parser hold throughout.
LEMMA Invariance == Spec => []IInv
BY InitIInv, NextIInv, PTL DEF Spec

-----------------------------------------------------------------------------
(* What is held *)

\* The reply is the one to the answer, and what is shown or has overrun is as
\* it should be.
Held ==
  /\ stage = "replying" => Replied(answer, reply)
  /\ OnlyLongTextsOverrun /\ AnswerShown

\* The inductive invariant of the replies.
JInv == IInv /\ Held

\* A prompt holds nothing.
LEMMA TypingHeld == stage = "typing" => Held
BY DEF Held, OnlyLongTextsOverrun, AnswerShown

\* A line that is entered is held whole or not at all.
LEMMA EnterHeld ==
  ASSUME IInv, Enter
  PROVE  Held'
<1>1. line \in Seq(Typable) /\ line' = line
  BY DEF IInv, TypingOK, Enter, typing
<1>2. Terminated(writeline(fgets(line))) <=> Len(line) + 3 <= BufSize
  BY <1>1, LineFits
<1>3. \/ stage' = "parsing" /\ Len(line) + 3 <= BufSize
      \/ stage' = "overrun" /\ ~(Len(line) + 3 <= BufSize)
  BY <1>2 DEF Enter
<1>4. Len(line) + 3 \in Nat /\ BufSize \in Nat
  BY <1>1, ExchangeAssumption
<1> QED BY <1>1, <1>3, <1>4 DEF Held, OnlyLongTextsOverrun, AnswerShown

\* The parser leaves the line as it is.
LEMMA ParseHeld ==
  ASSUME Held, Parse
  PROVE  Held'
<1>1. stage = "parsing" /\ stage' = "parsing" /\ line' = line
  BY DEF Parse, typing
<1>2. Len(line) + 3 <= BufSize
  BY <1>1 DEF Held, OnlyLongTextsOverrun
<1> QED BY <1>1, <1>2 DEF Held, OnlyLongTextsOverrun, AnswerShown

\* A reply to an answer is what the buffer holds.
LEMMA ReplyHeld ==
  ASSUME Held, NEW kind, NEW texts, NEW number, NEW buffer, Reply(kind, texts, number, buffer),
         Replied([kind |-> kind, texts |-> texts, number |-> number], buffer)
  PROVE  Held'
<1>1. stage = "parsing" /\ stage' = "replying" /\ line' = line
  BY DEF Reply, typing
<1>2. Len(line) + 3 <= BufSize
  BY <1>1 DEF Held, OnlyLongTextsOverrun
<1>3. answer' = [kind |-> kind, texts |-> texts, number |-> number] /\ reply' = buffer
  BY DEF Reply
<1> DEFINE a == [kind |-> kind, texts |-> texts, number |-> number]
<1>4. Replied(a, buffer) /\ answer' = a
  BY <1>3
<1> HIDE DEF a
<1>5. Replied(answer', reply')
  BY <1>3, <1>4, Zenon
<1> QED BY <1>1, <1>2, <1>5 DEF Held, OnlyLongTextsOverrun, AnswerShown

\* What is known of an answer by its kind.
LEMMA Repliable ==
  /\ Replied([kind |-> "none", texts |-> <<>>, number |-> 0], Copy(<<>>))
  /\ Replied([kind |-> "string", texts |-> <<NULL>>, number |-> 0], reply_string(NULL))
  /\ \A s \in Seq(Typable) :
       Replied([kind |-> "string", texts |-> <<s>>, number |-> 0], reply_string(s))
  /\ \A x \in IntRange :
       Replied([kind |-> "integer", texts |-> <<>>, number |-> x], reply_integer(x))
  /\ \A arr \in Seq(Seq(AnyChar)) :
       Replied([kind |-> "array", texts |-> arr, number |-> 0], reply_array_n(arr))
  /\ Replied([kind |-> "error", texts |-> <<>>, number |-> 0], reply_err)
  /\ \A g \in Nat \cap IntRange :
       Replied([kind |-> "error", texts |-> <<>>, number |-> 0], reply_err_argc(g, <<"expected">>))
BY DEF Replied

\* What interpret answers, it replies.
LEMMA InterpretHeld ==
  ASSUME IInv, Held, exec_noop \/ exec_unknown \/ interpret
  PROVE  Held'
<1>1. stage = "parsing"
  BY DEF exec_noop, exec_unknown, interpret, Reply
<1>2. args \in Seq(Seq(Typable)) /\ argc \in -1 .. Len(string) /\ line \in Seq(Typable)
  BY DEF IInv, ParserOK, TypingOK
<1>3. argc >= 0 => argc \in Nat \cap IntRange
  <2>1. string = Message(line)
    BY <1>1 DEF IInv, Carried
  <2>2. Len(string) = Len(line) + 1 /\ Len(line) \in Nat
    BY <1>2, <2>1, TypableFacts DEF Message, Typable
  <2>3. Len(line) + 3 <= BufSize
    BY <1>1 DEF Held, OnlyLongTextsOverrun
  <2>4. BufSize \in Nat /\ IntMax \in Nat /\ BufSize <= IntMax
    BY IntsFit
  <2> QED BY <1>2, <2>2, <2>3, <2>4 DEF IntRange
<1>4. Ints \subseteq IntRange
  BY ExchangeAssumption
<1>5. \A i \in DOMAIN args : args[i] \in Seq(Typable)
  BY <1>2
<1>6. args \in Seq(Seq(AnyChar))
  <2>1. Seq(Typable) \subseteq Seq(AnyChar)
    BY AnyCharFacts
  <2> QED BY <1>2, <2>1, SeqMonotonic
<1>7. CASE exec_noop
  BY <1>7, ReplyHeld, Repliable DEF exec_noop
<1>8. CASE exec_unknown
  BY <1>8, ReplyHeld, Repliable DEF exec_unknown
<1>9. CASE interpret
  <2>1. argc \in Nat \cap IntRange
    BY <1>3, <1>9 DEF interpret
  <2>2. CASE \E s \in Strings : Reply("string", <<s>>, 0, reply_string(s))
    <3>1. PICK s \in Strings : Reply("string", <<s>>, 0, reply_string(s))
      BY <2>2
    <3>2. s = NULL \/ s \in Seq(Typable)
      BY <1>5 DEF Strings
    <3>3. Replied([kind |-> "string", texts |-> <<s>>, number |-> 0], reply_string(s))
      BY <3>2, Repliable, Zenon
    <3> QED BY <3>1, <3>3, ReplyHeld
  <2>3. CASE \E x \in Ints : Reply("integer", <<>>, x, reply_integer(x))
    BY <1>4, <2>3, ReplyHeld, Repliable
  <2>4. CASE \E x \in Ints : Reply("array", <<intostr(x).text>>, 0, reply_array_n(<<intostr(x).text>>))
    <3>1. PICK x \in Ints : Reply("array", <<intostr(x).text>>, 0, reply_array_n(<<intostr(x).text>>))
      BY <2>4
    <3>2. x \in Int
      BY <1>4, IntsFit
    <3>3. intostr(x).text = Printed(x)
      BY DEF intostr, Buffer
    <3>4. Printed(x) \in Seq(AnyChar)
      <4>1. Printed(x) \in Seq(Digits \cup {"-"})
        BY <3>2, PrintedDigits
      <4>2. Digits \cup {"-"} \subseteq AnyChar
        BY DEF AnyChar, Written
      <4> QED BY <4>1, <4>2, SeqMonotonic
    <3> DEFINE one == <<intostr(x).text>>
    <3>5. one \in Seq(Seq(AnyChar))
      BY <3>3, <3>4
    <3> HIDE DEF one
    <3>6. Replied([kind |-> "array", texts |-> one, number |-> 0], reply_array_n(one))
      BY <3>5, Repliable
    <3>7. Reply("array", one, 0, reply_array_n(one))
      BY <3>1 DEF one
    <3> QED BY <3>6, <3>7, ReplyHeld
  <2>5. CASE Reply("array", args, 0, reply_array_n(args))
    BY <1>6, <2>5, ReplyHeld, Repliable
  <2>6. CASE Reply("error", <<>>, 0, reply_err)
    BY <2>6, ReplyHeld, Repliable
  <2>7. CASE Reply("error", <<>>, 0, reply_err_argc(argc, <<"expected">>))
    BY <2>1, <2>7, ReplyHeld, Repliable
  <2> QED BY <1>9, <2>2, <2>3, <2>4, <2>5, <2>6, <2>7 DEF interpret
<1> QED BY <1>7, <1>8, <1>9

\* What the prompt shows is the answer, unless it is too long.
LEMMA ReplHeld ==
  ASSUME Held, repl
  PROVE  Held'
<1>1. stage = "replying" /\ UNCHANGED <<line, answer, reply>>
  BY DEF repl, typing
<1>2. Replied(answer, reply) /\ Len(line) + 3 <= BufSize
  BY <1>1 DEF Held, OnlyLongTextsOverrun
<1>3. ReplyKnown(answer, reply)
  BY <1>2, RepliedKnown
<1> DEFINE t == reply.text
<1>4. t \in Seq(AnyChar) /\ Len(t) \in Nat /\ BufSize \in Nat
  BY <1>3, IntsFit DEF ReplyKnown
<1>5. readline(writeline(t)) = t /\ Len(writeline(t)) = Len(t) + 2
  BY <1>4, SentIsRead
<1>6. Terminated(writeline(t)) <=> ~(Len(t) + 2 > BufSize)
  BY <1>4, <1>5 DEF Terminated
<1>7. CASE Terminated(writeline(t)) /\ parse_resp(readline(writeline(t)))
  <2>1. /\ AnswerShown' /\ stage' = "shown"
        /\ shown'.as = "string" => StringReply(Len(shown'.text)) + 2 <= BufSize
    BY <1>1, <1>2, <1>5, <1>6, <1>7, RepliedShown
  <2> QED BY <1>1, <1>2, <2>1 DEF Held, OnlyLongTextsOverrun
<1>8. CASE ~Terminated(writeline(t)) /\ stage' = "overrun" /\ UNCHANGED shown
  <2>1. LongText(answer) \/ answer.kind = "array"
    BY <1>3, <1>6, <1>8 DEF ReplyKnown
  <2> QED BY <1>1, <1>8, <2>1 DEF Held, OnlyLongTextsOverrun, AnswerShown, LongText
<1> QED BY <1>7, <1>8 DEF repl

\* Every step keeps it.
LEMMA NextJInv == JInv /\ [Next]_vars => JInv'
<1> SUFFICES ASSUME JInv, [Next]_vars PROVE JInv'
  OBVIOUS
<1>1. IInv /\ Held /\ IInv'
  BY NextIInv DEF JInv
<1>2. CASE TypeBlank \/ TypeWord \/ TypeString \/ TypeOpenString \/ prompt
  <2>1. stage' = "typing"
    BY <1>2 DEF TypeBlank, TypeWord, TypeString, TypeOpenString, Type, prompt, Fresh
  <2>2. Held'
    BY <2>1 DEF Held, OnlyLongTextsOverrun, AnswerShown
  <2> QED BY <1>1, <2>2 DEF JInv
<1>3. CASE Enter
  BY <1>1, <1>3, EnterHeld DEF JInv
<1>4. CASE Parse
  BY <1>1, <1>4, ParseHeld DEF JInv
<1>5. CASE exec_noop \/ exec_unknown \/ interpret
  BY <1>1, <1>5, InterpretHeld DEF JInv
<1>6. CASE repl
  BY <1>1, <1>6, ReplHeld DEF JInv
<1>7. CASE UNCHANGED vars
  <2>1. UNCHANGED <<stage, line, answer, reply, shown>>
    BY <1>7 DEF vars, typing
  <2>2. Held'
    BY <1>1, <2>1 DEF Held, OnlyLongTextsOverrun, AnswerShown
  <2> QED BY <1>1, <2>2 DEF JInv
<1> QED BY <1>2, <1>3, <1>4, <1>5, <1>6, <1>7 DEF Next, Computer

\* The reply is the one to the answer throughout.
LEMMA RepliesHeld == Spec => []JInv
<1>1. Init => JInv
  BY InitIInv, TypingHeld DEF JInv, Init
<1> QED BY <1>1, NextJInv, PTL DEF Spec

-----------------------------------------------------------------------------
(* What follows from it *)

\* Every variable has its type; so parser and dup stay in the message, and there
\* are never more arguments than characters.
THEOREM ExchangeTypes == Spec => []TypeOK
<1>1. IInv => TypeOK
  BY DEF IInv, ParserOK, TypingOK, StageOK, TypeOK, ParserTypeOK
<1> QED BY <1>1, Invariance, PTL

\* get_argc counts no token that the loop of parse does not find: it never
\* copies an argument that is not there.
THEOREM NoArgumentIsMissing == Spec => []NoNullArgument
<1>1. IInv => NoNullArgument
  BY DEF IInv, ParserOK, NoNullArgument
<1> QED BY <1>1, Invariance, PTL

\* The command and its arguments are the words that were typed, all and in
\* order, for lines of any length, with quotes and blanks wherever they may be.
THEOREM WordsArrive == Spec => []TokensAreTheWords
<1>1. IInv => TokensAreTheWords
  <2> SUFFICES ASSUME IInv, stage = "parsing", scan = "done"
               PROVE  \/ words = <<>> /\ argc = -1
                      \/ words # <<>> /\ <<name>> \o args = words /\ argc = Len(args)
    BY DEF TokensAreTheWords
  <2>1. PICK b, t, e : Carried(b, t, e)
    BY DEF IInv
  <2> DEFINE n == Len(words)
  <2>2. /\ argc = n - 1
        /\ n > 0 => Len(args) = argc /\ Arguments /\ name = words[1]
    BY <2>1 DEF Carried, Progress
  <2>3. words \in Seq(Seq(Typable)) /\ args \in Seq(Seq(Typable)) /\ n \in Nat /\ Len(args) \in Nat
    BY DEF IInv, TypingOK, ParserOK
  <2>4. CASE words = <<>>
    BY <2>2, <2>4
  <2>5. CASE words # <<>>
    <3>1. n > 0
      BY <2>3, <2>5
    <3>2. /\ Len(args) = n - 1 /\ name = words[1] /\ name \in Seq(Typable)
          /\ \A i \in 1 .. Len(args) : args[i] = words[i + 1]
      BY <2>2, <2>3, <3>1 DEF Arguments
    <3> DEFINE x == <<name>>
    <3>3. x \in Seq(Seq(Typable)) /\ Len(x) = 1 /\ x[1] = words[1]
      BY <3>2
    <3> HIDE DEF x
    <3>4. /\ x \o args \in Seq(Seq(Typable)) /\ Len(x \o args) = Len(x) + Len(args)
          /\ \A i \in 1 .. Len(x) + Len(args) :
               (x \o args)[i] = IF i <= Len(x) THEN x[i] ELSE args[i - Len(x)]
      BY <2>3, <3>3, ConcatProperties
    <3>5. Len(x) + Len(args) = n /\ Len(x \o args) = n
      BY <2>3, <3>2, <3>3, <3>4
    <3>6. ASSUME NEW i \in 1 .. n
          PROVE  (x \o args)[i] = words[i]
      <4>1. CASE i = 1
        BY <3>3, <3>4, <3>5, <4>1
      <4>2. CASE i # 1
        <5>1. i - 1 \in 1 .. Len(args) /\ ~(i <= Len(x)) /\ i - 1 + 1 = i
          BY <2>3, <3>2, <3>3, <4>2
        <5>2. (x \o args)[i] = args[i - 1]
          BY <3>3, <3>4, <3>5, <5>1
        <5> QED BY <3>2, <5>1, <5>2
      <4> QED BY <4>1, <4>2
    <3>7. x \o args = words
      BY <2>3, <3>4, <3>5, <3>6, SeqEqual
    <3> QED BY <2>2, <2>5, <3>1, <3>7 DEF x
  <2> QED BY <2>4, <2>5
<1> QED BY <1>1, Invariance, PTL

\* Neither client nor server reads past a buffer for anything but a line, a
\* string or an array that is too long for it: the readline functions never miss
\* the NUL of another reply, and each string that is shown came whole.
THEOREM OnlyLongTexts == Spec => []OnlyLongTextsOverrun
<1>1. JInv => OnlyLongTextsOverrun
  BY DEF JInv, Held
<1> QED BY <1>1, RepliesHeld, PTL

\* parse_resp shows what interpret answered, for all strings and all ints: every
\* character between the header and the last line end, every int with its sign.
THEOREM AnswersAreShown == Spec => []AnswerShown
<1>1. JInv => AnswerShown
  BY DEF JInv, Held
<1> QED BY <1>1, RepliesHeld, PTL

\* The reply_* functions allocate enough for every reply but one with the least
\* int in it, which ndigits counts no digits of.
THEOREM OnlyTheLeastIntOverflows == Spec => []BuffersSuffice
<1>1. JInv => BuffersSuffice
  <2> SUFFICES ASSUME JInv, stage = "replying" PROVE BuffersSuffice
    BY DEF BuffersSuffice
  <2>1. ReplyKnown(answer, reply)
    BY RepliedKnown DEF JInv, Held
  <2> QED BY <2>1 DEF ReplyKnown, BuffersSuffice, ReadsLeast, Least
<1> QED BY <1>1, RepliesHeld, PTL

-----------------------------------------------------------------------------
(* The end of a parse *)

\* What a parse has left to do, at most: two steps for each character that the
\* scan has ahead of it, as many for each scan that is to come.
Left ==
  LET whole == 2 * Len(string) + 2
      ahead == 2 * (Len(string) - pos) + IF mode = "blanks" THEN 0 ELSE 1
  IN  CASE scan = "name"  -> 2 * whole + ahead
        [] scan = "count" -> whole + ahead
        [] scan = "args"  -> ahead
        [] OTHER          -> -1

\* Each step of the parser leaves less to do.
LEMMA ParseShortens ==
  ASSUME ParserOK, ParserOK', parse
  PROVE  Left \in Nat /\ Left' \in Int /\ Left' < Left
<1> DEFINE n == Len(string)
<1>1. /\ n \in Nat /\ parser \in 0 .. n /\ dup \in 0 .. n /\ pos \in 0 .. n
      /\ mode \in {"blanks", "id", "string"}
  BY DEF ParserOK, pos
<1>2. string' = string /\ parser' \in 0 .. n /\ dup' \in 0 .. n /\ pos' \in 0 .. n
  <2>1. string' = string
    BY DEF parse, SkipBlank, NoToken, OpenString, OpenId, parse_string, parse_id, Step, Return
  <2> QED BY <2>1 DEF ParserOK, pos
<1>3. /\ scan \in {"name", "count", "args"}
      /\ mode' \in {"blanks", "id", "string"} /\ scan' \in {"name", "count", "args", "done"}
  BY DEF parse, Scanning, SkipBlank, NoToken, OpenString, OpenId, parse_string, parse_id, ParserOK
<1> DEFINE a == 2 * (n - pos) + (IF mode = "blanks" THEN 0 ELSE 1)
           a2 == 2 * (n - pos') + (IF mode' = "blanks" THEN 0 ELSE 1)
<1>4. a \in 0 .. 2 * n + 1 /\ a2 \in 0 .. 2 * n + 1
  BY <1>1, <1>2
<1>5. CASE scan' = scan
  <2>1. \/ pos < n /\ pos' = pos + 1
        \/ mode # "blanks" /\ mode' = "blanks" /\ pos' = pos
    <3>1. ASSUME NEW where, NEW kept, Step(where, kept), current_char # NULL
          PROVE  pos < n /\ pos' = pos + 1
      <4>1. pos < n
        BY <1>1, <3>1 DEF current_char
      <4>2. pos' = Advanced
        BY <1>5, <3>1 DEF Step, MoveTo, pos
      <4> QED BY <1>1, <4>1, <4>2 DEF Advanced
    <3>2. ASSUME NEW t, NEW p, Return(t, p)
          PROVE  mode' = "blanks" /\ pos' = p
      BY <1>5, <3>2 DEF Return, MoveTo, pos
    <3>3. CASE SkipBlank \/ OpenString \/ OpenId
      <4>1. current_char # NULL
        BY <3>3, CharAssumption DEF SkipBlank, OpenString, OpenId
      <4> QED BY <3>1, <3>3, <4>1 DEF SkipBlank, OpenString, OpenId
    <3>4. CASE NoToken
      <4>1. Return(NULL, pos)
        BY <3>4 DEF NoToken
      <4>2. scan' # scan
        BY <1>3, <4>1 DEF Return
      <4> QED BY <1>5, <4>2
    <3>5. CASE parse_string
      <4>1. mode # "blanks"
        BY <3>5 DEF parse_string, Scanning
      <4>2. CASE ~EndsString /\ Step("string", <<current_char>>)
        <5>1. current_char # NULL
          BY <4>2 DEF EndsString
        <5> QED BY <3>1, <4>2, <5>1
      <4>3. CASE EndsString /\ Return(token, Advanced)
        <5>1. mode' = "blanks" /\ pos' = Advanced
          BY <3>2, <4>3
        <5> QED BY <1>1, <4>1, <5>1 DEF Advanced
      <4> QED BY <3>5, <4>2, <4>3 DEF parse_string
    <3>6. CASE parse_id
      <4>1. mode # "blanks"
        BY <3>6 DEF parse_id, Scanning
      <4>2. CASE ~EndsId /\ Step("id", <<current_char>>)
        <5>1. current_char # NULL
          BY <4>2 DEF EndsId
        <5> QED BY <3>1, <4>2, <5>1
      <4>3. CASE EndsId /\ Return(token, pos)
        BY <3>2, <4>1, <4>3
      <4> QED BY <3>6, <4>2, <4>3 DEF parse_id
    <3> QED BY <3>3, <3>4, <3>5, <3>6 DEF parse
  <2>2. a2 < a
    BY <1>1, <1>2, <2>1
  <2> HIDE DEF a, a2
  <2>3. /\ Left = CASE scan = "name" -> 2 * (2 * n + 2) + a [] scan = "count" -> 2 * n + 2 + a
                    [] scan = "args" -> a [] OTHER -> -1
        /\ Left' = CASE scan = "name" -> 2 * (2 * n + 2) + a2 [] scan = "count" -> 2 * n + 2 + a2
                     [] scan = "args" -> a2 [] OTHER -> -1
    BY <1>2, <1>5 DEF Left, a, a2
  <2> HIDE DEF n
  <2> QED BY <1>1, <1>3, <1>4, <2>2, <2>3
<1>6. CASE scan' # scan
  <2>1. \/ scan = "name" /\ scan' = "count"
        \/ scan = "count" /\ scan' \in {"args", "done"}
        \/ scan = "args" /\ scan' = "done"
    <3>1. \E t, p : Return(t, p)
      BY <1>6 DEF parse, SkipBlank, NoToken, OpenString, OpenId, parse_string, parse_id, Step
    <3>2. PICK t, p : Return(t, p)
      BY <3>1
    <3> QED BY <1>3, <1>6, <3>2 DEF Return
  <2> HIDE DEF a, a2
  <2>2. /\ Left = CASE scan = "name" -> 2 * (2 * n + 2) + a [] scan = "count" -> 2 * n + 2 + a
                    [] scan = "args" -> a [] OTHER -> -1
        /\ Left' = CASE scan' = "name" -> 2 * (2 * n + 2) + a2 [] scan' = "count" -> 2 * n + 2 + a2
                     [] scan' = "args" -> a2 [] OTHER -> -1
    BY <1>2 DEF Left, a, a2
  <2> HIDE DEF n
  <2> QED BY <1>1, <1>4, <2>1, <2>2
<1> QED BY <1>5, <1>6

\* The loops of the parser end, whatever the message is: each of their turns
\* leaves less of what Left counts, which is never more than 6 * Len(string) + 5.
THEOREM ParsesEnd ==
  Spec => [][Parse => Left \in 0 .. 6 * Len(string) + 5 /\ Left' < Left]_vars
<1>1. IInv /\ [Next]_vars => [Parse => Left \in 0 .. 6 * Len(string) + 5 /\ Left' < Left]_vars
  <2> SUFFICES ASSUME IInv, [Next]_vars, Parse
               PROVE  Left \in 0 .. 6 * Len(string) + 5 /\ Left' < Left
    OBVIOUS
  <2>1. ParserOK /\ ParserOK'
    BY NextIInv DEF IInv
  <2>2. parse
    BY DEF Parse
  <2>3. Left \in Nat /\ Left' < Left
    BY <2>1, <2>2, ParseShortens
  <2>4. Left <= 6 * Len(string) + 5
    <3>1. /\ Len(string) \in Nat /\ pos \in 0 .. Len(string)
          /\ scan \in {"name", "count", "args", "done"}
      BY <2>1 DEF ParserOK, pos
    <3> QED BY <3>1 DEF Left
  <2> QED BY <2>3, <2>4, <2>1 DEF ParserOK
<1> QED BY <1>1, Invariance, PTL DEF Spec

-----------------------------------------------------------------------------
(* Ints and texts *)

\* The client reads from the reply to an integer command the int that was
\* printed, and strtoi makes of what intostr printed the int it was made of:
\* the least int and those below zero included, for ints of any width.
THEOREM IntsReturn ==
  \A x \in IntRange : parse_int(reply_integer(x).text) = x /\ strtoi(intostr(x).text) = x
<1> SUFFICES ASSUME NEW x \in IntRange
             PROVE  parse_int(reply_integer(x).text) = x /\ strtoi(intostr(x).text) = x
  OBVIOUS
<1>1. Read(reply_integer(x).text, ":", x, <<>>)
  BY AnyCharFacts, IntegerReply, Zenon DEF Headed
<1>2. parse_int(reply_integer(x).text) = x
  BY <1>1, IntRead, Zenon
<1>3. intostr(x).text = Printed(x)
  BY Zenon DEF intostr, Buffer
<1> QED BY <1>2, <1>3, PrintedReads, Zenon
=============================================================================
