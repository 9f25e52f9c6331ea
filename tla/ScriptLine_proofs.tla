---------------------------- MODULE ScriptLine_proofs --------------------------
(*****************************************************************************)
(* Proofs about ScriptLine, for any characters, any commands and any flags:  *)
(* the arguments of a run line arrive as they were written, and those        *)
(* without commas and double quotes also behind acbuild-chroot.  A word is   *)
(* followed through the folds of the model: what tokenizeLine, joinLines and *)
(* the flag library hold after each character, line or argument.             *)
(*****************************************************************************)
EXTENDS ScriptLine, Lists_proofs

-----------------------------------------------------------------------------
(* tokenizeLine.                                                               *)

Reading == [tokens : Seq(Seq(Char)), buf : Seq(Char), quote : {"none", "'", "\""},
            escaped : BOOLEAN, comment : BOOLEAN]
ReadOp == [p \in Reading \X Char |-> Read(p[1], p[2])]

LEMMA SpecialChars == Special \subseteq Char /\ {"r", "u", "n", "-", ",", Space, "\\", "'", "\""} \subseteq Char
BY CharAssumption DEF Special, Space

LEMMA ReadType == ASSUME NEW s \in Reading, NEW c \in Char PROVE Read(s, c) \in Reading
<1>1. /\ Append(s.buf, c) \in Seq(Char) /\ Append(s.tokens, s.buf) \in Seq(Seq(Char))
      /\ <<>> \in Seq(Char)
  <2>1. s.buf \in Seq(Char) /\ s.tokens \in Seq(Seq(Char))
    BY DEF Reading
  <2> QED  BY <2>1, AppendProperties, EmptySeq
<1>2. Flush(s) \in Reading
  BY <1>1 DEF Flush, Reading
<1> HIDE DEF Flush
<1>3. [Flush(s) EXCEPT !.comment = TRUE] \in Reading
  BY <1>2 DEF Reading
<1>4. /\ [s EXCEPT !.buf = Append(@, c), !.escaped = FALSE] \in Reading
      /\ [s EXCEPT !.buf = Append(@, c)] \in Reading
      /\ [s EXCEPT !.escaped = TRUE] \in Reading
      /\ c \in {"'", "\""} => [s EXCEPT !.quote = IF @ = "none" THEN c ELSE "none"] \in Reading
  BY <1>1 DEF Reading
<1> QED  BY <1>2, <1>3, <1>4 DEF Read

LEMMA SameReading ==
    ASSUME NEW r \in Reading, NEW s \in Reading,
           r.tokens = s.tokens, r.buf = s.buf, r.quote = s.quote,
           r.escaped = s.escaped, r.comment = s.comment
    PROVE  r = s
<1> DEFINE copy(x) == [tokens |-> x.tokens, buf |-> x.buf, quote |-> x.quote,
                       escaped |-> x.escaped, comment |-> x.comment]
<1>1. r = copy(r) /\ s = copy(s)
  BY DEF Reading
<1>2. copy(r) = copy(s)
  BY Zenon
<1> HIDE DEF copy
<1> QED  BY <1>1, <1>2

LEMMA ReadOpIs ==
    /\ ReadOp \in [Reading \X Char -> Reading]
    /\ \A s \in Reading, c \in Char : ReadOp[<<s, c>>] = Read(s, c)
<1>1. \A p \in Reading \X Char : Read(p[1], p[2]) \in Reading
  BY ReadType
<1> QED  BY <1>1 DEF ReadOp

LEMMA ReadFolds ==
    ASSUME NEW base \in Reading, NEW line \in Seq(Char)
    PROVE  Folds(ReadOp, base, line, FoldLeft(Read, base, line))
<1> DEFINE n == Len(line)
           Body(f) == [s \in SUBSET (1..n) |->
                          IF s = {} THEN base ELSE Read(f[s \ {Max(s)}], line[Max(s)])]
<1>1. n \in Nat /\ line \in [1..n -> Char] /\ DOMAIN line = 1..n
  OBVIOUS
<1>2. PICK f \in [SUBSET (1..n) -> Reading] : SetFold(ReadOp, base, line, f)
  <2>1. n \in Nat
    BY <1>1
  <2>2. line \in [1..n -> Char]
    BY <1>1
  <2>3. ReadOp \in [Reading \X Char -> Reading]
    BY ReadOpIs
  <2> HIDE DEF n
  <2> QED  BY <2>1, <2>2, <2>3, FoldExists, Zenon
<1>3. f = Body(f)
  <2>1. ASSUME NEW s \in SUBSET (1..n), s # {}
        PROVE  f[s] = Read(f[s \ {Max(s)}], line[Max(s)])
    <3>1. Max(s) \in 1..n /\ s \ {Max(s)} \in SUBSET (1..n)
      BY <1>1, <2>1, MaxIn
    <3>2. f[s \ {Max(s)}] \in Reading /\ line[Max(s)] \in Char
      BY <1>1, <3>1
    <3>3. f[s] = ReadOp[<<f[s \ {Max(s)}], line[Max(s)]>>]
      BY <1>2, <2>1 DEF SetFold
    <3> QED  BY <3>2, <3>3, ReadOpIs
  <2>2. f[{}] = base
    BY <1>2 DEF SetFold
  <2> HIDE DEF n
  <2> QED  BY <2>1, <2>2
<1>4. PICK h : h = Body(h) /\ FoldLeft(Read, base, line) = h[1..n]
  <2>1. \E h : h = Body(h)
    BY <1>3
  <2> QED  BY <1>1, <2>1 DEF FoldLeft, MapThenFoldSet
<1>5. h[{}] = base
  BY <1>4
<1>6. ASSUME NEW k \in 1..Len(line)
      PROVE  h[1..(k - 1)] \in Reading => h[1..k] = ReadOp[<<h[1..(k - 1)], line[k]>>]
  <2>0. k \in Nat \ {0}
    BY <1>1
  <2>1. 1..k # {} /\ Max(1..k) = k /\ (1..k) \ {k} = 1..(k - 1)
    BY <2>0, MaxOfInterval, Zenon
  <2>2. 1..k \in SUBSET (1..n) /\ line[k] \in Char
    BY <1>1
  <2>3. h[1..k] = Read(h[(1..k) \ {Max(1..k)}], line[Max(1..k)])
    BY <1>4, <2>1, <2>2
  <2>4. h[1..k] = Read(h[1..(k - 1)], line[k])
    BY <2>1, <2>3
  <2> QED  BY <2>2, <2>4, ReadOpIs
<1>7. ReadOp \in [Reading \X Char -> Reading]
  BY ReadOpIs
<1>8. Folds(ReadOp, base, line, h[1..Len(line)])
  BY <1>5, <1>6, <1>7, IterFolds, Zenon
<1> QED  BY <1>4, <1>8
\* What has been read: words, the beginning of the next, and the quotes it is in.
In(tokens, buf, quote) ==
    [tokens |-> tokens, buf |-> buf, quote |-> quote, escaped |-> FALSE, comment |-> FALSE]

LEMMA ReadIn ==
    ASSUME NEW tokens \in Seq(Seq(Char)), NEW buf \in Seq(Char), NEW q \in {"none", "'", "\""},
           NEW c \in Char
    PROVE  /\ In(tokens, buf, q) \in Reading
           /\ [In(tokens, buf, q) EXCEPT !.escaped = TRUE] \in Reading
           /\ ReadOp[<<In(tokens, buf, q), c>>] = Read(In(tokens, buf, q), c)
           /\ ReadOp[<<[In(tokens, buf, q) EXCEPT !.escaped = TRUE], c>>] = In(tokens, Append(buf, c), q)
<1> DEFINE s == In(tokens, buf, q)
           e == [s EXCEPT !.escaped = TRUE]
<1>1. s \in Reading /\ e \in Reading
  BY DEF In, Reading
<1>2. Read(e, c) = In(tokens, Append(buf, c), q)
  BY DEF Read, In
<1> QED  BY <1>1, <1>2, ReadOpIs

\* The characters that a writer escapes, by the quotes around them.
Escapes(quote, special) ==
    \/ quote = "none" /\ special = Special
    \/ quote = "'" /\ special = {"'", "\\"}
    \/ quote = "\"" /\ special = {"\"", "\\"}

LEMMA ReadPlain ==
    ASSUME NEW tokens \in Seq(Seq(Char)), NEW buf \in Seq(Char), NEW q, NEW special,
           Escapes(q, special), NEW c \in Char \ special
    PROVE  ReadOp[<<In(tokens, buf, q), c>>] = In(tokens, Append(buf, c), q)
<1>1. q \in {"none", "'", "\""}
  BY DEF Escapes
<1>2. Read(In(tokens, buf, q), c) = In(tokens, Append(buf, c), q)
  <2>1. CASE q = "none" /\ special = Special
    <3>1. c \notin {Space, "'", "\"", "\\", "#"}
      BY <2>1 DEF Special
    <3> QED  BY <2>1, <3>1 DEF Read, In
  <2>2. CASE q = "'" /\ special = {"'", "\\"}
    BY <2>2 DEF Read, In
  <2>3. CASE q = "\"" /\ special = {"\"", "\\"}
    BY <2>3 DEF Read, In
  <2> QED  BY <2>1, <2>2, <2>3 DEF Escapes
<1> QED  BY <1>1, <1>2, ReadIn

Piece(special, c) == IF c \in special THEN <<"\\", c>> ELSE <<c>>

LEMMA ReadEscaped ==
    ASSUME NEW tokens \in Seq(Seq(Char)), NEW buf \in Seq(Char), NEW q, NEW special,
           Escapes(q, special), NEW c \in Char
    PROVE  Folds(ReadOp, In(tokens, buf, q), Piece(special, c), In(tokens, Append(buf, c), q))
<1>0. q \in {"none", "'", "\""} /\ "\\" \in Char
  BY SpecialChars DEF Escapes
<1>1. CASE c \notin special
  <2>1. ReadOp[<<In(tokens, buf, q), c>>] = In(tokens, Append(buf, c), q)
    BY <1>1, ReadPlain
  <2>2. Folds(ReadOp, In(tokens, buf, q), <<c>>, ReadOp[<<In(tokens, buf, q), c>>])
    BY FoldsOne
  <2> QED  BY <1>1, <2>1, <2>2 DEF Piece
<1>2. CASE c \in special
  <2> DEFINE s == In(tokens, buf, q)
             e == [s EXCEPT !.escaped = TRUE]
  <2>1. Read(s, "\\") = e
    BY DEF Read, In, Space
  <2>2. ReadOp[<<s, "\\">>] = e /\ ReadOp[<<e, c>>] = In(tokens, Append(buf, c), q)
    <3> HIDE DEF e
    <3>1. ReadOp[<<s, "\\">>] = Read(s, "\\")
      BY <1>0, ReadIn
    <3>2. ReadOp[<<e, c>>] = In(tokens, Append(buf, c), q)
      BY <1>0, ReadIn DEF e
    <3> QED  BY <2>1, <3>1, <3>2
  <2> HIDE DEF s, e
  <2>3. Folds(ReadOp, s, <<"\\">>, e) /\ Folds(ReadOp, e, <<c>>, In(tokens, Append(buf, c), q))
    <3>1. /\ Folds(ReadOp, s, <<"\\">>, ReadOp[<<s, "\\">>])
          /\ Folds(ReadOp, e, <<c>>, ReadOp[<<e, c>>])
      BY FoldsOne
    <3> QED  BY <2>2, <3>1
  <2>4. <<"\\">> \in Seq(Char) /\ <<c>> \in Seq(Char) /\ <<"\\">> \o <<c>> = <<"\\", c>>
    BY <1>0, Pair
  <2>5. Folds(ReadOp, s, <<"\\">> \o <<c>>, In(tokens, Append(buf, c), q))
    BY <2>3, <2>4, FoldsThen
  <2> QED  BY <1>2, <2>4, <2>5 DEF s, Piece
<1> QED  BY <1>1, <1>2

LEMMA EscapeType ==
    ASSUME NEW special \in SUBSET Char, NEW word \in Seq(Char)
    PROVE  Escape(special, word) \in Seq(Char)
<1> DEFINE ss == [i \in DOMAIN word |-> IF word[i] \in special THEN <<"\\", word[i]>> ELSE <<word[i]>>]
<1>1. Len(word) \in Nat /\ DOMAIN word = 1..Len(word) /\ \A i \in 1..Len(word) : word[i] \in Char
  OBVIOUS
<1>2. "\\" \in Char
  BY SpecialChars
<1>3. ss \in [1..Len(word) -> Seq(Char)]
  BY <1>1, <1>2
<1>4. FlattenSeq(ss) \in Seq(Char)
  <2> HIDE DEF ss
  <2> QED  BY <1>1, <1>3, FlattenFacts
<1> QED  BY <1>4 DEF Escape

LEMMA ReadEscape ==
    ASSUME NEW tokens \in Seq(Seq(Char)), NEW q, NEW special,
           Escapes(q, special), NEW word \in Seq(Char)
    PROVE  Folds(ReadOp, In(tokens, <<>>, q), Escape(special, word), In(tokens, word, q))
<1> DEFINE n == Len(word)
           ss == [i \in DOMAIN word |-> IF word[i] \in special THEN <<"\\", word[i]>> ELSE <<word[i]>>]
           v == [k \in 0..n |-> In(tokens, SubSeq(word, 1, k), q)]
<1>1. n \in Nat /\ DOMAIN word = 1..n /\ \A i \in 1..n : word[i] \in Char
  OBVIOUS
<1>2. "\\" \in Char
  BY SpecialChars
<1>3. ss \in [1..n -> Seq(Char)]
  BY <1>1, <1>2
<1>4. ASSUME NEW k \in 1..n PROVE Folds(ReadOp, v[k - 1], ss[k], v[k])
  <2>1. /\ SubSeq(word, 1, k) = Append(SubSeq(word, 1, k - 1), word[k])
        /\ SubSeq(word, 1, k - 1) \in Seq(Char) /\ word[k] \in Char
    BY Beginnings
  <2>2. /\ v[k - 1] = In(tokens, SubSeq(word, 1, k - 1), q)
        /\ v[k] = In(tokens, SubSeq(word, 1, k), q)
    BY <1>1
  <2>3. ss[k] = Piece(special, word[k])
    BY <1>1 DEF Piece
  <2> HIDE DEF v, ss
  <2>4. Folds(ReadOp, In(tokens, SubSeq(word, 1, k - 1), q), ss[k],
              In(tokens, Append(SubSeq(word, 1, k - 1), word[k]), q))
    BY <2>1, <2>3, ReadEscaped
  <2> QED  BY <2>1, <2>2, <2>4
<1>5. Folds(ReadOp, v[0], FlattenSeq(ss), v[n])
  <2> HIDE DEF v, ss, n
  <2> QED  BY <1>1, <1>3, <1>4, FoldsFlatten
<1>6. v[0] = In(tokens, <<>>, q) /\ v[n] = In(tokens, word, q)
  <2>1. SubSeq(word, 1, 0) = <<>> /\ SubSeq(word, 1, n) = word
    BY NoBeginning, SubSeqFull
  <2>2. 0 \in 0..n /\ n \in 0..n
    BY <1>1
  <2>3. v[0] = In(tokens, SubSeq(word, 1, 0), q) /\ v[n] = In(tokens, SubSeq(word, 1, n), q)
    BY <2>2
  <2> HIDE DEF v, n
  <2> QED  BY <2>1, <2>3
<1> QED  BY <1>5, <1>6 DEF Escape

\* A word comes out as it was meant, however it was written.
AllStyles == {"escaped", "single", "double"}
LEMMA ReadWritten ==
    ASSUME NEW tokens \in Seq(Seq(Char)), NEW style \in AllStyles, NEW word \in Seq(Char)
    PROVE  /\ Written(style, word) \in Seq(Char)
           /\ Folds(ReadOp, In(tokens, <<>>, "none"), Written(style, word), In(tokens, word, "none"))
<1> DEFINE quoted(q) == <<q>> \o Escape({q, "\\"}, word) \o <<q>>
<1>0. {"'", "\"", "\\"} \subseteq Char /\ Special \subseteq Char /\ <<>> \in Seq(Char)
  BY SpecialChars, EmptySeq, Zenon
<1>1. CASE style = "escaped"
  <2>1. Written(style, word) = Escape(Special, word)
    BY <1>1 DEF Written
  <2>2. Escapes("none", Special)
    BY DEF Escapes
  <2> QED  BY <1>0, <2>1, <2>2, EscapeType, ReadEscape
<1>2. ASSUME NEW q \in {"'", "\""}
      PROVE  /\ quoted(q) \in Seq(Char)
             /\ Folds(ReadOp, In(tokens, <<>>, "none"), quoted(q), In(tokens, word, "none"))
  <2> DEFINE text == Escape({q, "\\"}, word)
  <2>1. text \in Seq(Char) /\ <<q>> \in Seq(Char)
    <3>1. {q, "\\"} \in SUBSET Char /\ q \in Char
      BY <1>0
    <3>2. text \in Seq(Char)
      BY <3>1, EscapeType, Zenon
    <3> QED  BY <3>1, <3>2, MembersOfOne
  <2>2. Escapes(q, {q, "\\"})
    BY DEF Escapes
  <2>3. Folds(ReadOp, In(tokens, <<>>, q), text, In(tokens, word, q))
    BY <2>2, ReadEscape
  <2> HIDE DEF text
  <2>4. /\ Read(In(tokens, <<>>, "none"), q) = In(tokens, <<>>, q)
        /\ Read(In(tokens, word, q), q) = In(tokens, word, "none")
    BY DEF Read, In, Space
  <2>5. /\ ReadOp[<<In(tokens, <<>>, "none"), q>>] = In(tokens, <<>>, q)
        /\ ReadOp[<<In(tokens, word, q), q>>] = In(tokens, word, "none")
    <3>0. q \in Char /\ q \in {"none", "'", "\""} /\ "none" \in {"none", "'", "\""}
      BY <1>0
    <3>1. ReadOp[<<In(tokens, <<>>, "none"), q>>] = Read(In(tokens, <<>>, "none"), q)
      BY <1>0, <3>0, ReadIn
    <3>2. ReadOp[<<In(tokens, word, q), q>>] = Read(In(tokens, word, q), q)
      BY <3>0, ReadIn
    <3> QED  BY <2>4, <3>1, <3>2
  <2>6. /\ Folds(ReadOp, In(tokens, <<>>, "none"), <<q>>, In(tokens, <<>>, q))
        /\ Folds(ReadOp, In(tokens, word, q), <<q>>, In(tokens, word, "none"))
    BY <2>5, FoldsOne
  <2>7. <<q>> \o text \in Seq(Char)
    BY <2>1, ConcatProperties
  <2>8. Folds(ReadOp, In(tokens, <<>>, "none"), <<q>> \o text, In(tokens, word, q))
    BY <2>1, <2>3, <2>6, FoldsThen
  <2>9. Folds(ReadOp, In(tokens, <<>>, "none"), (<<q>> \o text) \o <<q>>, In(tokens, word, "none"))
    BY <2>1, <2>6, <2>7, <2>8, FoldsThen
  <2>10. (<<q>> \o text) \o <<q>> \in Seq(Char)
    BY <2>1, <2>7, ConcatProperties
  <2> QED  BY <2>9, <2>10 DEF text
<1>3. CASE style = "single"
  <2>1. Written(style, word) = quoted("'")
    BY <1>3 DEF Written
  <2> QED  BY <1>2, <2>1
<1>4. CASE style = "double"
  <2>1. Written(style, word) = quoted("\"")
    BY <1>4 DEF Written
  <2> QED  BY <1>2, <2>1
<1> QED  BY <1>1, <1>3, <1>4 DEF AllStyles
\* After some words: at the end of the last one, or behind it.
AtEndOf(words) == In(Front(words), Last(words), "none")
Behind(words) == In(words, <<>>, "none")
Reads(text, word) ==
    \A words \in Seq(Word) : Folds(ReadOp, Behind(words), text, In(words, word, "none"))

LEMMA WordLists ==
    /\ Word \subseteq Seq(Char) /\ Seq(Word) \subseteq Seq(Seq(Char)) /\ <<>> \in Seq(Char)
    /\ <<>> \in Seq(Word) /\ <<>> \in Seq(Seq(Char)) /\ <<>> \notin Word
<1>1. Word \subseteq Seq(Char) /\ <<>> \notin Word
  BY DEF Word
<1> QED  BY <1>1, SeqMonotonic, EmptySeq

LEMMA AtEndOfOne ==
    ASSUME NEW words \in Seq(Word), NEW word \in Word
    PROVE  AtEndOf(Append(words, word)) = In(words, word, "none")
<1>1. Front(Append(words, word)) = words /\ Last(Append(words, word)) = word
  BY AppendEnds
<1> QED  BY <1>1 DEF AtEndOf

LEMMA ReadBlank ==
    ASSUME NEW words \in Seq(Word), words # <<>>, NEW s \in {AtEndOf(words), Behind(words)}
    PROVE  Folds(ReadOp, s, <<Space>>, Behind(words))
<1>0. Space \in Char /\ "none" \in {"none", "'", "\""}
  BY SpecialChars
<1>1. /\ Front(words) \in Seq(Word) /\ Last(words) \in Word
      /\ Append(Front(words), Last(words)) = words
  BY FrontLast
<1>2. CASE s = AtEndOf(words)
  <2>1. Read(s, Space) = Flush(s)
    BY <1>2 DEF Read, AtEndOf, In, Space
  <2>2. s.buf = Last(words) /\ s.tokens = Front(words) /\ s.buf # <<>>
    BY <1>1, <1>2, WordLists DEF AtEndOf, In
  <2>3. Flush(s) = [s EXCEPT !.tokens = words, !.buf = <<>>]
    BY <1>1, <2>2 DEF Flush
  <2>4. [s EXCEPT !.tokens = words, !.buf = <<>>] = Behind(words)
    <3> DEFINE t == [s EXCEPT !.tokens = words, !.buf = <<>>]
    <3>1. s \in Reading /\ Behind(words) \in Reading
      BY <1>0, <1>1, <1>2, ReadIn, WordLists DEF AtEndOf, Behind
    <3>2. t \in Reading /\ t.tokens = words /\ t.buf = <<>> /\ t.quote = s.quote
          /\ t.escaped = s.escaped /\ t.comment = s.comment
      BY <3>1, WordLists DEF Reading
    <3>3. /\ Behind(words).tokens = words /\ Behind(words).buf = <<>>
          /\ Behind(words).quote = s.quote /\ Behind(words).escaped = s.escaped
          /\ Behind(words).comment = s.comment
      BY <1>2 DEF AtEndOf, Behind, In
    <3> HIDE DEF t
    <3>4. t = Behind(words)
      BY <3>1, <3>2, <3>3, SameReading
    <3> QED  BY <3>4 DEF t
  <2>5. ReadOp[<<s, Space>>] = Read(s, Space)
    BY <1>0, <1>1, <1>2, ReadIn, WordLists DEF AtEndOf
  <2>6. ReadOp[<<s, Space>>] = Behind(words)
    BY <2>1, <2>3, <2>4, <2>5
  <2> QED  BY <2>6, FoldsOne
<1>3. CASE s = Behind(words)
  <2>1. Read(s, Space) = s
    BY <1>3 DEF Read, Behind, In, Space, Flush
  <2>2. ReadOp[<<s, Space>>] = Read(s, Space)
    BY <1>0, <1>3, ReadIn, WordLists DEF Behind
  <2>3. ReadOp[<<s, Space>>] = Behind(words)
    BY <1>3, <2>1, <2>2
  <2> QED  BY <2>3, FoldsOne
<1> QED  BY <1>2, <1>3

LEMMA SpacedType ==
    ASSUME NEW n \in Nat, NEW texts \in [1..n -> Seq(Char)]
    PROVE  /\ Spaced(texts) \in Seq(Char)
           /\ \A k \in 1..n : <<Space>> \o texts[k] \in Seq(Char)
<1> DEFINE ss == [i \in DOMAIN texts |-> <<Space>> \o texts[i]]
<1>1. <<Space>> \in Seq(Char)
  BY SpecialChars, MembersOfOne
<1>2. \A k \in 1..n : <<Space>> \o texts[k] \in Seq(Char)
  BY <1>1, ConcatProperties
<1>3. ss \in [1..n -> Seq(Char)]
  BY <1>2
<1>4. FlattenSeq(ss) \in Seq(Char)
  <2> HIDE DEF ss
  <2> QED  BY <1>3, FlattenFacts
<1> QED  BY <1>2, <1>4 DEF Spaced

LEMMA ReadSpaced ==
    ASSUME NEW first \in Seq(Word), first # <<>>, NEW s \in {AtEndOf(first), Behind(first)},
           NEW words \in Seq(Word), NEW texts \in [1..Len(words) -> Seq(Char)],
           \A k \in 1..Len(words) : Reads(texts[k], words[k])
    PROVE  Folds(ReadOp, s, Spaced(texts),
                 IF words = <<>> THEN s ELSE AtEndOf(first \o words))
<1> DEFINE n == Len(words)
           ss == [i \in DOMAIN texts |-> <<Space>> \o texts[i]]
           sofar(k) == first \o SubSeq(words, 1, k)
           v == [k \in 0..n |-> IF k = 0 THEN s ELSE AtEndOf(sofar(k))]
<1>1. n \in Nat /\ DOMAIN texts = 1..n
  OBVIOUS
<1>2. ss \in [1..n -> Seq(Char)]
  BY <1>1, SpacedType
<1>3. ASSUME NEW k \in 1..n PROVE Folds(ReadOp, v[k - 1], ss[k], v[k])
  <2>1. /\ SubSeq(words, 1, k) = Append(SubSeq(words, 1, k - 1), words[k])
        /\ SubSeq(words, 1, k - 1) \in Seq(Word) /\ words[k] \in Word
    BY Beginnings
  <2>2. /\ sofar(k - 1) \in Seq(Word) /\ sofar(k - 1) # <<>>
        /\ sofar(k) = Append(sofar(k - 1), words[k])
    <3>1. sofar(k - 1) \in Seq(Word) /\ sofar(k - 1) # <<>>
      BY <2>1, ConcatProperties, ConcatEqualIffEmpty
    <3>2. first \o Append(SubSeq(words, 1, k - 1), words[k])
              = Append(first \o SubSeq(words, 1, k - 1), words[k])
      BY <2>1, ConcatAppend
    <3> QED  BY <2>1, <3>1, <3>2
  <2>3. v[k - 1] \in {AtEndOf(sofar(k - 1)), Behind(sofar(k - 1))}
    <3>1. CASE k = 1
      <4>1. sofar(0) = first
        BY NoBeginning, ConcatEmptySeq
      <4>2. k - 1 = 0 /\ v[0] = s
        BY <1>1, <3>1
      <4> HIDE DEF v, sofar
      <4> QED  BY <4>1, <4>2
    <3>2. CASE k # 1
      <4>1. k - 1 \in 0..n /\ k - 1 # 0
        BY <1>1, <3>2
      <4> HIDE DEF sofar
      <4> QED  BY <4>1
    <3> QED  BY <3>1, <3>2
  <2>4. v[k] = AtEndOf(sofar(k))
    BY <1>1
  <2>5. ss[k] = <<Space>> \o texts[k]
    BY <1>1
  <2>6. <<Space>> \in Seq(Char) /\ texts[k] \in Seq(Char)
    BY <1>1, SpecialChars, MembersOfOne
  <2> HIDE DEF v, ss, sofar
  <2>7. Folds(ReadOp, v[k - 1], <<Space>>, Behind(sofar(k - 1)))
    BY <2>2, <2>3, ReadBlank
  <2>8. Folds(ReadOp, Behind(sofar(k - 1)), texts[k], In(sofar(k - 1), words[k], "none"))
    BY <2>2 DEF Reads
  <2>9. In(sofar(k - 1), words[k], "none") = v[k]
    BY <2>1, <2>2, <2>4, AtEndOfOne
  <2>10. Folds(ReadOp, v[k - 1], <<Space>> \o texts[k], v[k])
    BY <2>6, <2>7, <2>8, <2>9, FoldsThen
  <2> QED  BY <2>5, <2>10
<1>4. Folds(ReadOp, v[0], FlattenSeq(ss), v[n])
  <2> HIDE DEF v, ss, n
  <2> QED  BY <1>1, <1>2, <1>3, FoldsFlatten
<1>5. v[0] = s
  BY <1>1
<1>6. v[n] = IF words = <<>> THEN s ELSE AtEndOf(first \o words)
  <2>1. SubSeq(words, 1, n) = words
    BY SubSeqFull
  <2>2. n \in 0..n /\ (n = 0 <=> words = <<>>)
    BY <1>1, EmptySeq
  <2>3. v[n] = IF n = 0 THEN s ELSE AtEndOf(sofar(n))
    BY <2>2
  <2> HIDE DEF n, v
  <2> QED  BY <2>1, <2>2, <2>3
<1> QED  BY <1>4, <1>5, <1>6 DEF Spaced

\* A word of characters without a meaning is read as it is.
LEMMA ReadsPlain ==
    ASSUME NEW word \in Seq(Char), \A i \in 1..Len(word) : word[i] \notin Special
    PROVE  Reads(word, word)
<1> SUFFICES ASSUME NEW words \in Seq(Word)
             PROVE  Folds(ReadOp, Behind(words), word, In(words, word, "none"))
  BY DEF Reads
<1> DEFINE n == Len(word)
           v == [k \in 0..n |-> In(words, SubSeq(word, 1, k), "none")]
<1>1. n \in Nat /\ 0 \in 0..n /\ n \in 0..n /\ Escapes("none", Special) /\ words \in Seq(Seq(Char))
  BY WordLists DEF Escapes
<1>2. ASSUME NEW k \in 1..n PROVE v[k] = ReadOp[<<v[k - 1], word[k]>>]
  <2>1. /\ SubSeq(word, 1, k) = Append(SubSeq(word, 1, k - 1), word[k])
        /\ SubSeq(word, 1, k - 1) \in Seq(Char) /\ word[k] \in Char \ Special
    BY Beginnings
  <2>2. /\ v[k - 1] = In(words, SubSeq(word, 1, k - 1), "none")
        /\ v[k] = In(words, SubSeq(word, 1, k), "none")
    <3>1. k - 1 \in 0..n /\ k \in 0..n
      BY <1>1
    <3> HIDE DEF n
    <3> QED  BY <3>1
  <2> HIDE DEF v
  <2> DEFINE buf == SubSeq(word, 1, k - 1)
             c == word[k]
  <2>3. ReadOp[<<In(words, buf, "none"), c>>] = In(words, Append(buf, c), "none")
    <3>1. buf \in Seq(Char) /\ c \in Char \ Special /\ words \in Seq(Seq(Char))
      BY <1>1, <2>1
    <3>2. Escapes("none", Special)
      BY <1>1
    <3> HIDE DEF buf, c
    <3> QED  BY <3>1, <3>2, ReadPlain
  <2> QED  BY <2>1, <2>2, <2>3
<1>3. v[0] = In(words, SubSeq(word, 1, 0), "none") /\ v[n] = In(words, SubSeq(word, 1, n), "none")
  BY <1>1
<1>4. v[0] = Behind(words) /\ v[n] = In(words, word, "none")
  <2> HIDE DEF v
  <2> QED  BY <1>3, NoBeginning, SubSeqFull DEF Behind
<1>5. Chain(ReadOp, Behind(words), word, v)
  <2> HIDE DEF v
  <2> QED  BY <1>2, <1>4 DEF Chain
<1> HIDE DEF v
<1> QED  BY <1>4, <1>5 DEF Folds

LEMMA ReadsWritten ==
    ASSUME NEW style \in AllStyles, NEW word \in Seq(Char)
    PROVE  Written(style, word) \in Seq(Char) /\ Reads(Written(style, word), word)
<1>1. Written(style, word) \in Seq(Char)
  BY ReadWritten, WordLists
<1>2. ASSUME NEW words \in Seq(Word)
      PROVE  Folds(ReadOp, Behind(words), Written(style, word), In(words, word, "none"))
  <2>1. words \in Seq(Seq(Char))
    BY WordLists
  <2> QED  BY <2>1, ReadWritten DEF Behind
<1> QED  BY <1>1, <1>2 DEF Reads

LEMMA Tokenized ==
    ASSUME NEW words \in Seq(Word), words # <<>>, NEW line \in Seq(Char),
           Folds(ReadOp, Behind(<<>>), line, AtEndOf(words))
    PROVE  TokenizeLine(line) = words
<1>1. Behind(<<>>) \in Reading
  BY ReadIn, WordLists, SpecialChars DEF Behind
<1>2. Folds(ReadOp, Behind(<<>>), line, FoldLeft(Read, Behind(<<>>), line))
  BY <1>1, ReadFolds
<1>3. Len(line) \in Nat
  OBVIOUS
<1>4. FoldLeft(Read, Behind(<<>>), line) = AtEndOf(words)
  BY <1>2, <1>3, FoldsUnique
<1>5. /\ Front(words) \in Seq(Word) /\ Last(words) \in Word
      /\ Append(Front(words), Last(words)) = words
  BY FrontLast
<1> DEFINE s == AtEndOf(words)
<1>6. s.quote = "none" /\ ~s.escaped /\ s.buf = Last(words) /\ s.tokens = Front(words)
  BY DEF AtEndOf, In
<1>7. Flush(s).tokens = words
  <2>1. s.buf # <<>>
    BY <1>5, <1>6, WordLists
  <2>2. Flush(s) = [s EXCEPT !.tokens = Append(@, s.buf), !.buf = <<>>]
    BY <2>1 DEF Flush
  <2>3. [s EXCEPT !.tokens = Append(@, s.buf), !.buf = <<>>].tokens = Append(s.tokens, s.buf)
    BY DEF AtEndOf, In
  <2> HIDE DEF s
  <2> QED  BY <1>5, <1>6, <2>2, <2>3
<1>8. TokenizeLine(line) = IF s.quote # "none" \/ s.escaped THEN Bad ELSE Flush(s).tokens
  BY <1>4 DEF TokenizeLine, Behind, In
<1> HIDE DEF s
<1> QED  BY <1>6, <1>7, <1>8
-----------------------------------------------------------------------------
(* The lines of a script.                                                      *)

\* A line with nothing to trim.
Solid(line) == line \in Seq(Char) /\ line # <<>> /\ line[1] # Space /\ Last(line) # Space

LEMMA TrimType == ASSUME NEW line \in Seq(Char) PROVE TrimSpace(line) \in Seq(Char)
<1> DEFINE ink == {i \in DOMAIN line : line[i] # Space}
<1>1. Len(line) \in Nat /\ DOMAIN line = 1..Len(line) /\ \A i \in 1..Len(line) : line[i] \in Char
  OBVIOUS
<1>2. CASE ink = {}
  BY <1>2, EmptySeq DEF TrimSpace
<1>3. CASE ink # {}
  <2>1. ink \in SUBSET (1..Len(line))
    BY <1>1
  <2>2. PICK m \in ink : \A i \in ink : m <= i
    <3>1. ink \subseteq Nat
      BY <2>1
    <3> HIDE DEF ink
    <3> QED  BY <1>3, <3>1, Least
  <2>3. Min(ink) \in ink
    <3>1. m \in ink /\ \A i \in ink : m =< i
      BY <2>2
    <3> HIDE DEF ink
    <3> QED  BY <3>1 DEF Min
  <2>4. Max(ink) \in ink
    <3> HIDE DEF ink
    <3> QED  BY <1>1, <1>3, <2>1, MaxIn
  <2>5. Min(ink) \in 1..Len(line) /\ Max(ink) \in 1..Len(line)
    BY <2>1, <2>3, <2>4
  <2>6. TrimSpace(line) = SubSeq(line, Min(ink), Max(ink))
    BY <1>3 DEF TrimSpace
  <2> HIDE DEF ink
  <2> QED  BY <1>1, <2>5, <2>6
<1> QED  BY <1>2, <1>3

LEMMA TrimSolid == ASSUME NEW line, Solid(line) PROVE TrimSpace(line) = line
<1> DEFINE ink == {i \in DOMAIN line : line[i] # Space}
<1>1. /\ line \in Seq(Char) /\ DOMAIN line = 1..Len(line) /\ Len(line) \in Nat \ {0}
      /\ line[1] # Space /\ line[Len(line)] # Space
  BY EmptySeq DEF Solid, Last
<1>2. 1 \in ink /\ Len(line) \in ink /\ ink \in SUBSET (1..Len(line))
  BY <1>1
<1>3. Max(ink) = Len(line)
  <2>1. ink \in SUBSET Nat /\ \A i \in ink : i <= Len(line)
    BY <1>1, <1>2
  <2> HIDE DEF ink
  <2> QED  BY <1>2, <2>1, MaxIs
<1>4. Min(ink) = 1
  <2>1. \A i \in ink : i \in Nat /\ 1 =< i
    BY <1>1, <1>2
  <2> HIDE DEF ink
  <2>2. Min(ink) \in ink /\ \A i \in ink : Min(ink) =< i
    BY <1>2, <2>1 DEF Min
  <2>3. Min(ink) \in Nat /\ 1 =< Min(ink) /\ Min(ink) =< 1
    BY <1>2, <2>1, <2>2
  <2> QED  BY <2>3
<1>5. TrimSpace(line) = SubSeq(line, 1, Len(line))
  <2>1. ink # {}
    BY <1>2
  <2> QED  BY <1>3, <1>4, <2>1 DEF TrimSpace
<1> QED  BY <1>1, <1>5, SubSeqFull

Joined == [lines : Seq(Seq(Char)), text : Seq(Char), open : BOOLEAN]
NoLine == [lines |-> <<>>, text |-> <<>>, open |-> FALSE]
JoinOp(script) == [p \in Joined \X (1..Len(script)) |-> Join(script, p[1], p[2])]

\* A step of the join, with the line that it makes.
LineOf(script, s, i) == IF s.open THEN s.text \o <<Space>> \o script[i] ELSE script[i]
GoesOn(script, line, i) == i < Len(script) /\ line # <<>> /\ Last(line) = "\\"

LEMMA JoinIs ==
    ASSUME NEW script \in Seq(Seq(Char)), NEW s \in Joined, NEW i \in 1..Len(script)
    PROVE  /\ LineOf(script, s, i) \in Seq(Char) /\ Join(script, s, i) \in Joined
           /\ GoesOn(script, LineOf(script, s, i), i) =>
                 /\ Join(script, s, i).lines = s.lines /\ Join(script, s, i).open
                 /\ Join(script, s, i).text = Front(LineOf(script, s, i))
           /\ ~GoesOn(script, LineOf(script, s, i), i) =>
                 Join(script, s, i).lines = Append(s.lines, LineOf(script, s, i))
<1> DEFINE line == LineOf(script, s, i)
<1>1. s.lines \in Seq(Seq(Char)) /\ s.text \in Seq(Char) /\ script[i] \in Seq(Char)
  BY DEF Joined
<1>2. line \in Seq(Char)
  <2>1. <<Space>> \in Seq(Char)
    BY SpecialChars, MembersOfOne
  <2>2. s.text \o <<Space>> \in Seq(Char)
    BY <1>1, <2>1, ConcatProperties
  <2>3. s.text \o <<Space>> \o script[i] \in Seq(Char)
    BY <1>1, <2>2, ConcatProperties
  <2> QED  BY <1>1, <2>3 DEF LineOf
<1> HIDE DEF line
<1>3. CASE GoesOn(script, line, i)
  <2>1. Join(script, s, i) = [s EXCEPT !.text = Front(line), !.open = TRUE]
    BY <1>3 DEF Join, GoesOn, LineOf, line
  <2>2. Front(line) \in Seq(Char)
    BY <1>2, <1>3, FrontLast DEF GoesOn
  <2>3. /\ [s EXCEPT !.text = Front(line), !.open = TRUE] \in Joined
        /\ [s EXCEPT !.text = Front(line), !.open = TRUE].lines = s.lines
        /\ [s EXCEPT !.text = Front(line), !.open = TRUE].open
        /\ [s EXCEPT !.text = Front(line), !.open = TRUE].text = Front(line)
    BY <2>2 DEF Joined
  <2> QED  BY <1>2, <1>3, <2>1, <2>3 DEF line
<1>4. CASE ~GoesOn(script, line, i)
  <2>1. Join(script, s, i) = [lines |-> Append(s.lines, line), text |-> <<>>, open |-> FALSE]
    BY <1>4 DEF Join, GoesOn, LineOf, line
  <2>2. Append(s.lines, line) \in Seq(Seq(Char)) /\ <<>> \in Seq(Char)
    BY <1>1, <1>2, AppendProperties, EmptySeq
  <2>3. Join(script, s, i) \in Joined /\ Join(script, s, i).lines = Append(s.lines, line)
    BY <2>1, <2>2 DEF Joined
  <2> QED  BY <1>2, <1>4, <2>3 DEF line
<1> QED  BY <1>3, <1>4

LEMMA JoinOpIs ==
    ASSUME NEW script \in Seq(Seq(Char))
    PROVE  /\ JoinOp(script) \in [Joined \X (1..Len(script)) -> Joined]
           /\ \A s \in Joined, i \in 1..Len(script) : JoinOp(script)[<<s, i>>] = Join(script, s, i)
<1>1. \A p \in Joined \X (1..Len(script)) : Join(script, p[1], p[2]) \in Joined
  BY JoinIs
<1> QED  BY <1>1 DEF JoinOp

LEMMA NoLineType == NoLine \in Joined
BY WordLists DEF NoLine, Joined

LEMMA JoinFolds ==
    ASSUME NEW script \in Seq(Seq(Char))
    PROVE  \E s \in Joined : /\ Folds(JoinOp(script), NoLine, [i \in DOMAIN script |-> i], s)
                             /\ JoinLines(script) = s.lines
<1> DEFINE n == Len(script)
           seq == [i \in DOMAIN script |-> i]
           Body(f) == [s \in SUBSET DOMAIN seq |->
                          IF s = {} THEN NoLine ELSE Join(script, f[s \ {Max(s)}], seq[Max(s)])]
<1>1. n \in Nat /\ DOMAIN script = 1..n /\ seq \in [1..n -> 1..n] /\ DOMAIN seq = 1..n
      /\ seq \in Seq(1..n) /\ Len(seq) = n
  OBVIOUS
<1>2. PICK f \in [SUBSET (1..n) -> Joined] : SetFold(JoinOp(script), NoLine, seq, f)
  <2>1. JoinOp(script) \in [Joined \X (1..n) -> Joined]
    BY JoinOpIs
  <2>2. n \in Nat /\ seq \in [1..n -> 1..n]
    BY <1>1
  <2> HIDE DEF n, seq
  <2> QED  BY <2>1, <2>2, NoLineType, FoldExists, Zenon
<1>3. f = Body(f)
  <2>1. ASSUME NEW s \in SUBSET (1..n), s # {}
        PROVE  f[s] = Join(script, f[s \ {Max(s)}], seq[Max(s)])
    <3>1. Max(s) \in 1..n /\ s \ {Max(s)} \in SUBSET (1..n)
      BY <1>1, <2>1, MaxIn
    <3>2. f[s \ {Max(s)}] \in Joined /\ seq[Max(s)] \in 1..n
      BY <1>1, <3>1
    <3>3. f[s] = JoinOp(script)[<<f[s \ {Max(s)}], seq[Max(s)]>>]
      BY <1>2, <2>1 DEF SetFold
    <3> HIDE DEF seq
    <3> QED  BY <3>2, <3>3, JoinOpIs
  <2>2. f[{}] = NoLine
    BY <1>2 DEF SetFold
  <2>3. DOMAIN seq = 1..n
    BY <1>1
  <2> HIDE DEF n, seq
  <2> QED  BY <2>1, <2>2, <2>3
<1>4. PICK h : h = Body(h) /\ JoinLines(script) = h[DOMAIN seq].lines
  <2>1. \E h : h = Body(h)
    BY <1>3
  <2> QED  BY <2>1 DEF JoinLines, FoldLeftDomain, FoldLeft, MapThenFoldSet, NoLine
<1>5. h[{}] = NoLine
  BY <1>4
<1>6. ASSUME NEW k \in 1..Len(seq)
      PROVE  h[1..(k - 1)] \in Joined => h[1..k] = JoinOp(script)[<<h[1..(k - 1)], seq[k]>>]
  <2>0. k \in 1..n
    BY <1>1
  <2>1. 1..k # {} /\ Max(1..k) = k /\ (1..k) \ {k} = 1..(k - 1)
    <3>1. k \in Nat \ {0}
      BY <2>0
    <3> QED  BY <3>1, MaxOfInterval
  <2>2. 1..k \in SUBSET DOMAIN seq /\ seq[k] = k
    BY <1>1, <2>0
  <2> HIDE DEF seq
  <2>3. h[1..k] = Join(script, h[(1..k) \ {Max(1..k)}], seq[Max(1..k)])
    BY <1>4, <2>1, <2>2
  <2>4. h[1..k] = Join(script, h[1..(k - 1)], seq[k])
    BY <2>1, <2>3
  <2> QED  BY <2>0, <2>2, <2>4, JoinOpIs
<1>7. JoinOp(script) \in [Joined \X (1..n) -> Joined]
  BY JoinOpIs
<1>8. Folds(JoinOp(script), NoLine, seq, h[1..Len(seq)]) /\ h[1..Len(seq)] \in Joined
  <2>1. seq \in Seq(1..n)
    BY <1>1
  <2>2. \A k \in 1..Len(seq) :
           h[1..(k - 1)] \in Joined => h[1..k] = JoinOp(script)[<<h[1..(k - 1)], seq[k]>>]
    BY <1>6
  <2>3. NoLine \in Joined
    BY NoLineType
  <2> HIDE DEF n, seq
  <2>4. Folds(JoinOp(script), NoLine, seq, h[1..Len(seq)])
    BY <1>5, <1>7, <2>1, <2>2, <2>3, IterFolds, Zenon
  <2>5. h[1..Len(seq)] \in Joined
    BY <1>7, <2>1, <2>3, <2>4, FoldsType, Zenon
  <2> QED  BY <2>4, <2>5
<1>9. 1..Len(seq) = DOMAIN seq
  BY <1>1
<1> HIDE DEF seq
<1>10. Folds(JoinOp(script), NoLine, seq, h[DOMAIN seq]) /\ h[DOMAIN seq] \in Joined
  BY <1>8, <1>9
<1>11. JoinLines(script) = h[DOMAIN seq].lines
  BY <1>4
<1> QED  BY <1>10, <1>11 DEF seq

\* Lines are only added, so the first one stays.
LEMMA JoinAdds ==
    ASSUME NEW script \in Seq(Seq(Char)), NEW s \in Joined, NEW i \in 1..Len(script),
           s.lines # <<>>
    PROVE  Join(script, s, i).lines # <<>> /\ Join(script, s, i).lines[1] = s.lines[1]
<1> DEFINE line == LineOf(script, s, i)
           lines == s.lines
           r == Join(script, s, i)
<1>1. lines \in Seq(Seq(Char)) /\ lines # <<>>
  BY DEF Joined
<1>2. line \in Seq(Char) /\ (r.lines = lines \/ r.lines = Append(lines, line))
  BY JoinIs
<1> HIDE DEF line, lines, r
<1>3. Append(lines, line) # <<>> /\ Append(lines, line)[1] = lines[1]
  <2>1. Len(lines) \in Nat \ {0}
    BY <1>1, EmptySeq
  <2>2. /\ Len(Append(lines, line)) = Len(lines) + 1
        /\ \A j \in 1..Len(lines) : Append(lines, line)[j] = lines[j]
    BY <1>1, <1>2, AppendProperties
  <2>3. 1 \in 1..Len(lines) /\ Len(lines) + 1 # 0
    BY <2>1
  <2>4. Len(<<>>) = 0
    OBVIOUS
  <2>5. Append(lines, line) # <<>>
    BY <2>2, <2>3, <2>4
  <2> QED  BY <2>2, <2>3, <2>5
<1>4. r.lines # <<>> /\ r.lines[1] = lines[1]
  BY <1>1, <1>2, <1>3
<1> QED  BY <1>4 DEF r, lines

\* The states between the lines.
JoinChain(script, g) ==
    /\ g[0] = NoLine
    /\ \A k \in 0..Len(script) : g[k] \in Joined
    /\ \A k \in 1..Len(script) : g[k] = Join(script, g[k - 1], k)
    /\ JoinLines(script) = g[Len(script)].lines

LEMMA JoinChains ==
    ASSUME NEW script \in Seq(Seq(Char))
    PROVE  \E g : JoinChain(script, g)
<1> DEFINE seq == [i \in DOMAIN script |-> i]
           n == Len(script)
<1>0. n \in Nat /\ DOMAIN script = 1..n /\ seq \in Seq(1..n) /\ Len(seq) = n
      /\ \A j \in 1..n : seq[j] = j
  OBVIOUS
<1>1. PICK s \in Joined : Folds(JoinOp(script), NoLine, seq, s) /\ JoinLines(script) = s.lines
  BY JoinFolds
<1>2. JoinOp(script) \in [Joined \X (1..n) -> Joined]
  BY JoinOpIs
<1> HIDE DEF seq, n
<1>3. PICK g : Chain(JoinOp(script), NoLine, seq, g) /\ g[n] = s
  BY <1>0, <1>1 DEF Folds
<1>4. \A k \in 0..n : g[k] \in Joined
  <2>1. \A k \in 0..Len(seq) : g[k] \in Joined
    BY <1>0, <1>2, <1>3, NoLineType, ChainType, Zenon
  <2> QED  BY <1>0, <2>1
<1>5. g[0] = NoLine /\ \A k \in 1..n : g[k] = JoinOp(script)[<<g[k - 1], k>>]
  BY <1>0, <1>3 DEF Chain
<1>6. ASSUME NEW k \in 1..n PROVE g[k] = Join(script, g[k - 1], k)
  <2>1. g[k - 1] \in Joined
    BY <1>0, <1>4
  <2>2. k \in 1..Len(script)
    BY DEF n
  <2> QED  BY <1>5, <2>1, <2>2, JoinOpIs
<1>7. JoinChain(script, g)
  BY <1>1, <1>3, <1>4, <1>5, <1>6 DEF JoinChain, n
<1> QED  BY <1>7

LEMMA FirstStays ==
    ASSUME NEW script \in Seq(Seq(Char)), NEW g, JoinChain(script, g),
           NEW k \in 1..Len(script), g[k].lines # <<>>
    PROVE  JoinLines(script)[1] = g[k].lines[1]
<1> DEFINE n == Len(script)
           T == {j \in Nat : k <= j /\ j <= n => g[j].lines # <<>> /\ g[j].lines[1] = g[k].lines[1]}
<1>0. n \in Nat /\ k \in 1..n
  OBVIOUS
<1>1. ASSUME NEW j \in 1..n, g[j - 1].lines # <<>>
      PROVE  g[j].lines # <<>> /\ g[j].lines[1] = g[j - 1].lines[1]
  <2>1. j - 1 \in 0..n /\ j \in 1..Len(script)
    BY <1>0
  <2>2. g[j - 1] \in Joined /\ g[j] = Join(script, g[j - 1], j)
    BY <2>1 DEF JoinChain
  <2> QED  BY <1>1, <2>1, <2>2, JoinAdds
<1>2. 0 \in T
  BY <1>0
<1>3. ASSUME NEW j \in Nat, j \in T PROVE j + 1 \in T
  <2> SUFFICES ASSUME k <= j + 1, j + 1 <= n
               PROVE  g[j + 1].lines # <<>> /\ g[j + 1].lines[1] = g[k].lines[1]
    OBVIOUS
  <2>1. CASE k = j + 1
    BY <2>1
  <2>2. CASE k <= j
    <3>1. j + 1 \in 1..n /\ (j + 1) - 1 = j /\ g[j].lines # <<>> /\ g[j].lines[1] = g[k].lines[1]
      BY <1>0, <1>3, <2>2
    <3> HIDE DEF T, n
    <3> QED  BY <1>1, <3>1
  <2> QED  BY <1>0, <2>1, <2>2
<1> HIDE DEF T
<1>4. \A j \in Nat : j \in T
  BY <1>2, <1>3, AllNat
<1>5. g[n].lines[1] = g[k].lines[1]
  BY <1>0, <1>4 DEF T
<1> QED  BY <1>5 DEF JoinChain

\* What execScript hands to joinLines.
Trimmed(text) == [i \in DOMAIN text |-> TrimSpace(text[i])]

LEMMA TrimmedIs ==
    ASSUME NEW text \in Seq(Seq(Char))
    PROVE  /\ Trimmed(text) \in Seq(Seq(Char)) /\ Len(Trimmed(text)) = Len(text)
           /\ \A i \in 1..Len(text) : Solid(text[i]) => Trimmed(text)[i] = text[i]
<1> DEFINE script == Trimmed(text)
<1>1. Len(text) \in Nat /\ DOMAIN text = 1..Len(text)
  OBVIOUS
<1>2. \A i \in 1..Len(text) : TrimSpace(text[i]) \in Seq(Char)
  BY <1>1, TrimType
<1>3. script \in [1..Len(text) -> Seq(Char)] /\ \A i \in 1..Len(text) : script[i] = TrimSpace(text[i])
  BY <1>1, <1>2 DEF Trimmed
<1> HIDE DEF script
<1>4. script \in Seq(Seq(Char)) /\ Len(script) = Len(text)
  BY <1>1, <1>3, FunctionIsList
<1> QED  BY <1>3, <1>4, TrimSolid DEF script

\* A line that is not continued, and one that is, once.
LEMMA FirstLineOne ==
    ASSUME NEW text \in Seq(Seq(Char)), text # <<>>, Solid(text[1]), Last(text[1]) # "\\"
    PROVE  FirstLine(text) = text[1]
<1> DEFINE script == Trimmed(text)
<1>1. script \in Seq(Seq(Char)) /\ 1 \in 1..Len(script) /\ script[1] = text[1]
  <2>1. 1 \in 1..Len(text)
    BY EmptySeq
  <2> QED  BY <2>1, TrimmedIs
<1> HIDE DEF script
<1>2. PICK g : JoinChain(script, g)
  BY <1>1, JoinChains
<1>3. g[0] = NoLine /\ g[1] = Join(script, g[0], 1)
  <2>1. 1 - 1 = 0
    OBVIOUS
  <2> QED  BY <1>1, <1>2, <2>1 DEF JoinChain
<1>4. LineOf(script, NoLine, 1) = text[1] /\ ~GoesOn(script, text[1], 1)
  BY <1>1 DEF LineOf, NoLine, GoesOn
<1>5. g[1].lines = Append(<<>>, text[1])
  <2>1. Join(script, NoLine, 1).lines = Append(NoLine.lines, LineOf(script, NoLine, 1))
    BY <1>1, <1>4, JoinIs, NoLineType
  <2> QED  BY <1>3, <1>4, <2>1 DEF NoLine
<1>6. g[1].lines # <<>> /\ g[1].lines[1] = text[1]
  BY <1>5
<1>7. JoinLines(script)[1] = text[1]
  BY <1>1, <1>2, <1>6, FirstStays
<1> QED  BY <1>7 DEF FirstLine, script, Trimmed

LEMMA FirstLineTwo ==
    ASSUME NEW text \in Seq(Seq(Char)), Len(text) >= 2,
           Solid(text[1]), Last(text[1]) = "\\", Solid(text[2]), Last(text[2]) # "\\"
    PROVE  FirstLine(text) = Front(text[1]) \o <<Space>> \o text[2]
<1> DEFINE script == Trimmed(text)
           whole == Front(text[1]) \o <<Space>> \o text[2]
<1>1. /\ script \in Seq(Seq(Char)) /\ script[1] = text[1] /\ script[2] = text[2]
      /\ 1 \in 1..Len(script) /\ 2 \in 1..Len(script) /\ 1 < Len(script)
  <2>1. 1 \in 1..Len(text) /\ 2 \in 1..Len(text) /\ 1 < Len(text)
    OBVIOUS
  <2> QED  BY <2>1, TrimmedIs
<1> HIDE DEF script
<1>2. PICK g : JoinChain(script, g)
  BY <1>1, JoinChains
<1>3. g[0] = NoLine /\ g[1] = Join(script, g[0], 1) /\ g[2] = Join(script, g[1], 2) /\ g[1] \in Joined
  <2>1. 1 - 1 = 0 /\ 2 - 1 = 1 /\ 1 \in 0..Len(script)
    BY <1>1
  <2> QED  BY <1>1, <1>2, <2>1 DEF JoinChain
<1>4. LineOf(script, NoLine, 1) = text[1] /\ GoesOn(script, text[1], 1)
  BY <1>1 DEF LineOf, NoLine, GoesOn, Solid
<1>5. g[1].lines = <<>> /\ g[1].open /\ g[1].text = Front(text[1])
  <2>1. GoesOn(script, LineOf(script, NoLine, 1), 1)
    BY <1>4
  <2>2. /\ Join(script, NoLine, 1).lines = NoLine.lines /\ Join(script, NoLine, 1).open
        /\ Join(script, NoLine, 1).text = Front(LineOf(script, NoLine, 1))
    BY <1>1, <2>1, JoinIs, NoLineType, Zenon
  <2> QED  BY <1>3, <1>4, <2>2 DEF NoLine
<1>6. LineOf(script, g[1], 2) = whole
  BY <1>1, <1>5 DEF LineOf
<1>7. ~GoesOn(script, whole, 2)
  <2>1. text[1] \in Seq(Char) /\ text[1] # <<>> /\ text[2] \in Seq(Char) /\ text[2] # <<>>
    BY DEF Solid
  <2>2. Front(text[1]) \o <<Space>> \in Seq(Char)
    <3>1. Front(text[1]) \in Seq(Char) /\ <<Space>> \in Seq(Char)
      BY <2>1, FrontLast, SpecialChars, MembersOfOne
    <3> QED  BY <3>1, ConcatProperties
  <2>3. Last(whole) = Last(text[2])
    BY <2>1, <2>2, ConcatLast
  <2> QED  BY <2>3 DEF GoesOn
<1>8. g[2].lines = Append(<<>>, whole)
  <2>1. ~GoesOn(script, LineOf(script, g[1], 2), 2)
    BY <1>6, <1>7
  <2>2. Join(script, g[1], 2).lines = Append(g[1].lines, LineOf(script, g[1], 2))
    BY <1>1, <1>3, <2>1, JoinIs, Zenon
  <2> QED  BY <1>3, <1>5, <1>6, <2>2
<1> HIDE DEF whole
<1>9. g[2].lines # <<>> /\ g[2].lines[1] = whole
  BY <1>8
<1>10. JoinLines(script)[1] = whole
  BY <1>1, <1>2, <1>9, FirstStays
<1> QED  BY <1>10 DEF FirstLine, script, whole, Trimmed

-----------------------------------------------------------------------------
(* What a user writes.                                                         *)

LEMMA EscapeEnds ==
    ASSUME NEW special \in SUBSET Char, NEW word \in Word
    PROVE  /\ Escape(special, word) # <<>>
           /\ Escape(special, word)[1] \in {"\\"} \cup (Char \ special)
           /\ Last(Escape(special, word)) = Last(word)
<1> DEFINE n == Len(word)
           ss == [i \in DOMAIN word |-> IF word[i] \in special THEN <<"\\", word[i]>> ELSE <<word[i]>>]
<1>1. n \in Nat \ {0} /\ DOMAIN word = 1..n /\ word \in Seq(Char) /\ 1 \in 1..n /\ n \in 1..n
  BY EmptySeq, WordLists
<1>2. "\\" \in Char
  BY SpecialChars
<1>3. ASSUME NEW k \in 1..n
      PROVE  /\ ss[k] \in Seq(Char) /\ ss[k] # <<>> /\ Last(ss[k]) = word[k]
             /\ 1 \in 1..Len(ss[k]) /\ ss[k][1] \in {"\\"} \cup (Char \ special)
  <2> DEFINE c == word[k]
  <2>1. c \in Char /\ ss[k] = IF c \in special THEN <<"\\", c>> ELSE <<c>>
    BY <1>1
  <2> HIDE DEF c, ss
  <2>2. CASE c \in special
    <3>1. ss[k] = <<"\\", c>>
      BY <2>1, <2>2
    <3>2. <<"\\", c>> \in Seq(Char) /\ <<"\\", c>> # <<>> /\ Len(<<"\\", c>>) = 2
          /\ <<"\\", c>>[1] = "\\" /\ <<"\\", c>>[2] = c
      BY <1>2, <2>1
    <3> QED  BY <3>1, <3>2 DEF Last, c
  <2>3. CASE c \notin special
    <3>1. ss[k] = <<c>>
      BY <2>1, <2>3
    <3>2. <<c>> \in Seq(Char) /\ <<c>> # <<>> /\ Len(<<c>>) = 1 /\ <<c>>[1] = c
      BY <2>1
    <3> QED  BY <2>1, <2>3, <3>1, <3>2 DEF Last, c
  <2> QED  BY <2>2, <2>3
<1>4. ss \in [1..n -> Seq(Char)]
  BY <1>1, <1>3
<1> HIDE DEF ss
<1>5. /\ FlattenSeq(ss) # <<>> /\ Last(FlattenSeq(ss)) = Last(ss[n])
      /\ \A j \in 1..Len(ss[1]) : FlattenSeq(ss)[j] = ss[1][j]
  <2> HIDE DEF n
  <2> QED  BY <1>1, <1>3, <1>4, FlattenEnds
<1>6. FlattenSeq(ss)[1] = ss[1][1]
  BY <1>1, <1>3, <1>5
<1>7. Last(ss[n]) = Last(word)
  BY <1>1, <1>3 DEF Last
<1>8. ss[1][1] \in {"\\"} \cup (Char \ special)
  BY <1>1, <1>3
<1> QED  BY <1>5, <1>6, <1>7, <1>8 DEF Escape, ss

\* A written word begins with no blank, and ends as a word in the middle of a line.
Closed(text) == Last(text) \notin {Space, "\\"}

LEMMA WrittenEnds ==
    ASSUME NEW style \in AllStyles, NEW word \in Word
    PROVE  /\ Written(style, word) # <<>> /\ Written(style, word)[1] # Space
           /\ style # "escaped" \/ Closed(word) => Closed(Written(style, word))
<1> DEFINE quoted(q) == <<q>> \o Escape({q, "\\"}, word) \o <<q>>
<1>1. ASSUME NEW q \in {"'", "\""}
      PROVE  quoted(q) # <<>> /\ quoted(q)[1] # Space /\ Closed(quoted(q))
  <2> DEFINE text == Escape({q, "\\"}, word)
  <2>1. {q, "\\"} \subseteq Char /\ <<q>> \in Seq(Char) /\ <<q>> # <<>> /\ q # Space /\ q # "\\"
    BY SpecialChars, MembersOfOne DEF Space
  <2>2. text \in Seq(Char)
    BY <2>1, EscapeType, WordLists
  <2> HIDE DEF text
  <2>3. <<q>> \o text # <<>> /\ (<<q>> \o text)[1] = q /\ <<q>> \o text \in Seq(Char)
    <3>1. (<<q>> \o text)[1] = <<q>>[1] /\ <<q>> \o text # <<>>
      BY <2>1, <2>2, ConcatFirst
    <3> QED  BY <2>1, <2>2, <3>1, ConcatProperties
  <2>4. quoted(q) # <<>> /\ quoted(q)[1] = q
    BY <2>1, <2>3, ConcatFirst DEF text
  <2>5. Last(quoted(q)) = q
    <3>1. Last(quoted(q)) = Last(<<q>>)
      BY <2>1, <2>3, ConcatLast DEF text
    <3>2. Last(<<q>>) = q
      BY DEF Last
    <3> QED  BY <3>1, <3>2
  <2> HIDE DEF quoted
  <2> QED  BY <2>1, <2>4, <2>5 DEF Closed
<1>2. CASE style = "escaped"
  <2>1. Written(style, word) = Escape(Special, word)
    BY <1>2 DEF Written
  <2>2. "\\" # Space /\ Space \in Special /\ Special \in SUBSET Char
    BY SpecialChars DEF Space, Special
  <2> QED  BY <1>2, <2>1, <2>2, EscapeEnds DEF Closed
<1>3. CASE style = "single"
  <2>1. Written(style, word) = quoted("'")
    BY <1>3 DEF Written
  <2> HIDE DEF quoted
  <2> QED  BY <1>1, <2>1
<1>4. CASE style = "double"
  <2>1. Written(style, word) = quoted("\"")
    BY <1>4 DEF Written
  <2> HIDE DEF quoted
  <2> QED  BY <1>1, <2>1
<1> QED  BY <1>2, <1>3, <1>4 DEF AllStyles

LEMMA SpacedEnds ==
    ASSUME NEW n \in Nat \ {0}, NEW texts \in [1..n -> Seq(Char)], \A k \in 1..n : texts[k] # <<>>
    PROVE  /\ Spaced(texts) \in Seq(Char) /\ Len(Spaced(texts)) >= 2
           /\ Spaced(texts)[1] = Space /\ Spaced(texts)[2] = texts[1][1]
           /\ Last(Spaced(texts)) = Last(texts[n])
<1> DEFINE ss == [i \in DOMAIN texts |-> <<Space>> \o texts[i]]
<1>0. 1 \in 1..n /\ n \in 1..n /\ DOMAIN texts = 1..n
  OBVIOUS
<1>1. <<Space>> \in Seq(Char) /\ Len(<<Space>>) = 1 /\ <<Space>>[1] = Space
  BY SpecialChars, MembersOfOne
<1>2. ASSUME NEW k \in 1..n
      PROVE  /\ ss[k] \in Seq(Char) /\ ss[k] # <<>> /\ Last(ss[k]) = Last(texts[k])
             /\ Len(ss[k]) \in Nat /\ Len(ss[k]) >= 2 /\ ss[k][1] = Space /\ ss[k][2] = texts[k][1]
  <2> DEFINE t == texts[k]
  <2>1. t \in Seq(Char) /\ t # <<>> /\ ss[k] = <<Space>> \o t
    BY <1>0
  <2> HIDE DEF t, ss
  <2>2. ss[k] \in Seq(Char) /\ ss[k] # <<>> /\ Last(ss[k]) = Last(t)
    <3>1. <<Space>> \in Seq(Char) /\ t \in Seq(Char) /\ t # <<>>
      BY <1>1, <2>1
    <3>2. <<Space>> \o t \in Seq(Char) /\ <<Space>> \o t # <<>> /\ Last(<<Space>> \o t) = Last(t)
      BY <3>1, ConcatLast, Zenon
    <3> QED  BY <2>1, <3>2
  <2>3. Len(t) \in Nat \ {0}
    BY <2>1, EmptySeq
  <2>4. /\ Len(ss[k]) = 1 + Len(t)
        /\ \A i \in 1..(1 + Len(t)) : ss[k][i] = IF i <= 1 THEN <<Space>>[i] ELSE t[i - 1]
    BY <1>1, <2>1, ConcatProperties
  <2>5. 1 \in 1..(1 + Len(t)) /\ 2 \in 1..(1 + Len(t)) /\ ~(2 <= 1) /\ 2 - 1 = 1
    BY <2>3
  <2>6. ss[k][1] = Space /\ ss[k][2] = t[1]
    BY <1>1, <2>4, <2>5
  <2>7. Len(ss[k]) \in Nat /\ Len(ss[k]) >= 2
    BY <2>3, <2>4
  <2> QED  BY <2>2, <2>6, <2>7 DEF t
<1>3. ss \in [1..n -> Seq(Char)]
  BY <1>0, <1>2
<1> HIDE DEF ss
<1>4. /\ Len(FlattenSeq(ss)) >= Len(ss[1]) /\ Last(FlattenSeq(ss)) = Last(ss[n])
      /\ \A j \in 1..Len(ss[1]) : FlattenSeq(ss)[j] = ss[1][j]
  BY <1>2, <1>3, FlattenEnds
<1>5. FlattenSeq(ss) \in Seq(Char)
  BY <1>3, FlattenFacts
<1> DEFINE line == FlattenSeq(ss)
<1>6. /\ line \in Seq(Char) /\ Len(line) >= Len(ss[1]) /\ Last(line) = Last(texts[n])
      /\ \A j \in 1..Len(ss[1]) : line[j] = ss[1][j]
  BY <1>0, <1>2, <1>4, <1>5
<1> HIDE DEF line
<1>7. Len(line) >= 2 /\ line[1] = Space /\ line[2] = texts[1][1]
  <2>1. Len(ss[1]) >= 2 /\ Len(ss[1]) \in Nat /\ ss[1][1] = Space /\ ss[1][2] = texts[1][1]
    BY <1>0, <1>2
  <2>2. 1 \in 1..Len(ss[1]) /\ 2 \in 1..Len(ss[1]) /\ Len(line) \in Nat
    BY <1>6, <2>1
  <2> QED  BY <1>6, <2>1, <2>2
<1>8. Spaced(texts) = line
  BY DEF Spaced, ss, line
<1> QED  BY <1>6, <1>7, <1>8

-----------------------------------------------------------------------------
(* The texts of a command.                                                     *)

Run == <<"r", "u", "n">>
RunAnd(flags) == <<Run>> \o flags

LEMMA RunIs ==
    /\ Run \in Word /\ Len(Run) = 3 /\ Run[1] = "r" /\ \A i \in 1..3 : Run[i] \notin Special
    /\ Run # <<>> /\ Run \in Seq(Char) /\ Run # Tacks
<1>1. {"r", "u", "n"} \subseteq Char
  BY SpecialChars
<1>2. <<"r", "u", "n">> \in Seq(Char) /\ <<"r", "u", "n">> # <<>> /\ Len(<<"r", "u", "n">>) = 3
  BY <1>1
<1>3. /\ <<"r", "u", "n">>[1] = "r" /\ <<"r", "u", "n">>[2] = "u" /\ <<"r", "u", "n">>[3] = "n"
      /\ Len(<<"-", "-">>) = 2
  OBVIOUS
<1>4. {"r", "u", "n"} \cap Special = {}
  BY DEF Special, Space
<1>5. \A i \in 1..3 : i = 1 \/ i = 2 \/ i = 3
  OBVIOUS
<1>6. <<"r", "u", "n">> # <<"-", "-">>
  BY <1>2, <1>3
<1>7. /\ Run \in Seq(Char) /\ Run # <<>> /\ Len(Run) = 3 /\ Run # Tacks
      /\ Run[1] = "r" /\ Run[2] = "u" /\ Run[3] = "n"
  BY <1>2, <1>3, <1>6 DEF Run, Tacks
<1>8. \A i \in 1..3 : Run[i] \notin Special
  BY <1>4, <1>5, <1>7
<1>9. Run \in Word
  BY <1>7 DEF Word
<1> QED  BY <1>7, <1>8, <1>9

LEMMA FlagIs ==
    ASSUME NEW flags \in FlagWords
    PROVE  /\ flags \in Seq(Word)
           /\ \A k \in 1..Len(flags) :
                 /\ flags[k] \in Seq(Char) /\ flags[k] # <<>> /\ flags[k][1] = "-"
                 /\ Reads(flags[k], flags[k])
                 /\ flags[k] = Tacks => k = Len(flags)
<1>1. flags \in Seq(Word)
  BY FlagsAssumption
<1>2. ASSUME NEW k \in 1..Len(flags)
      PROVE  /\ flags[k] \in Seq(Char) /\ flags[k] # <<>> /\ flags[k][1] = "-"
             /\ Reads(flags[k], flags[k])
             /\ flags[k] = Tacks => k = Len(flags)
  <2>1. k \in DOMAIN flags /\ flags[k] \in Word
    BY <1>1
  <2>2. /\ flags[k][1] = "-" /\ Range(flags[k]) \cap Special = {}
        /\ flags[k] = Tacks => k = Len(flags)
    BY <2>1, FlagsAssumption
  <2>3. flags[k] \in Seq(Char) /\ flags[k] # <<>>
    BY <2>1, WordLists
  <2>4. \A i \in 1..Len(flags[k]) : flags[k][i] \notin Special
    <3> DEFINE w == flags[k]
    <3>1. w \in Seq(Char) /\ Range(w) \cap Special = {}
      BY <2>2, <2>3
    <3> HIDE DEF w
    <3>2. \A i \in 1..Len(w) : w[i] \in Range(w)
      BY <3>1 DEF Range
    <3>3. \A i \in 1..Len(w) : w[i] \notin Special
      BY <3>1, <3>2
    <3> QED  BY <3>3 DEF w
  <2> QED  BY <2>2, <2>3, <2>4, ReadsPlain
<1> QED  BY <1>1, <1>2

\* run and its flags.
RunLine(flags) == <<"r", "u", "n">> \o Spaced(flags)

LEMMA StartReads ==
    ASSUME NEW flags \in FlagWords
    PROVE  /\ RunAnd(flags) \in Seq(Word) /\ RunAnd(flags) # <<>>
           /\ RunLine(flags) \in Seq(Char) /\ RunLine(flags) # <<>> /\ RunLine(flags)[1] = "r"
           /\ Folds(ReadOp, Behind(<<>>), RunLine(flags), AtEndOf(RunAnd(flags)))
<1>1. flags \in Seq(Word) /\ flags \in [1..Len(flags) -> Seq(Char)] /\ Len(flags) \in Nat
      /\ \A k \in 1..Len(flags) : Reads(flags[k], flags[k])
  <2>1. flags \in Seq(Word)
    BY FlagIs
  <2>2. Len(flags) \in Nat /\ flags \in [1..Len(flags) -> Word]
    BY <2>1
  <2> QED  BY <2>1, <2>2, FlagIs, WordLists
<1>2. Spaced(flags) \in Seq(Char)
  BY <1>1, SpacedType
<1>3. RunLine(flags) \in Seq(Char) /\ RunLine(flags) # <<>> /\ RunLine(flags)[1] = "r"
  <2>1. Run \o Spaced(flags) # <<>> /\ (Run \o Spaced(flags))[1] = Run[1]
    BY <1>2, RunIs, ConcatFirst
  <2>2. Run \o Spaced(flags) \in Seq(Char)
    BY <1>2, RunIs, ConcatProperties
  <2> QED  BY <2>1, <2>2, RunIs DEF RunLine, Run
<1>4. <<Run>> \in Seq(Word) /\ <<Run>> # <<>>
  BY RunIs, MembersOfOne
<1>5. RunAnd(flags) \in Seq(Word) /\ RunAnd(flags) # <<>>
  BY <1>1, <1>4, ConcatProperties, ConcatFirst DEF RunAnd
<1>6. Folds(ReadOp, Behind(<<>>), Run, AtEndOf(<<Run>>))
  <2>1. Reads(Run, Run)
    BY RunIs, ReadsPlain
  <2>2. Folds(ReadOp, Behind(<<>>), Run, In(<<>>, Run, "none"))
    BY <2>1, WordLists DEF Reads
  <2>3. AtEndOf(Append(<<>>, Run)) = In(<<>>, Run, "none")
    BY RunIs, WordLists, AtEndOfOne
  <2>4. Append(<<>>, Run) = <<Run>>
    OBVIOUS
  <2> QED  BY <2>2, <2>3, <2>4
<1>7. Folds(ReadOp, AtEndOf(<<Run>>), Spaced(flags), AtEndOf(RunAnd(flags)))
  <2>1. Folds(ReadOp, AtEndOf(<<Run>>), Spaced(flags),
              IF flags = <<>> THEN AtEndOf(<<Run>>) ELSE AtEndOf(<<Run>> \o flags))
    BY <1>1, <1>4, ReadSpaced
  <2>2. flags = <<>> => <<Run>> \o flags = <<Run>>
    OBVIOUS
  <2> QED  BY <2>1, <2>2 DEF RunAnd
<1>8. Folds(ReadOp, Behind(<<>>), Run \o Spaced(flags), AtEndOf(RunAnd(flags)))
  BY <1>2, <1>6, <1>7, RunIs, FoldsThen
<1> QED  BY <1>3, <1>5, <1>8 DEF RunLine, Run

\* The written words of a command are read as they are meant, behind anything.
Writing(style, call) == [k \in DOMAIN call |-> Written(style, call[k])]

LEMMA WritingIs ==
    ASSUME NEW style \in AllStyles, NEW call \in Seq(Word)
    PROVE  /\ Writing(style, call) \in [1..Len(call) -> Seq(Char)]
           /\ Writing(style, call) \in Seq(Seq(Char)) /\ Len(Writing(style, call)) = Len(call)
           /\ \A k \in 1..Len(call) :
                 /\ Writing(style, call)[k] = Written(style, call[k])
                 /\ Writing(style, call)[k] # <<>> /\ Writing(style, call)[k][1] # Space
                 /\ Reads(Writing(style, call)[k], call[k])
<1>1. Len(call) \in Nat /\ DOMAIN call = 1..Len(call) /\ \A k \in 1..Len(call) : call[k] \in Word
  OBVIOUS
<1>2. ASSUME NEW k \in 1..Len(call)
      PROVE  /\ Written(style, call[k]) \in Seq(Char) /\ Reads(Written(style, call[k]), call[k])
             /\ Written(style, call[k]) # <<>> /\ Written(style, call[k])[1] # Space
  <2>1. call[k] \in Word /\ call[k] \in Seq(Char)
    BY <1>1, WordLists
  <2> QED  BY <2>1, ReadsWritten, WrittenEnds
<1> DEFINE texts == Writing(style, call)
<1>3. texts \in [1..Len(call) -> Seq(Char)] /\ \A k \in 1..Len(call) : texts[k] = Written(style, call[k])
  BY <1>1, <1>2 DEF Writing
<1> HIDE DEF texts
<1>4. texts \in Seq(Seq(Char)) /\ Len(texts) = Len(call)
  BY <1>1, <1>3, FunctionIsList
<1>5. \A k \in 1..Len(call) : texts[k] # <<>> /\ texts[k][1] # Space /\ Reads(texts[k], call[k])
  BY <1>2, <1>3
<1> QED  BY <1>3, <1>4, <1>5 DEF texts

LEMMA NextLinesAre == ASSUME NEW after \in NextLines PROVE after \in Seq(Seq(Char))
<1>1. "#" \in Char
  BY SpecialChars DEF Special
<1>2. <<"#">> \in Seq(Char)
  BY <1>1, MembersOfOne
<1>3. <<<<"#">>>> \in Seq(Seq(Char)) /\ <<>> \in Seq(Seq(Char))
  BY <1>2, MembersOfOne
<1> QED  BY <1>3 DEF NextLines

\* The line of a command that is written on one line.
Fits(style, call) == style # "escaped" \/ Closed(Last(call))

LEMMA OneLine ==
    ASSUME NEW style \in AllStyles, NEW flags \in FlagWords, NEW call \in Seq(Word), call # <<>>,
           Fits(style, call),
           NEW after \in NextLines,
           NEW line, line = RunLine(flags) \o Spaced(Writing(style, call))
    PROVE  /\ FirstLine(<<line>> \o after) \in Seq(Char)
           /\ Folds(ReadOp, Behind(<<>>), FirstLine(<<line>> \o after), AtEndOf(RunAnd(flags) \o call))
<1> DEFINE n == Len(call)
           texts == Writing(style, call)
           start == RunLine(flags)
<1>1. n \in Nat \ {0} /\ n \in 1..n /\ call[n] \in Word /\ Last(call) = call[n]
  BY EmptySeq DEF Last
<1>2. /\ texts \in [1..n -> Seq(Char)] /\ \A k \in 1..n : texts[k] # <<>> /\ Reads(texts[k], call[k])
      /\ texts[n] = Written(style, call[n])
  BY <1>1, WritingIs
<1>3. /\ start \in Seq(Char) /\ start # <<>> /\ start[1] = "r"
      /\ RunAnd(flags) \in Seq(Word) /\ RunAnd(flags) # <<>>
      /\ Folds(ReadOp, Behind(<<>>), start, AtEndOf(RunAnd(flags)))
  BY StartReads
<1> HIDE DEF texts, start, n
<1>4. Spaced(texts) \in Seq(Char) /\ Spaced(texts) # <<>> /\ Closed(Spaced(texts))
  <2>1. /\ Spaced(texts) \in Seq(Char) /\ Len(Spaced(texts)) >= 2
        /\ Last(Spaced(texts)) = Last(texts[n])
    BY <1>1, <1>2, SpacedEnds
  <2>2. Closed(texts[n])
    BY <1>1, <1>2, WrittenEnds DEF Fits
  <2>3. Len(<<>>) = 0
    OBVIOUS
  <2>4. Spaced(texts) # <<>>
    BY <2>1, <2>3
  <2> QED  BY <2>1, <2>2, <2>4 DEF Closed
<1>5. Folds(ReadOp, AtEndOf(RunAnd(flags)), Spaced(texts), AtEndOf(RunAnd(flags) \o call))
  BY <1>2, <1>3, ReadSpaced, EmptySeq DEF n
<1>6. line = start \o Spaced(texts)
  BY DEF start, texts
<1>7. Folds(ReadOp, Behind(<<>>), line, AtEndOf(RunAnd(flags) \o call))
  BY <1>3, <1>4, <1>5, <1>6, FoldsThen
<1>8. line \in Seq(Char) /\ line # <<>> /\ line[1] = "r" /\ Closed(line)
  <2>1. line \in Seq(Char) /\ line # <<>> /\ Last(line) = Last(Spaced(texts))
    BY <1>3, <1>4, <1>6, ConcatLast
  <2>2. line[1] = "r"
    BY <1>3, <1>4, <1>6, ConcatFirst
  <2> QED  BY <1>4, <2>1, <2>2 DEF Closed
<1>9. Solid(line) /\ Last(line) # "\\"
  BY <1>8 DEF Solid, Closed, Space
<1>10. /\ <<line>> \o after \in Seq(Seq(Char)) /\ <<line>> \o after # <<>>
       /\ (<<line>> \o after)[1] = line
  <2>1. <<line>> \in Seq(Seq(Char)) /\ <<line>> # <<>> /\ <<line>>[1] = line
    BY <1>8, MembersOfOne
  <2>2. after \in Seq(Seq(Char))
    BY NextLinesAre
  <2> QED  BY <2>1, <2>2, ConcatProperties, ConcatFirst
<1>11. FirstLine(<<line>> \o after) = line
  BY <1>9, <1>10, FirstLineOne
<1> QED  BY <1>7, <1>8, <1>11

\* A text whose first line goes on is read as one with one more blank.
LEMMA Continue ==
    ASSUME NEW A \in Seq(Char), A # <<>>, A[1] # Space,
           NEW B \in Seq(Char), Len(B) >= 2, B[1] = Space, B[2] # Space, Closed(B),
           NEW after \in NextLines
    PROVE  FirstLine(<<A \o <<Space, "\\">>, Tail(B)>> \o after) = (A \o <<Space>>) \o B
<1> DEFINE one == A \o <<Space, "\\">>
           two == Tail(B)
           AB == A \o <<Space>>
           text == <<one, two>> \o after
<1>1. /\ <<Space>> \in Seq(Char) /\ <<"\\">> \in Seq(Char) /\ <<Space, "\\">> = <<Space>> \o <<"\\">>
      /\ "\\" \in Char
  BY SpecialChars, Pair, MembersOfOne
<1>2. AB \in Seq(Char) /\ AB # <<>> /\ AB[1] = A[1]
  BY <1>1, ConcatProperties, ConcatFirst
<1>3. one = Append(AB, "\\") /\ one = AB \o <<"\\">>
  <2>1. A \o (<<Space>> \o <<"\\">>) = (A \o <<Space>>) \o <<"\\">>
    BY <1>1, ConcatAssociative
  <2> HIDE DEF AB
  <2>2. AB \o <<"\\">> = Append(AB, "\\")
    BY <1>1, <1>2, AppendIsConcat
  <2> QED  BY <1>1, <2>1, <2>2 DEF AB
<1> HIDE DEF AB, one
<1>4. one \in Seq(Char) /\ one # <<>> /\ Last(one) = "\\" /\ Front(one) = AB
  <2>1. /\ Append(AB, "\\") \in Seq(Char) /\ Append(AB, "\\") # <<>>
        /\ Front(Append(AB, "\\")) = AB /\ Last(Append(AB, "\\")) = "\\"
    BY <1>1, <1>2, AppendEnds
  <2> QED  BY <1>3, <2>1
<1>5. Solid(one)
  <2>1. one[1] = AB[1]
    BY <1>1, <1>2, <1>3, ConcatFirst
  <2> QED  BY <1>2, <1>4, <2>1 DEF Solid, Space
<1>6. B # <<>> /\ Len(B) \in Nat
  OBVIOUS
<1>7. two \in Seq(Char) /\ Len(two) = Len(B) - 1 /\ \A k \in 1..Len(two) : two[k] = B[k + 1]
  BY <1>6, HeadTailProperties
<1>8. <<Space>> \o two = B
  <2>1. B = SubSeq(B, 1, Len(B)) /\ two = SubSeq(B, 2, Len(B))
    BY <1>6, SubSeqFull, TailIsSubSeq
  <2>2. 1 \in 1..Len(B) /\ Len(B) \in 1..Len(B) /\ 1 + 1 = 2
    BY <1>6
  <2>3. SubSeq(B, 1, Len(B)) = <<B[1]>> \o SubSeq(B, 1 + 1, Len(B))
    BY <2>2, SubSeqRecursiveFirst
  <2> QED  BY <2>1, <2>2, <2>3
<1> HIDE DEF two
<1>9. two # <<>> /\ two[1] = B[2] /\ Last(two) = Last(B)
  <2>1. 1 \in 1..Len(two) /\ Len(two) \in 1..Len(two) /\ 1 + 1 = 2 /\ Len(two) + 1 = Len(B)
    BY <1>6, <1>7
  <2>2. Len(<<>>) = 0 /\ Len(two) # 0
    BY <1>6, <1>7
  <2> QED  BY <1>7, <2>1, <2>2 DEF Last
<1>10. Solid(two) /\ Last(two) # "\\"
  BY <1>7, <1>9 DEF Solid, Closed
<1>11. text \in Seq(Seq(Char)) /\ Len(text) >= 2 /\ text[1] = one /\ text[2] = two
  <2> DEFINE pair == <<one, two>>
  <2>1. pair \in Seq(Seq(Char)) /\ Len(pair) = 2 /\ pair[1] = one /\ pair[2] = two
    <3>1. <<one, two>> \in Seq(Seq(Char))
      BY <1>4, <1>7, Pair
    <3> QED  BY <3>1
  <2>2. after \in Seq(Seq(Char)) /\ Len(after) \in Nat
    BY NextLinesAre
  <2> HIDE DEF pair
  <2>3. /\ pair \o after \in Seq(Seq(Char)) /\ Len(pair \o after) = 2 + Len(after)
        /\ \A k \in 1..(2 + Len(after)) :
              (pair \o after)[k] = IF k <= 2 THEN pair[k] ELSE after[k - 2]
    <3>1. pair \in Seq(Seq(Char)) /\ after \in Seq(Seq(Char)) /\ Len(pair) = 2
      BY <2>1, <2>2
    <3>2. /\ pair \o after \in Seq(Seq(Char)) /\ Len(pair \o after) = Len(pair) + Len(after)
          /\ \A k \in 1..(Len(pair) + Len(after)) :
                (pair \o after)[k] = IF k <= Len(pair) THEN pair[k] ELSE after[k - Len(pair)]
      BY <3>1, ConcatProperties
    <3> QED  BY <3>1, <3>2
  <2>4. 1 \in 1..(2 + Len(after)) /\ 2 \in 1..(2 + Len(after)) /\ 2 + Len(after) >= 2
    BY <2>2
  <2>5. (pair \o after)[1] = pair[1] /\ (pair \o after)[2] = pair[2]
    BY <2>3, <2>4
  <2>6. text = pair \o after
    BY DEF pair
  <2> HIDE DEF text
  <2> QED  BY <2>1, <2>3, <2>4, <2>5, <2>6
<1> HIDE DEF text
<1>12. FirstLine(text) = AB \o <<Space>> \o two
  BY <1>4, <1>5, <1>10, <1>11, FirstLineTwo
<1>13. (AB \o <<Space>>) \o two = AB \o (<<Space>> \o two)
  <2>1. AB \in Seq(Char) /\ <<Space>> \in Seq(Char) /\ two \in Seq(Char)
    BY <1>1, <1>2, <1>7
  <2> QED  BY <2>1, ConcatAssociative
<1>14. FirstLine(text) = AB \o B
  BY <1>8, <1>12, <1>13
<1> QED  BY <1>14 DEF text, one, two, AB

\* ... and one that goes on after its first i words.
LEMMA TwoLines ==
    ASSUME NEW style \in AllStyles, NEW flags \in FlagWords, NEW call \in Seq(Word), call # <<>>,
           Fits(style, call),
           NEW after \in NextLines,
           NEW i \in 1..(Len(call) - 1),
           NEW A, A = RunLine(flags) \o Spaced(SubSeq(Writing(style, call), 1, i)),
           NEW B, B = Spaced(SubSeq(Writing(style, call), i + 1, Len(call)))
    PROVE  LET line == FirstLine(<<A \o <<Space, "\\">>, Tail(B)>> \o after)
           IN  /\ line \in Seq(Char)
               /\ Folds(ReadOp, Behind(<<>>), line, AtEndOf(RunAnd(flags) \o call))
<1> DEFINE n == Len(call)
           texts == Writing(style, call)
           start == RunLine(flags)
           lefts == SubSeq(texts, 1, i)
           rights == SubSeq(texts, i + 1, n)
           left == SubSeq(call, 1, i)
           right == SubSeq(call, i + 1, n)
           middle == RunAnd(flags) \o left
<1>0. A = start \o Spaced(lefts) /\ B = Spaced(rights)
  OBVIOUS
<1>1. /\ n \in Nat \ {0} /\ n \in 1..n
      /\ i \in 1..n /\ i \in Nat \ {0} /\ i + 1 \in 1..n /\ n - i \in Nat \ {0}
      /\ call[n] \in Word /\ Last(call) = call[n] /\ (n - i) + i = n
  BY EmptySeq DEF Last
<1>2. /\ texts \in Seq(Seq(Char)) /\ Len(texts) = n
      /\ \A k \in 1..n : /\ texts[k] \in Seq(Char) /\ texts[k] # <<>> /\ texts[k][1] # Space
                         /\ Reads(texts[k], call[k])
      /\ texts[n] = Written(style, call[n])
  BY <1>1, WritingIs
<1>3. /\ start \in Seq(Char) /\ start # <<>> /\ start[1] = "r"
      /\ RunAnd(flags) \in Seq(Word) /\ RunAnd(flags) # <<>>
      /\ Folds(ReadOp, Behind(<<>>), start, AtEndOf(RunAnd(flags)))
  BY StartReads
<1> HIDE DEF texts, start, n
<1>4. /\ left \in Seq(Word) /\ Len(left) = i /\ left # <<>> /\ \A k \in 1..i : left[k] = call[k]
      /\ right \in Seq(Word) /\ Len(right) = n - i /\ right # <<>>
      /\ \A k \in 1..(n - i) : right[k] = call[i + k]
  <2>1. \A k \in 1..n : call[k] \in Word
    BY DEF n
  <2>2. /\ 1 \in Int /\ i \in Int /\ 1 <= i /\ (i - 1) + 1 = i /\ i + 1 \in Int /\ n \in Int
        /\ \A k \in 1..i : call[k] \in Word /\ (1 + k) - 1 = k
        /\ \A k \in (i + 1)..n : call[k] \in Word
        /\ i + 1 <= n /\ (n - (i + 1)) + 1 = n - i
        /\ \A k \in 1..(n - i) : ((i + 1) + k) - 1 = i + k
    BY <1>1, <2>1
  <2>3. left \in Seq(Word) /\ Len(left) = i /\ \A k \in 1..i : left[k] = call[k]
    BY <2>2, SubSeqProperties
  <2>4. right \in Seq(Word) /\ Len(right) = n - i /\ \A k \in 1..(n - i) : right[k] = call[i + k]
    BY <2>2, SubSeqProperties
  <2>5. Len(<<>>) = 0
    OBVIOUS
  <2> HIDE DEF left, right
  <2> QED  BY <1>1, <2>3, <2>4, <2>5
<1>5. /\ lefts \in [1..i -> Seq(Char)] /\ \A k \in 1..i : lefts[k] = texts[k]
      /\ rights \in [1..(n - i) -> Seq(Char)] /\ \A k \in 1..(n - i) : rights[k] = texts[i + k]
  <2>2. /\ 1 \in Int /\ i \in Int /\ 1 <= i /\ (i - 1) + 1 = i /\ i + 1 \in Int /\ n \in Int
        /\ \A k \in 1..i : texts[k] \in Seq(Char) /\ (1 + k) - 1 = k
        /\ \A k \in (i + 1)..n : texts[k] \in Seq(Char)
        /\ i + 1 <= n /\ (n - (i + 1)) + 1 = n - i
        /\ \A k \in 1..(n - i) : ((i + 1) + k) - 1 = i + k
    BY <1>1, <1>2
  <2>3. lefts \in Seq(Seq(Char)) /\ Len(lefts) = i /\ \A k \in 1..i : lefts[k] = texts[k]
    BY <2>2, SubSeqProperties
  <2>4. /\ rights \in Seq(Seq(Char)) /\ Len(rights) = n - i
        /\ \A k \in 1..(n - i) : rights[k] = texts[i + k]
    BY <2>2, SubSeqProperties
  <2> HIDE DEF lefts, rights
  <2> QED  BY <2>3, <2>4
<1>6. /\ \A k \in 1..i : lefts[k] # <<>> /\ Reads(lefts[k], left[k])
      /\ \A k \in 1..(n - i) : rights[k] # <<>> /\ rights[k][1] # Space /\ Reads(rights[k], right[k])
      /\ Closed(rights[n - i])
  <2>1. \A k \in 1..i : k \in 1..n
    BY <1>1
  <2>2. \A k \in 1..(n - i) : i + k \in 1..n
    BY <1>1
  <2>3. Closed(texts[n])
    BY <1>1, <1>2, WrittenEnds DEF Fits
  <2>4. rights[n - i] = texts[n]
    <3>1. n - i \in 1..(n - i) /\ i + (n - i) = n
      BY <1>1
    <3> HIDE DEF rights
    <3> QED  BY <1>5, <3>1
  <2> HIDE DEF left, right, lefts, rights
  <2>5. ASSUME NEW k \in 1..i PROVE lefts[k] # <<>> /\ Reads(lefts[k], left[k])
    <3>1. k \in 1..n /\ lefts[k] = texts[k] /\ left[k] = call[k]
      BY <1>4, <1>5, <2>1
    <3>2. texts[k] # <<>> /\ Reads(texts[k], call[k])
      BY <1>2, <3>1
    <3> QED  BY <3>1, <3>2
  <2>6. ASSUME NEW k \in 1..(n - i)
        PROVE  rights[k] # <<>> /\ rights[k][1] # Space /\ Reads(rights[k], right[k])
    <3>1. i + k \in 1..n /\ rights[k] = texts[i + k] /\ right[k] = call[i + k]
      BY <1>4, <1>5, <2>2
    <3> DEFINE j == i + k
    <3> HIDE DEF j
    <3>2. j \in 1..n => texts[j] # <<>> /\ texts[j][1] # Space /\ Reads(texts[j], call[j])
      BY <1>2
    <3> QED  BY <3>1, <3>2 DEF j
  <2> QED  BY <2>3, <2>4, <2>5, <2>6
<1>7. middle \in Seq(Word) /\ middle # <<>> /\ middle \o right = RunAnd(flags) \o call
  <2>1. middle \in Seq(Word) /\ middle # <<>>
    BY <1>3, <1>4, ConcatProperties, ConcatFirst
  <2>2. left \o right = call
    <3>1. 1 \in 1..(n + 1) /\ i \in (1 - 1)..n /\ n \in i..n
      BY <1>1
    <3>2. SubSeq(call, 1, i) \o SubSeq(call, i + 1, n) = SubSeq(call, 1, n)
      BY <3>1, ConcatAdjacentSubSeq DEF n
    <3> QED  BY <3>2, SubSeqFull DEF n
  <2> HIDE DEF left, right
  <2>3. (RunAnd(flags) \o left) \o right = RunAnd(flags) \o (left \o right)
    <3>1. RunAnd(flags) \in Seq(Word) /\ left \in Seq(Word) /\ right \in Seq(Word)
      BY <1>3, <1>4
    <3> QED  BY <3>1, ConcatAssociative
  <2> QED  BY <2>1, <2>2, <2>3
<1> HIDE DEF left, right, lefts, rights, middle
<1>8. /\ Spaced(lefts) \in Seq(Char) /\ Spaced(lefts) # <<>>
      /\ Folds(ReadOp, AtEndOf(RunAnd(flags)), Spaced(lefts), AtEndOf(middle))
  <2>1. Spaced(lefts) \in Seq(Char) /\ Len(Spaced(lefts)) >= 2
    BY <1>1, <1>5, <1>6, SpacedEnds
  <2>2. Len(<<>>) = 0
    OBVIOUS
  <2>3. Folds(ReadOp, AtEndOf(RunAnd(flags)), Spaced(lefts),
              IF left = <<>> THEN AtEndOf(RunAnd(flags)) ELSE AtEndOf(RunAnd(flags) \o left))
    BY <1>3, <1>4, <1>5, <1>6, ReadSpaced
  <2> QED  BY <1>4, <2>1, <2>2, <2>3 DEF middle
<1>9. /\ Spaced(rights) \in Seq(Char) /\ Len(Spaced(rights)) >= 2
      /\ Spaced(rights)[1] = Space /\ Spaced(rights)[2] # Space /\ Closed(Spaced(rights))
      /\ Folds(ReadOp, Behind(middle), Spaced(rights), AtEndOf(middle \o right))
  <2>1. /\ Spaced(rights) \in Seq(Char) /\ Len(Spaced(rights)) >= 2
        /\ Spaced(rights)[1] = Space /\ Spaced(rights)[2] = rights[1][1]
        /\ Last(Spaced(rights)) = Last(rights[n - i])
    BY <1>1, <1>5, <1>6, SpacedEnds
  <2>2. 1 \in 1..(n - i)
    BY <1>1
  <2>3. Folds(ReadOp, Behind(middle), Spaced(rights),
              IF right = <<>> THEN Behind(middle) ELSE AtEndOf(middle \o right))
    BY <1>4, <1>5, <1>6, <1>7, ReadSpaced
  <2> QED  BY <1>4, <1>6, <2>1, <2>2, <2>3 DEF Closed
<1>10. A \in Seq(Char) /\ A # <<>> /\ A[1] # Space /\ Folds(ReadOp, Behind(<<>>), A, AtEndOf(middle))
  <2>1. A \in Seq(Char) /\ A # <<>> /\ A[1] = "r"
    <3>1. /\ start \o Spaced(lefts) \in Seq(Char) /\ start \o Spaced(lefts) # <<>>
          /\ (start \o Spaced(lefts))[1] = start[1]
      BY <1>3, <1>8, ConcatProperties, ConcatFirst
    <3> QED  BY <1>0, <1>3, <3>1
  <2>2. Folds(ReadOp, Behind(<<>>), start \o Spaced(lefts), AtEndOf(middle))
    BY <1>3, <1>8, FoldsThen
  <2> QED  BY <1>0, <2>1, <2>2 DEF Space
<1>11. FirstLine(<<A \o <<Space, "\\">>, Tail(B)>> \o after) = (A \o <<Space>>) \o B
  <2>1. B \in Seq(Char) /\ Len(B) >= 2 /\ B[1] = Space /\ B[2] # Space /\ Closed(B)
    BY <1>0, <1>9
  <2> QED  BY <1>10, <2>1, Continue
<1>12. /\ <<Space>> \in Seq(Char) /\ A \o <<Space>> \in Seq(Char)
       /\ Folds(ReadOp, Behind(<<>>), A \o <<Space>>, Behind(middle))
  <2>1. <<Space>> \in Seq(Char)
    BY SpecialChars, MembersOfOne
  <2>2. Folds(ReadOp, AtEndOf(middle), <<Space>>, Behind(middle))
    BY <1>7, ReadBlank
  <2> QED  BY <1>10, <2>1, <2>2, ConcatProperties, FoldsThen
<1>13. /\ (A \o <<Space>>) \o B \in Seq(Char)
       /\ Folds(ReadOp, Behind(<<>>), (A \o <<Space>>) \o B, AtEndOf(RunAnd(flags) \o call))
  <2>1. B \in Seq(Char) /\ Folds(ReadOp, Behind(middle), B, AtEndOf(middle \o right))
    BY <1>0, <1>9
  <2>2. (A \o <<Space>>) \o B \in Seq(Char)
    BY <1>12, <2>1, ConcatProperties
  <2>3. Folds(ReadOp, Behind(<<>>), (A \o <<Space>>) \o B, AtEndOf(middle \o right))
    BY <1>12, <2>1, FoldsThen
  <2> QED  BY <1>7, <2>2, <2>3
<1> QED  BY <1>11, <1>13

LEMMA StylesAre ==
    ASSUME NEW call, NEW style \in Styles(call)
    PROVE  style \in AllStyles /\ Fits(style, call)
<1>1. CASE style \in {"single", "double"}
  BY <1>1 DEF AllStyles, Fits
<1>2. CASE style \in {s \in {"escaped"} : Last(Last(call)) \notin {Space, "\\"}}
  BY <1>2 DEF AllStyles, Closed, Fits
<1> QED  BY <1>1, <1>2 DEF Styles

LEMMA TextsTokenized ==
    ASSUME NEW call \in Seq(Word), call # <<>>, NEW text \in Texts(call)
    PROVE  \E flags \in FlagWords : TokenizeLine(FirstLine(text)) = RunAnd(flags) \o call
<1>0. PICK style \in Styles(call), flags \in FlagWords, after \in NextLines :
         \E first \in RunText(style, flags, call) : text = first \o after
  BY DEF Texts
<1>1. PICK first \in RunText(style, flags, call) : text = first \o after
  BY <1>0
<1>2. style \in AllStyles /\ Fits(style, call)
  BY StylesAre
<1> DEFINE words == Writing(style, call)
           start == RunLine(flags)
           A(i) == start \o Spaced(SubSeq(words, 1, i))
           B(i) == Spaced(SubSeq(words, i + 1, Len(call)))
<1>3. \/ first = <<start \o Spaced(words)>>
      \/ \E i \in 1..(Len(call) - 1) : first = <<A(i) \o <<Space, "\\">>, Tail(B(i))>>
  <2>1. \/ first = <<start \o Spaced(words)>>
        \/ \E i \in 1..(Len(call) - 1) :
              first = <<A(i) \o <<Space, "\\">>, Tail(Spaced(SubSeq(words, i + 1, Len(words))))>>
    BY DEF RunText, Writing, RunLine
  <2>2. Len(words) = Len(call)
    BY <1>2, WritingIs
  <2> HIDE DEF words, start
  <2> QED  BY <2>1, <2>2
<1>4. FirstLine(text) \in Seq(Char)
      /\ Folds(ReadOp, Behind(<<>>), FirstLine(text), AtEndOf(RunAnd(flags) \o call))
  <2>1. CASE first = <<start \o Spaced(words)>>
    <3> DEFINE line == start \o Spaced(words)
    <3>1. line = RunLine(flags) \o Spaced(Writing(style, call))
      OBVIOUS
    <3> HIDE DEF line
    <3>2. /\ FirstLine(<<line>> \o after) \in Seq(Char)
          /\ Folds(ReadOp, Behind(<<>>), FirstLine(<<line>> \o after), AtEndOf(RunAnd(flags) \o call))
      BY <1>2, <3>1, OneLine
    <3>3. text = <<line>> \o after
      BY <1>1, <2>1 DEF line
    <3> QED  BY <3>2, <3>3
  <2>2. ASSUME NEW i \in 1..(Len(call) - 1), first = <<A(i) \o <<Space, "\\">>, Tail(B(i))>>
        PROVE  FirstLine(text) \in Seq(Char)
               /\ Folds(ReadOp, Behind(<<>>), FirstLine(text), AtEndOf(RunAnd(flags) \o call))
    <3> DEFINE a == A(i)
               b == B(i)
    <3>1. /\ a = RunLine(flags) \o Spaced(SubSeq(Writing(style, call), 1, i))
          /\ b = Spaced(SubSeq(Writing(style, call), i + 1, Len(call)))
      OBVIOUS
    <3> HIDE DEF a, b
    <3> DEFINE line == FirstLine(<<a \o <<Space, "\\">>, Tail(b)>> \o after)
    <3>2. /\ line \in Seq(Char)
          /\ Folds(ReadOp, Behind(<<>>), line, AtEndOf(RunAnd(flags) \o call))
      BY <1>2, <3>1, TwoLines
    <3>3. FirstLine(text) = line
      BY <1>1, <2>2 DEF a, b
    <3> QED  BY <3>2, <3>3
  <2> QED  BY <1>3, <2>1, <2>2
<1>5. RunAnd(flags) \o call \in Seq(Word) /\ RunAnd(flags) \o call # <<>>
  <2>1. RunAnd(flags) \in Seq(Word) /\ RunAnd(flags) # <<>>
    BY StartReads
  <2> QED  BY <2>1, ConcatProperties, ConcatFirst
<1>6. TokenizeLine(FirstLine(text)) = RunAnd(flags) \o call
  <2> DEFINE line == FirstLine(text)
             tokens == RunAnd(flags) \o call
  <2>1. /\ line \in Seq(Char) /\ Folds(ReadOp, Behind(<<>>), line, AtEndOf(tokens))
        /\ tokens \in Seq(Word) /\ tokens # <<>>
    BY <1>4, <1>5
  <2> HIDE DEF line, tokens
  <2>2. TokenizeLine(line) = tokens
    BY <2>1, Tokenized
  <2> QED  BY <2>2 DEF line, tokens
<1> QED  BY <1>6

-----------------------------------------------------------------------------
(* insertRunTacks, and the command line library.                               *)

LEMMA FlagsAreNone ==
    ASSUME NEW words \in Seq(Word), \A i \in 1..Len(words) : words[i][1] = "-"
    PROVE  NoFlags(words) = <<>>
<1> DEFINE ss == [i \in DOMAIN words |-> IF words[i][1] = "-" THEN <<>> ELSE <<words[i]>>]
           n == Len(words)
<1>1. n \in Nat /\ DOMAIN words = 1..n
  OBVIOUS
<1>2. ss \in [1..n -> Seq(Word)] /\ \A i \in 1..n : ss[i] = <<>>
  BY <1>1, WordLists
<1> HIDE DEF ss, n
<1>3. FlattenSeq(ss) \in Seq(Word) /\ ToSet(FlattenSeq(ss)) = UNION {ToSet(ss[j]) : j \in 1..n}
  BY <1>1, <1>2, FlattenFacts
<1>4. ToSet(<<>>) = {}
  BY DEF ToSet
<1>5. ToSet(FlattenSeq(ss)) = {}
  BY <1>2, <1>3, <1>4
<1> DEFINE all == FlattenSeq(ss)
<1>6. all \in Seq(Word) /\ ToSet(all) = {}
  BY <1>3, <1>5
<1> HIDE DEF all
<1>7. all = <<>>
  <2>1. \A i \in 1..Len(all) : all[i] \in ToSet(all)
    BY <1>6 DEF ToSet
  <2>2. Len(all) \in Nat /\ 1..Len(all) = {}
    BY <1>6, <2>1
  <2>3. Len(all) = 0
    BY <2>2
  <2> QED  BY <1>6, <2>3, EmptySeq
<1> QED  BY <1>7 DEF NoFlags, ss, all

\* A list of words between run and the command.
Between(tokens, flags, call) ==
    /\ tokens \in Seq(Word) /\ Len(tokens) = 1 + Len(flags) + Len(call)
    /\ tokens[1] = Run
    /\ \A i \in 1..Len(flags) : tokens[1 + i] = flags[i]
    /\ \A i \in 1..Len(call) : tokens[1 + Len(flags) + i] = call[i]

LEMMA BetweenIs ==
    ASSUME NEW flags \in Seq(Word), NEW call \in Seq(Word)
    PROVE  Between(RunAnd(flags) \o call, flags, call)
<1> DEFINE m == Len(flags)
           n == Len(call)
           h == <<Run>> \o flags
           t == h \o call
<1>1. m \in Nat /\ n \in Nat /\ <<Run>> \in Seq(Word) /\ Len(<<Run>>) = 1 /\ <<Run>>[1] = Run
  BY RunIs, MembersOfOne
<1>2. /\ h \in Seq(Word) /\ Len(h) = Len(<<Run>>) + m
      /\ \A i \in 1..(Len(<<Run>>) + m) : h[i] = IF i <= Len(<<Run>>) THEN <<Run>>[i] ELSE flags[i - Len(<<Run>>)]
  BY <1>1, ConcatProperties
<1>3. /\ Len(h) = 1 + m /\ h[1] = Run /\ \A i \in 1..m : h[1 + i] = flags[i]
  <2>1. /\ \A i \in 1..(1 + m) : h[i] = IF i <= 1 THEN <<Run>>[i] ELSE flags[i - 1]
        /\ Len(h) = 1 + m
    BY <1>1, <1>2
  <2> HIDE DEF h, m
  <2>2. h[1] = Run
    <3>1. 1 \in 1..(1 + m) /\ 1 <= 1
      BY <1>1
    <3> QED  BY <1>1, <2>1, <3>1
  <2>3. ASSUME NEW i \in 1..m PROVE h[1 + i] = flags[i]
    <3>1. 1 + i \in 1..(1 + m) /\ ~(1 + i <= 1) /\ (1 + i) - 1 = i
      BY <1>1
    <3> QED  BY <2>1, <3>1
  <2> QED  BY <2>1, <2>2, <2>3
<1>4. /\ t \in Seq(Word) /\ Len(t) = 1 + m + n
      /\ \A i \in 1..(1 + m + n) : t[i] = IF i <= 1 + m THEN h[i] ELSE call[i - (1 + m)]
  <2> HIDE DEF h
  <2>1. h \in Seq(Word) /\ Len(h) = 1 + m
    BY <1>2, <1>3
  <2>2. /\ t \in Seq(Word) /\ Len(t) = Len(h) + n
        /\ \A i \in 1..(Len(h) + n) : t[i] = IF i <= Len(h) THEN h[i] ELSE call[i - Len(h)]
    BY <2>1, ConcatProperties
  <2> HIDE DEF t
  <2> QED  BY <2>1, <2>2
<1> HIDE DEF h, t, m, n
<1>5. t[1] = Run
  <2>1. 1 \in 1..(1 + m + n) /\ 1 <= 1 + m
    BY <1>1
  <2> QED  BY <1>3, <1>4, <2>1
<1>6. ASSUME NEW i \in 1..m PROVE t[1 + i] = flags[i]
  <2>1. 1 + i \in 1..(1 + m + n) /\ 1 + i <= 1 + m
    BY <1>1
  <2> QED  BY <1>3, <1>4, <2>1
<1>7. ASSUME NEW i \in 1..n PROVE t[1 + m + i] = call[i]
  <2>1. 1 + m + i \in 1..(1 + m + n) /\ ~(1 + m + i <= 1 + m) /\ (1 + m + i) - (1 + m) = i
    BY <1>1
  <2> QED  BY <1>4, <2>1
<1> QED  BY <1>4, <1>5, <1>6, <1>7 DEF Between, RunAnd, h, t, m, n

LEMMA LeastIs ==
    ASSUME NEW T \in SUBSET Nat, NEW n \in T, \A m \in T : n <= m
    PROVE  (CHOOSE i \in T : \A j \in T : i <= j) = n
<1> DEFINE i == CHOOSE i \in T : \A j \in T : i <= j
<1>1. i \in T /\ \A j \in T : i <= j
  OBVIOUS
<1> HIDE DEF i
<1>2. i <= n /\ n <= i /\ i \in Nat
  BY <1>1
<1> QED  BY <1>2 DEF i

\* Flags that end with "--", and no other one.
Parted(flags) ==
    /\ flags \in Seq(Word) /\ flags # <<>> /\ flags[Len(flags)] = Tacks
    /\ \A i \in 1..Len(flags) : flags[i][1] = "-" /\ (flags[i] = Tacks => i = Len(flags))

LEMMA PositionalIs ==
    ASSUME NEW flags, Parted(flags), NEW call \in Seq(Word)
    PROVE  Positional(RunAnd(flags) \o call) = call
<1> DEFINE tokens == RunAnd(flags) \o call
           m == Len(flags)
           n == Len(call)
           cuts == {i \in 2..Len(tokens) : tokens[i] = Tacks} \cup {Len(tokens) + 1}
           before == SubSeq(tokens, 2, m)
<1>1. m \in Nat \ {0} /\ n \in Nat /\ flags \in Seq(Word) /\ flags[m] = Tacks
      /\ \A i \in 1..m : flags[i][1] = "-" /\ (flags[i] = Tacks => i = m)
  BY EmptySeq DEF Parted
<1>2. /\ tokens \in Seq(Word) /\ Len(tokens) = 1 + m + n
      /\ \A i \in 1..m : tokens[1 + i] = flags[i]
  BY <1>1, BetweenIs DEF Between
<1>3. SubSeq(tokens, m + 2, Len(tokens)) = call
  <2>1. RunAnd(flags) \in Seq(Word) /\ Len(RunAnd(flags)) = 1 + m
    <3>1. <<Run>> \in Seq(Word) /\ Len(<<Run>>) = 1
      BY RunIs, MembersOfOne
    <3>2. <<Run>> \o flags \in Seq(Word) /\ Len(<<Run>> \o flags) = Len(<<Run>>) + m
      BY <1>1, <3>1, ConcatProperties
    <3> QED  BY <3>1, <3>2 DEF RunAnd
  <2>2. SubSeq(tokens, Len(RunAnd(flags)) + 1, Len(RunAnd(flags)) + n) = call
    BY <2>1, SplitAt
  <2>3. Len(RunAnd(flags)) + 1 = m + 2 /\ Len(RunAnd(flags)) + n = Len(tokens)
    BY <1>1, <1>2, <2>1
  <2> HIDE DEF tokens, m, n
  <2> QED  BY <2>2, <2>3
<1> HIDE DEF tokens, m, n
<1>4. (CHOOSE i \in cuts : \A j \in cuts : i <= j) = m + 1
  <2>1. m + 1 \in cuts
    <3>1. tokens[1 + m] = flags[m] /\ 1 + m = m + 1 /\ m + 1 \in 2..Len(tokens)
      BY <1>1, <1>2
    <3> QED  BY <1>1, <3>1
  <2>2. ASSUME NEW j \in cuts PROVE m + 1 <= j
    <3>1. CASE j = Len(tokens) + 1
      BY <1>1, <1>2, <3>1
    <3>2. CASE j \in 2..Len(tokens) /\ tokens[j] = Tacks
      <4> SUFFICES ASSUME j <= m PROVE FALSE
        BY <1>1, <1>2, <3>2
      <4>1. j - 1 \in 1..m /\ 1 + (j - 1) = j /\ j - 1 # m
        BY <1>1, <3>2
      <4>2. tokens[j] = flags[j - 1]
        BY <1>2, <4>1
      <4> QED  BY <1>1, <3>2, <4>1, <4>2
    <3> QED  BY <3>1, <3>2
  <2>3. cuts \in SUBSET Nat
    BY <1>1, <1>2
  <2> HIDE DEF cuts
  <2> QED  BY <2>1, <2>2, <2>3, LeastIs
<1>5. NoFlags(before) = <<>>
  <2>1. \A i \in 2..m : tokens[i] \in Word
    BY <1>1, <1>2
  <2>2. /\ before \in Seq(Word) /\ Len(before) = IF 2 <= m THEN (m - 2) + 1 ELSE 0
        /\ \A i \in 1..((m - 2) + 1) : before[i] = tokens[(2 + i) - 1]
    <3>1. 2 \in Int /\ m \in Int
      BY <1>1
    <3> QED  BY <2>1, <3>1, SubSeqProperties
  <2> HIDE DEF before
  <2>3. ASSUME NEW i \in 1..Len(before) PROVE before[i][1] = "-"
    <3>1. i \in 1..((m - 2) + 1) /\ (2 + i) - 1 = 1 + i /\ i \in 1..m
      BY <1>1, <2>2
    <3>2. before[i] = flags[i]
      BY <1>2, <2>2, <3>1
    <3> QED  BY <1>1, <3>1, <3>2
  <2> QED  BY <2>2, <2>3, FlagsAreNone
<1> DEFINE cut == CHOOSE i \in cuts : \A j \in cuts : i <= j
<1>6. Positional(tokens) = NoFlags(SubSeq(tokens, 2, cut - 1)) \o SubSeq(tokens, cut + 1, Len(tokens))
  BY DEF Positional
<1>7. cut = m + 1
  BY <1>4
<1> HIDE DEF cut
<1>8. cut - 1 = m /\ cut + 1 = m + 2
  <2>1. m \in Nat
    BY <1>1
  <2>2. (m + 1) - 1 = m /\ (m + 1) + 1 = m + 2
    BY <2>1
  <2> QED  BY <1>7, <2>2
<1>9. Positional(tokens) = <<>> \o call
  BY <1>3, <1>5, <1>6, <1>8
<1>10. <<>> \o call = call
  OBVIOUS
<1> QED  BY <1>9, <1>10 DEF tokens

LEMMA Inserted ==
    ASSUME NEW flags \in FlagWords, NEW call \in Seq(Word), call # <<>>, call[1][1] # "-"
    PROVE  \E parted : /\ Parted(parted)
                       /\ InsertRunTacks(RunAnd(flags) \o call) = RunAnd(parted) \o call
<1> DEFINE tokens == RunAnd(flags) \o call
           m == Len(flags)
           n == Len(call)
           decides == {i \in 2..Len(tokens) : tokens[i] = Tacks \/ tokens[i][1] # "-"}
           first == CHOOSE i \in decides : \A j \in decides : i <= j
<1>1. m \in Nat /\ n \in Nat \ {0} /\ flags \in Seq(Word) /\ call[1] \in Word
      /\ \A i \in 1..m : flags[i][1] = "-" /\ (flags[i] = Tacks => i = m)
  BY FlagIs, EmptySeq
<1>2. /\ tokens \in Seq(Word) /\ Len(tokens) = 1 + m + n
      /\ \A i \in 1..m : tokens[1 + i] = flags[i]
      /\ \A i \in 1..n : tokens[1 + m + i] = call[i]
  BY <1>1, BetweenIs DEF Between
<1>3. RunAnd(flags) \in Seq(Word) /\ Len(RunAnd(flags)) = 1 + m
  <2>1. <<Run>> \in Seq(Word) /\ Len(<<Run>>) = 1
    BY RunIs, MembersOfOne
  <2>2. <<Run>> \o flags \in Seq(Word) /\ Len(<<Run>> \o flags) = Len(<<Run>>) + m
    BY <1>1, <2>1, ConcatProperties
  <2> QED  BY <2>1, <2>2 DEF RunAnd
<1>4. /\ SubSeq(tokens, 1, 1 + m) = RunAnd(flags)
      /\ SubSeq(tokens, (1 + m) + 1, Len(tokens)) = call
  <2>1. /\ SubSeq(tokens, 1, Len(RunAnd(flags))) = RunAnd(flags)
        /\ SubSeq(tokens, Len(RunAnd(flags)) + 1, Len(RunAnd(flags)) + n) = call
    BY <1>3, SplitAt
  <2> HIDE DEF tokens, m, n
  <2> QED  BY <1>2, <1>3, <2>1
<1>5. Tacks[1] = "-" /\ Tacks \in Word /\ call[1] # Tacks
  <2>1. "-" \in Char
    BY SpecialChars
  <2>2. <<"-", "-">>[1] = "-" /\ <<"-", "-">> \in Seq(Char) /\ <<"-", "-">> # <<>>
    BY <2>1
  <2>3. Tacks[1] = "-" /\ Tacks \in Seq(Char) /\ Tacks # <<>>
    BY <2>2 DEF Tacks
  <2> QED  BY <2>3 DEF Word
<1>6. InsertRunTacks(tokens) = IF decides = {} \/ tokens[first] = Tacks THEN tokens
                               ELSE SubSeq(tokens, 1, first - 1) \o <<Tacks>> \o SubSeq(tokens, first, Len(tokens))
  BY DEF InsertRunTacks
<1> HIDE DEF tokens, m, n
<1>7. decides \in SUBSET Nat
  BY <1>1, <1>2
<1>8. \A j \in decides : \/ j - 1 \in 1..m /\ j - 1 = m /\ flags[m] = Tacks
                         \/ j >= 2 + m
  <2> TAKE j \in decides
  <2>1. j \in 2..(1 + m + n) /\ (tokens[j] = Tacks \/ tokens[j][1] # "-")
    BY <1>2
  <2>2. CASE j >= 2 + m
    BY <2>2
  <2>3. CASE j < 2 + m
    <3>1. j - 1 \in 1..m /\ 1 + (j - 1) = j
      BY <1>1, <2>1, <2>3
    <3>2. tokens[j] = flags[j - 1] /\ flags[j - 1][1] = "-"
      BY <1>1, <1>2, <3>1
    <3>3. flags[j - 1] = Tacks
      BY <2>1, <3>2
    <3>4. j - 1 = m
      BY <1>1, <3>1, <3>3
    <3> QED  BY <3>1, <3>3, <3>4
  <2> QED  BY <1>1, <2>1, <2>2, <2>3
<1>9. CASE m # 0 /\ flags[m] = Tacks
  <2>1. 1 + m \in decides /\ tokens[1 + m] = Tacks
    <3>1. m \in 1..m /\ 1 + m \in 2..(1 + m + n)
      BY <1>1, <1>9
    <3>2. tokens[1 + m] = flags[m]
      BY <1>2, <3>1
    <3> QED  BY <1>2, <1>9, <3>1, <3>2
  <2>2. \A j \in decides : 1 + m <= j
    BY <1>1, <1>7, <1>8
  <2>3. first = 1 + m
    <3> HIDE DEF decides
    <3> QED  BY <1>7, <2>1, <2>2, LeastIs
  <2>4. InsertRunTacks(tokens) = tokens
    <3> HIDE DEF decides, first
    <3> QED  BY <1>6, <2>1, <2>3
  <2>5. Parted(flags)
    <3>1. flags # <<>>
      BY <1>9 DEF m
    <3> QED  BY <1>1, <1>9, <3>1 DEF Parted, m
  <2> QED  BY <2>4, <2>5 DEF tokens
<1>10. CASE ~(m # 0 /\ flags[m] = Tacks)
  <2>1. 2 + m \in decides /\ tokens[2 + m] # Tacks
    <3>1. 1 \in 1..n /\ 1 + m + 1 = 2 + m /\ 2 + m \in 2..(1 + m + n)
      BY <1>1
    <3>2. tokens[2 + m] = call[1]
      BY <1>2, <3>1
    <3> QED  BY <1>2, <1>5, <3>1, <3>2
  <2>2. \A j \in decides : 2 + m <= j
    <3> TAKE j \in decides
    <3>1. ~(j - 1 \in 1..m /\ j - 1 = m /\ flags[m] = Tacks)
      BY <1>1, <1>10
    <3>2. j >= 2 + m
      BY <1>8, <3>1
    <3> QED  BY <3>2
  <2>3. first = 2 + m
    <3> HIDE DEF decides
    <3> QED  BY <1>7, <2>1, <2>2, LeastIs
  <2>4. decides # {} /\ tokens[first] # Tacks
    BY <2>1, <2>3
  <2> HIDE DEF decides, first
  <2>5. first - 1 = 1 + m /\ first = (1 + m) + 1
    BY <1>1, <2>3
  <2>6. InsertRunTacks(tokens) = RunAnd(flags) \o <<Tacks>> \o call
    BY <1>4, <1>6, <2>4, <2>5
  <2> DEFINE parted == Append(flags, Tacks)
  <2>7. RunAnd(flags) \o <<Tacks>> = RunAnd(parted)
    <3>1. <<Run>> \in Seq(Word) /\ <<Tacks>> \in Seq(Word)
      BY <1>5, RunIs, MembersOfOne
    <3>2. (<<Run>> \o flags) \o <<Tacks>> = <<Run>> \o (flags \o <<Tacks>>)
      BY <1>1, <3>1, ConcatAssociative
    <3>3. flags \o <<Tacks>> = parted
      BY <1>1, <1>5, AppendIsConcat
    <3> HIDE DEF parted
    <3> QED  BY <3>2, <3>3 DEF RunAnd
  <2>8. Parted(parted)
    <3>1. /\ parted \in Seq(Word) /\ Len(parted) = m + 1 /\ parted[m + 1] = Tacks
          /\ \A i \in 1..m : parted[i] = flags[i]
      BY <1>1, <1>5, AppendProperties DEF m
    <3> HIDE DEF parted
    <3>2. parted # <<>>
      <4>1. Len(<<>>) = 0
        OBVIOUS
      <4> QED  BY <1>1, <3>1, <4>1
    <3>3. ASSUME NEW i \in 1..Len(parted)
          PROVE  parted[i][1] = "-" /\ (parted[i] = Tacks => i = Len(parted))
      <4>1. CASE i = m + 1
        BY <1>5, <3>1, <4>1
      <4>2. CASE i # m + 1
        <5>1. i \in 1..m
          BY <1>1, <3>1, <4>2
        <5>2. parted[i] = flags[i] /\ flags[i][1] = "-" /\ (flags[i] = Tacks => i = m)
          BY <1>1, <3>1, <5>1
        <5>3. flags[i] # Tacks
          BY <1>1, <1>10, <5>1, <5>2
        <5> QED  BY <5>2, <5>3
      <4> QED  BY <4>1, <4>2
    <3> QED  BY <3>1, <3>2, <3>3 DEF Parted
  <2> HIDE DEF parted
  <2>9. InsertRunTacks(tokens) = RunAnd(parted) \o call
    BY <2>6, <2>7
  <2> QED  BY <2>8, <2>9 DEF tokens
<1> QED  BY <1>9, <1>10

\* What is written arrives.
LEMMA TextsArrive ==
    ASSUME NEW call \in Calls, NEW text \in Texts(call)
    PROVE  Positional(InsertRunTacks(TokenizeLine(FirstLine(text)))) = call
<1>1. call \in Seq(Word) /\ call # <<>> /\ call[1][1] # "-"
  BY CallsAssumption
<1>2. PICK flags \in FlagWords : TokenizeLine(FirstLine(text)) = RunAnd(flags) \o call
  BY <1>1, TextsTokenized
<1>3. PICK parted : /\ Parted(parted)
                    /\ InsertRunTacks(RunAnd(flags) \o call) = RunAnd(parted) \o call
  BY <1>1, Inserted
<1>4. Positional(RunAnd(parted) \o call) = call
  BY <1>1, <1>3, PositionalIs
<1> QED  BY <1>2, <1>3, <1>4

-----------------------------------------------------------------------------
(* The flag of acbuild-chroot.                                                 *)

ArgOp == [p \in Seq(Char) \X Seq(Char) |-> AddArg(p[1], p[2])]

LEMMA ArgOpIs ==
    /\ ArgOp \in [Seq(Char) \X Seq(Char) -> Seq(Char)]
    /\ \A s \in Seq(Char), arg \in Seq(Char) : ArgOp[<<s, arg>>] = AddArg(s, arg)
<1>1. ASSUME NEW s \in Seq(Char), NEW arg \in Seq(Char) PROVE AddArg(s, arg) \in Seq(Char)
  <2>1. "," \in Char
    BY SpecialChars
  <2>2. Append(s, ",") \in Seq(Char)
    BY <2>1, AppendProperties
  <2>3. s \o arg \in Seq(Char) /\ Append(s, ",") \o arg \in Seq(Char)
    BY <2>2, ConcatProperties
  <2> QED  BY <2>3 DEF AddArg
<1>2. \A p \in Seq(Char) \X Seq(Char) : AddArg(p[1], p[2]) \in Seq(Char)
  BY <1>1
<1> QED  BY <1>2 DEF ArgOp

LEMMA ArgsFold ==
    ASSUME NEW base \in Seq(Char), NEW args \in Seq(Seq(Char))
    PROVE  Folds(ArgOp, base, args, FoldLeft(AddArg, base, args))
<1> DEFINE n == Len(args)
           Body(f) == [s \in SUBSET (1..n) |->
                          IF s = {} THEN base ELSE AddArg(f[s \ {Max(s)}], args[Max(s)])]
<1>1. n \in Nat /\ args \in [1..n -> Seq(Char)] /\ DOMAIN args = 1..n
  OBVIOUS
<1>2. PICK f \in [SUBSET (1..n) -> Seq(Char)] : SetFold(ArgOp, base, args, f)
  <2>1. n \in Nat
    BY <1>1
  <2>2. args \in [1..n -> Seq(Char)]
    BY <1>1
  <2>3. ArgOp \in [Seq(Char) \X Seq(Char) -> Seq(Char)]
    BY ArgOpIs
  <2> HIDE DEF n
  <2> QED  BY <2>1, <2>2, <2>3, FoldExists, Zenon
<1>3. f = Body(f)
  <2>1. ASSUME NEW s \in SUBSET (1..n), s # {}
        PROVE  f[s] = AddArg(f[s \ {Max(s)}], args[Max(s)])
    <3>1. Max(s) \in 1..n /\ s \ {Max(s)} \in SUBSET (1..n)
      BY <1>1, <2>1, MaxIn
    <3>2. f[s \ {Max(s)}] \in Seq(Char) /\ args[Max(s)] \in Seq(Char)
      BY <1>1, <3>1
    <3>3. f[s] = ArgOp[<<f[s \ {Max(s)}], args[Max(s)]>>]
      BY <1>2, <2>1 DEF SetFold
    <3> QED  BY <3>2, <3>3, ArgOpIs
  <2>2. f[{}] = base
    BY <1>2 DEF SetFold
  <2> HIDE DEF n
  <2> QED  BY <2>1, <2>2
<1>4. PICK h : h = Body(h) /\ FoldLeft(AddArg, base, args) = h[1..n]
  <2>1. \E h : h = Body(h)
    BY <1>3
  <2> QED  BY <1>1, <2>1 DEF FoldLeft, MapThenFoldSet
<1>5. h[{}] = base
  BY <1>4
<1>6. ASSUME NEW k \in 1..Len(args)
      PROVE  h[1..(k - 1)] \in Seq(Char) => h[1..k] = ArgOp[<<h[1..(k - 1)], args[k]>>]
  <2>0. k \in Nat \ {0}
    BY <1>1
  <2>1. 1..k # {} /\ Max(1..k) = k /\ (1..k) \ {k} = 1..(k - 1)
    BY <2>0, MaxOfInterval, Zenon
  <2>2. 1..k \in SUBSET (1..n) /\ args[k] \in Seq(Char)
    BY <1>1
  <2>3. h[1..k] = AddArg(h[(1..k) \ {Max(1..k)}], args[Max(1..k)])
    BY <1>4, <2>1, <2>2
  <2>4. h[1..k] = AddArg(h[1..(k - 1)], args[k])
    BY <2>1, <2>3
  <2> QED  BY <2>2, <2>4, ArgOpIs
<1>7. ArgOp \in [Seq(Char) \X Seq(Char) -> Seq(Char)]
  BY ArgOpIs
<1>8. Folds(ArgOp, base, args, h[1..Len(args)])
  BY <1>5, <1>6, <1>7, IterFolds, Zenon
<1> QED  BY <1>4, <1>8


Parsing == [fields : Seq(Seq(Char)), buf : Seq(Char),
            at : {"start", "bare", "quoted", "closed", "bad"}]
CsvOp == [p \in Parsing \X Char |-> ReadCsv(p[1], p[2])]

LEMMA CsvType == ASSUME NEW s \in Parsing, NEW c \in Char PROVE ReadCsv(s, c) \in Parsing
<1>1. /\ Append(s.buf, c) \in Seq(Char) /\ Append(s.fields, s.buf) \in Seq(Seq(Char))
      /\ <<>> \in Seq(Char)
  <2>1. s.buf \in Seq(Char) /\ s.fields \in Seq(Seq(Char))
    BY DEF Parsing
  <2> QED  BY <2>1, AppendProperties, EmptySeq
<1>2. Field(s) \in Parsing
  BY <1>1 DEF Field, Parsing
<1>3. /\ [s EXCEPT !.at = "quoted"] \in Parsing /\ [s EXCEPT !.at = "closed"] \in Parsing
      /\ [s EXCEPT !.at = "bad"] \in Parsing
      /\ [s EXCEPT !.at = "quoted", !.buf = Append(@, c)] \in Parsing
      /\ [s EXCEPT !.buf = Append(@, c), !.at = IF @ = "start" THEN "bare" ELSE @] \in Parsing
  BY <1>1 DEF Parsing
<1> HIDE DEF Field
<1> QED  BY <1>2, <1>3 DEF ReadCsv

LEMMA CsvOpIs ==
    /\ CsvOp \in [Parsing \X Char -> Parsing]
    /\ \A s \in Parsing, c \in Char : CsvOp[<<s, c>>] = ReadCsv(s, c)
<1>1. \A p \in Parsing \X Char : ReadCsv(p[1], p[2]) \in Parsing
  BY CsvType
<1> QED  BY <1>1 DEF CsvOp

LEMMA CsvFolds ==
    ASSUME NEW base \in Parsing, NEW text \in Seq(Char)
    PROVE  Folds(CsvOp, base, text, FoldLeft(ReadCsv, base, text))
<1> DEFINE n == Len(text)
           Body(f) == [s \in SUBSET (1..n) |->
                          IF s = {} THEN base ELSE ReadCsv(f[s \ {Max(s)}], text[Max(s)])]
<1>1. n \in Nat /\ text \in [1..n -> Char] /\ DOMAIN text = 1..n
  OBVIOUS
<1>2. PICK f \in [SUBSET (1..n) -> Parsing] : SetFold(CsvOp, base, text, f)
  <2>1. n \in Nat
    BY <1>1
  <2>2. text \in [1..n -> Char]
    BY <1>1
  <2>3. CsvOp \in [Parsing \X Char -> Parsing]
    BY CsvOpIs
  <2> HIDE DEF n
  <2> QED  BY <2>1, <2>2, <2>3, FoldExists, Zenon
<1>3. f = Body(f)
  <2>1. ASSUME NEW s \in SUBSET (1..n), s # {}
        PROVE  f[s] = ReadCsv(f[s \ {Max(s)}], text[Max(s)])
    <3>1. Max(s) \in 1..n /\ s \ {Max(s)} \in SUBSET (1..n)
      BY <1>1, <2>1, MaxIn
    <3>2. f[s \ {Max(s)}] \in Parsing /\ text[Max(s)] \in Char
      BY <1>1, <3>1
    <3>3. f[s] = CsvOp[<<f[s \ {Max(s)}], text[Max(s)]>>]
      BY <1>2, <2>1 DEF SetFold
    <3> QED  BY <3>2, <3>3, CsvOpIs
  <2>2. f[{}] = base
    BY <1>2 DEF SetFold
  <2> HIDE DEF n
  <2> QED  BY <2>1, <2>2
<1>4. PICK h : h = Body(h) /\ FoldLeft(ReadCsv, base, text) = h[1..n]
  <2>1. \E h : h = Body(h)
    BY <1>3
  <2> QED  BY <1>1, <2>1 DEF FoldLeft, MapThenFoldSet
<1>5. h[{}] = base
  BY <1>4
<1>6. ASSUME NEW k \in 1..Len(text)
      PROVE  h[1..(k - 1)] \in Parsing => h[1..k] = CsvOp[<<h[1..(k - 1)], text[k]>>]
  <2>0. k \in Nat \ {0}
    BY <1>1
  <2>1. 1..k # {} /\ Max(1..k) = k /\ (1..k) \ {k} = 1..(k - 1)
    BY <2>0, MaxOfInterval, Zenon
  <2>2. 1..k \in SUBSET (1..n) /\ text[k] \in Char
    BY <1>1
  <2>3. h[1..k] = ReadCsv(h[(1..k) \ {Max(1..k)}], text[Max(1..k)])
    BY <1>4, <2>1, <2>2
  <2>4. h[1..k] = ReadCsv(h[1..(k - 1)], text[k])
    BY <2>1, <2>3
  <2> QED  BY <2>2, <2>4, CsvOpIs
<1>7. CsvOp \in [Parsing \X Char -> Parsing]
  BY CsvOpIs
<1>8. Folds(CsvOp, base, text, h[1..Len(text)])
  BY <1>5, <1>6, <1>7, IterFolds, Zenon
<1> QED  BY <1>4, <1>8

\* Where the reader of the flag is.
At(fields, buf, at) == [fields |-> fields, buf |-> buf, at |-> at]
FlagStart == At(<<>>, <<>>, "start")

LEMMA AtIs ==
    ASSUME NEW fields \in Seq(Seq(Char)), NEW buf \in Seq(Char), NEW at \in {"start", "bare"}
    PROVE  /\ At(fields, buf, at) \in Parsing
           /\ \A c \in Char : CsvOp[<<At(fields, buf, at), c>>] = ReadCsv(At(fields, buf, at), c)
<1>1. At(fields, buf, at) \in Parsing
  BY DEF At, Parsing
<1> QED  BY <1>1, CsvOpIs

LEMMA SameParsing ==
    ASSUME NEW r \in Parsing, NEW s \in Parsing,
           r.fields = s.fields, r.buf = s.buf, r.at = s.at
    PROVE  r = s
<1> DEFINE copy(x) == [fields |-> x.fields, buf |-> x.buf, at |-> x.at]
<1>1. r = copy(r) /\ s = copy(s)
  BY DEF Parsing
<1>2. copy(r) = copy(s)
  BY Zenon
<1> HIDE DEF copy
<1> QED  BY <1>1, <1>2

LEMMA CsvPlain ==
    ASSUME NEW fields \in Seq(Seq(Char)), NEW buf \in Seq(Char), NEW at \in {"start", "bare"},
           NEW c \in Char, c \notin {",", "\""}
    PROVE  CsvOp[<<At(fields, buf, at), c>>] = At(fields, Append(buf, c), "bare")
<1> DEFINE s == At(fields, buf, at)
           t == [s EXCEPT !.buf = Append(@, c), !.at = IF @ = "start" THEN "bare" ELSE @]
           u == At(fields, Append(buf, c), "bare")
<1>1. Append(buf, c) \in Seq(Char)
  BY AppendProperties
<1>2. ReadCsv(s, c) = t
  BY DEF ReadCsv, At
<1>3. s \in Parsing /\ u \in Parsing /\ CsvOp[<<s, c>>] = ReadCsv(s, c)
  BY <1>1, AtIs
<1>4. s.fields = fields /\ s.buf = buf /\ s.at = at
  BY DEF At
<1>5. t \in Parsing /\ t.fields = fields /\ t.buf = Append(buf, c) /\ t.at = "bare"
  <2> HIDE DEF s
  <2> QED  BY <1>1, <1>3, <1>4 DEF Parsing
<1>6. u.fields = fields /\ u.buf = Append(buf, c) /\ u.at = "bare"
  BY DEF At
<1> HIDE DEF s, t, u
<1>7. t = u
  BY <1>3, <1>5, <1>6, SameParsing
<1> QED  BY <1>2, <1>3, <1>7 DEF s, u

LEMMA CsvComma ==
    ASSUME NEW fields \in Seq(Seq(Char)), NEW buf \in Seq(Char)
    PROVE  CsvOp[<<At(fields, buf, "bare"), ",">>] = At(Append(fields, buf), <<>>, "start")
<1>1. "," \in Char
  BY SpecialChars
<1>2. CsvOp[<<At(fields, buf, "bare"), ",">>] = ReadCsv(At(fields, buf, "bare"), ",")
  BY <1>1, AtIs
<1>3. ReadCsv(At(fields, buf, "bare"), ",") = Field(At(fields, buf, "bare"))
  BY DEF ReadCsv, At
<1>4. Field(At(fields, buf, "bare")) = At(Append(fields, buf), <<>>, "start")
  BY DEF Field, At
<1> QED  BY <1>2, <1>3, <1>4

\* An argument without commas and double quotes is read as it is.
LEMMA ReadArg ==
    ASSUME NEW fields \in Seq(Seq(Char)), NEW arg \in Word, Harmless(arg)
    PROVE  Folds(CsvOp, At(fields, <<>>, "start"), arg, At(fields, arg, "bare"))
<1> DEFINE n == Len(arg)
           v == [k \in 0..n |-> At(fields, SubSeq(arg, 1, k), IF k = 0 THEN "start" ELSE "bare")]
<1>1. arg \in Seq(Char) /\ n \in Nat /\ n # 0
  <2>1. arg \in Seq(Char) /\ arg # <<>>
    BY DEF Word
  <2> QED  BY <2>1, EmptySeq
<1>2. ASSUME NEW k \in 1..n PROVE v[k] = CsvOp[<<v[k - 1], arg[k]>>]
  <2>1. /\ SubSeq(arg, 1, k) = Append(SubSeq(arg, 1, k - 1), arg[k])
        /\ SubSeq(arg, 1, k - 1) \in Seq(Char) /\ arg[k] \in Char
    BY <1>1, Beginnings
  <2>2. arg[k] \notin {",", "\""}
    <3>1. k \in DOMAIN arg
      BY <1>1
    <3> QED  BY <3>1, Zenon DEF Harmless
  <2> DEFINE at == IF k - 1 = 0 THEN "start" ELSE "bare"
  <2>3. k - 1 \in 0..n /\ k \in 0..n /\ k # 0
    BY <1>1
  <2>4. v[k - 1] = At(fields, SubSeq(arg, 1, k - 1), at)
    BY <2>3
  <2>5. v[k] = At(fields, SubSeq(arg, 1, k), "bare")
    BY <2>3
  <2>6. at \in {"start", "bare"}
    OBVIOUS
  <2> HIDE DEF at, v
  <2>7. CsvOp[<<At(fields, SubSeq(arg, 1, k - 1), at), arg[k]>>]
            = At(fields, Append(SubSeq(arg, 1, k - 1), arg[k]), "bare")
    BY <2>1, <2>2, <2>6, CsvPlain
  <2> QED  BY <2>1, <2>4, <2>5, <2>7
<1>3. v[0] = At(fields, <<>>, "start") /\ v[n] = At(fields, arg, "bare")
  <2>1. SubSeq(arg, 1, 0) = <<>> /\ SubSeq(arg, 1, n) = arg
    BY <1>1, NoBeginning, SubSeqFull
  <2>2. 0 \in 0..n /\ n \in 0..n /\ n # 0
    BY <1>1
  <2>3. /\ v[0] = At(fields, SubSeq(arg, 1, 0), "start")
        /\ v[n] = At(fields, SubSeq(arg, 1, n), "bare")
    BY <2>2
  <2> HIDE DEF v, n
  <2> QED  BY <2>1, <2>3
<1> HIDE DEF v
<1>4. Chain(CsvOp, At(fields, <<>>, "start"), arg, v)
  BY <1>2, <1>3 DEF Chain
<1> QED  BY <1>3, <1>4 DEF Folds

\* What the flag holds after k arguments is read as these k, the last of them still
\* being read.
LEMMA ReadArgs ==
    ASSUME NEW args \in Seq(Word), \A i \in DOMAIN args : Harmless(args[i]),
           NEW h, Chain(ArgOp, <<>>, args, h)
    PROVE  \A k \in 1..Len(args) :
               /\ h[k] \in Seq(Char) /\ h[k] # <<>>
               /\ Folds(CsvOp, FlagStart, h[k], At(SubSeq(args, 1, k - 1), args[k], "bare"))
<1> DEFINE n == Len(args)
           Right(k) == /\ h[k] \in Seq(Char) /\ h[k] # <<>>
                       /\ Folds(CsvOp, FlagStart, h[k], At(SubSeq(args, 1, k - 1), args[k], "bare"))
           T == {k \in Nat : k \in 1..n => Right(k)}
<1>1. n \in Nat /\ DOMAIN args = 1..n
  OBVIOUS
<1>2. 0 \in T
  OBVIOUS
<1>3. ASSUME NEW k \in Nat, k \in T PROVE k + 1 \in T
  <2> SUFFICES ASSUME k + 1 \in 1..n PROVE Right(k + 1)
    OBVIOUS
  <2> DEFINE arg == args[k + 1]
  <2>1. arg \in Word /\ Harmless(arg) /\ arg \in Seq(Char) /\ arg # <<>>
    BY <1>1, WordLists DEF Word
  <2>2. h[0] = <<>> /\ (k + 1) - 1 = k /\ h[k + 1] = ArgOp[<<h[k], arg>>]
    BY <1>1 DEF Chain
  <2>3. CASE k = 0
    <3>1. h[k] = <<>> /\ h[k] \in Seq(Char)
      BY <2>2, <2>3, EmptySeq
    <3> HIDE DEF arg
    <3>2. h[k + 1] = <<>> \o arg
      BY <2>1, <2>2, <3>1, ArgOpIs DEF AddArg
    <3>3. h[k + 1] = arg
      BY <2>1, <3>2, ConcatEmptySeq
    <3>4. <<>> \in Seq(Seq(Char)) /\ SubSeq(args, 1, k) = <<>>
      BY <2>3, EmptySeq, NoBeginning
    <3>5. Folds(CsvOp, FlagStart, arg, At(<<>>, arg, "bare"))
      BY <2>1, <3>4, ReadArg DEF FlagStart
    <3> QED  BY <2>1, <2>2, <3>3, <3>4, <3>5 DEF arg
  <2>4. CASE k # 0
    <3> DEFINE text == h[k]
               before == SubSeq(args, 1, k - 1)
               done == SubSeq(args, 1, k)
    <3>1. k \in 1..n
      BY <1>1, <2>4
    <3>2. /\ text \in Seq(Char) /\ text # <<>>
          /\ Folds(CsvOp, FlagStart, text, At(before, args[k], "bare"))
      BY <1>3, <3>1
    <3>3. done = Append(before, args[k]) /\ before \in Seq(Word) /\ done \in Seq(Word)
          /\ args[k] \in Word
      BY <3>1, Beginnings
    <3>4. before \in Seq(Seq(Char)) /\ done \in Seq(Seq(Char)) /\ args[k] \in Seq(Char)
      BY <3>3, WordLists
    <3>5. <<",">> \in Seq(Char) /\ "," \in Char
      BY SpecialChars, MembersOfOne
    <3> HIDE DEF arg, text, before, done
    <3>6. h[k + 1] = Append(text, ",") \o arg
      BY <2>1, <2>2, <3>2, ArgOpIs DEF AddArg, text
    <3>7. Append(text, ",") = text \o <<",">> /\ text \o <<",">> \in Seq(Char)
      BY <3>2, <3>5, AppendIsConcat, ConcatProperties
    <3>8. h[k + 1] = (text \o <<",">>) \o arg
      BY <3>6, <3>7
    <3>9. h[k + 1] \in Seq(Char) /\ h[k + 1] # <<>>
      <4> DEFINE comma == text \o <<",">>
      <4>1. comma \in Seq(Char)
        BY <3>7
      <4> HIDE DEF comma
      <4>2. comma \o arg \in Seq(Char) /\ comma \o arg # <<>>
        BY <2>1, <4>1, ConcatLast
      <4> QED  BY <3>8, <4>2 DEF comma
    <3>10. Folds(CsvOp, At(before, args[k], "bare"), <<",">>, At(done, <<>>, "start"))
      <4>1. CsvOp[<<At(before, args[k], "bare"), ",">>] = At(done, <<>>, "start")
        BY <3>3, <3>4, CsvComma
      <4> QED  BY <4>1, FoldsOne
    <3>11. Folds(CsvOp, FlagStart, text \o <<",">>, At(done, <<>>, "start"))
      BY <3>2, <3>5, <3>10, FoldsThen
    <3>12. Folds(CsvOp, At(done, <<>>, "start"), arg, At(done, arg, "bare"))
      BY <2>1, <3>4, ReadArg
    <3>13. Folds(CsvOp, FlagStart, (text \o <<",">>) \o arg, At(done, arg, "bare"))
      BY <2>1, <3>7, <3>11, <3>12, FoldsThen
    <3> QED  BY <2>2, <3>8, <3>9, <3>13 DEF arg, done
  <2> QED  BY <2>3, <2>4
<1>4. \A k \in Nat : k \in T
  <2> HIDE DEF T
  <2> QED  BY <1>2, <1>3, AllNat
<1> QED  BY <1>1, <1>4

\* Harmless arguments arrive behind acbuild-chroot.
LEMMA ChrootArgsAre ==
    ASSUME NEW args \in Seq(Word), \A i \in DOMAIN args : Harmless(args[i])
    PROVE  ChrootArgs(args) = args
<1> DEFINE n == Len(args)
           text == Serialize(args)
<1>1. n \in Nat /\ args \in Seq(Seq(Char)) /\ <<>> \in Seq(Char)
  BY WordLists
<1>2. Folds(ArgOp, <<>>, args, text)
  BY <1>1, ArgsFold DEF Serialize
<1>3. CASE args = <<>>
  <2>1. Folds(ArgOp, <<>>, args, <<>>)
    BY <1>3, FoldsNone
  <2> HIDE DEF text
  <2>2. text = <<>>
    BY <1>1, <1>2, <2>1, FoldsUnique
  <2> QED  BY <1>3, <2>2 DEF ChrootArgs, text
<1>4. CASE args # <<>>
  <2> DEFINE s == FoldLeft(ReadCsv, FlagStart, text)
             end == At(SubSeq(args, 1, n - 1), args[n], "bare")
  <2>1. n \in 1..n
    BY <1>1, <1>4, EmptySeq
  <2> HIDE DEF text
  <2>2. PICK h : Chain(ArgOp, <<>>, args, h) /\ h[n] = text
    BY <1>2 DEF Folds
  <2>3. text \in Seq(Char) /\ text # <<>> /\ Folds(CsvOp, FlagStart, text, end)
    BY <2>1, <2>2, ReadArgs
  <2>4. FlagStart \in Parsing
    BY <1>1, AtIs, EmptySeq DEF FlagStart
  <2>5. Folds(CsvOp, FlagStart, text, s)
    BY <2>3, <2>4, CsvFolds
  <2>6. Len(text) \in Nat
    BY <2>3
  <2> HIDE DEF s, end
  <2>7. s = end
    BY <2>3, <2>5, <2>6, FoldsUnique
  <2>8. Append(SubSeq(args, 1, n - 1), args[n]) = args
    BY <2>1, Beginnings, SubSeqFull
  <2>9. s.at = "bare" /\ Field(s).fields = args
    BY <2>7, <2>8 DEF end, At, Field
  <2>10. ReadRecord(text) = args
    BY <2>9 DEF ReadRecord, s, FlagStart, At
  <2> QED  BY <2>3, <2>10 DEF ChrootArgs, text
<1> QED  BY <1>3, <1>4
================================================================================
