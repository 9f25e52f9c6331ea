------------------------------- MODULE ScriptLine ------------------------------
(*****************************************************************************)
(* The way of the arguments of a run command from the text of a script to    *)
(* the process in the container: joinLines and tokenizeLine cut the text     *)
(* into words, insertRunTacks separates the flags of acbuild from the        *)
(* command, and the chroot engine writes the arguments into one flag that    *)
(* acbuild-chroot reads back.  A text is a sequence of characters.           *)
(*****************************************************************************)
EXTENDS Naturals, Sequences, SequencesExt

CONSTANTS
    Char,        \* the characters of a text
    Calls,       \* commands with their arguments, each a sequence of words
    FlagWords    \* what may stand between run and the command

Space == " "
Special == {Space, "'", "\"", "\\", "#"}
Tacks == <<"-", "-">>
Word == Seq(Char) \ {<<>>}

\* A command is not taken for a flag.  Flags are written as they are, and end with
\* "--", if they have it.
ASSUME CharAssumption == Special \cup {"r", "u", "n", "-", ","} \subseteq Char
ASSUME CallsAssumption ==
    \A call \in Calls : call \in Seq(Word) /\ call # <<>> /\ call[1][1] # "-"
ASSUME FlagsAssumption ==
    \A flags \in FlagWords :
        /\ flags \in Seq(Word)
        /\ \A i \in DOMAIN flags :
              /\ flags[i][1] = "-" /\ Range(flags[i]) \cap Special = {}
              /\ flags[i] = Tacks => i = Len(flags)

Bad == <<<<"bad">>>>     \* what an error leaves: the name of no command

-----------------------------------------------------------------------------
(* script.go.                                                                 *)

Flush(s) == IF s.buf = <<>> THEN s ELSE [s EXCEPT !.tokens = Append(@, s.buf), !.buf = <<>>]

\* A variant with a bug: inside quotes a backslash is a character like others.
BugRead(s, c) ==
    CASE s.comment               -> s
      [] s.escaped               -> [s EXCEPT !.buf = Append(@, c), !.escaped = FALSE]
      [] c = "\\" /\ s.quote = "none" -> [s EXCEPT !.escaped = TRUE]
      [] c = Space /\ s.quote = "none" -> Flush(s)
      [] c \in {"'", "\""} /\ s.quote \in {"none", c} -> [s EXCEPT !.quote = IF @ = "none" THEN c ELSE "none"]
      [] c = "#" /\ s.quote = "none" -> [Flush(s) EXCEPT !.comment = TRUE]
      [] OTHER                   -> [s EXCEPT !.buf = Append(@, c)]

\* One turn of lineLoop.  What is escaped stands for itself, in quotes too.
Read(s, c) ==
    CASE s.comment               -> s
      [] s.escaped               -> [s EXCEPT !.buf = Append(@, c), !.escaped = FALSE]
      [] ~s.escaped /\ c = "\\"  -> [s EXCEPT !.escaped = TRUE]
      [] ~s.escaped /\ c = Space /\ s.quote = "none" -> Flush(s)
      [] ~s.escaped /\ c \in {"'", "\""} /\ s.quote \in {"none", c} ->
             [s EXCEPT !.quote = IF @ = "none" THEN c ELSE "none"]
      [] ~s.escaped /\ c = "#" /\ s.quote = "none" -> [Flush(s) EXCEPT !.comment = TRUE]
      [] OTHER                   -> [s EXCEPT !.buf = Append(@, c)]

TokenizeLine(line) ==
    LET s == FoldLeft(Read, [tokens |-> <<>>, buf |-> <<>>, quote |-> "none",
                             escaped |-> FALSE, comment |-> FALSE], line)
    IN  IF s.quote # "none" \/ s.escaped THEN Bad ELSE Flush(s).tokens

\* execScript looks at a line without the blanks around it.
TrimSpace(text) ==
    LET ink == {i \in DOMAIN text : text[i] # Space}
    IN  IF ink = {} THEN <<>> ELSE SubSeq(text, Min(ink), Max(ink))

\* A line that ends in a backslash is put before the next one, if there is one.
Join(script, s, i) ==
    LET line == IF s.open THEN s.text \o <<Space>> \o script[i] ELSE script[i]
        goesOn == i < Len(script) /\ line # <<>> /\ Last(line) = "\\"
    IN  IF goesOn
        THEN [s EXCEPT !.text = Front(line), !.open = TRUE]
        ELSE [lines |-> Append(s.lines, line), text |-> <<>>, open |-> FALSE]
JoinLines(script) ==
    FoldLeftDomain(LAMBDA s, i : Join(script, s, i),
                   [lines |-> <<>>, text |-> <<>>, open |-> FALSE], script).lines
FirstLine(script) == JoinLines([i \in DOMAIN script |-> TrimSpace(script[i])])[1]

\* "--" before the first word that is no flag, unless there is one before it.
InsertRunTacks(tokens) ==
    LET decides == {i \in 2..Len(tokens) : tokens[i] = Tacks \/ tokens[i][1] # "-"}
        first == CHOOSE i \in decides : \A j \in decides : i <= j
    IN  IF decides = {} \/ tokens[first] = Tacks THEN tokens
        ELSE SubSeq(tokens, 1, first - 1) \o <<Tacks>> \o SubSeq(tokens, first, Len(tokens))

\* The command line library: all words after "--", and before it those that are
\* no flags.
NoFlags(words) ==
    FlattenSeq([i \in DOMAIN words |-> IF words[i][1] = "-" THEN <<>> ELSE <<words[i]>>])
Positional(tokens) ==
    LET cuts == {i \in 2..Len(tokens) : tokens[i] = Tacks} \cup {Len(tokens) + 1}
        cut == CHOOSE i \in cuts : \A j \in cuts : i <= j
    IN  NoFlags(SubSeq(tokens, 2, cut - 1)) \o SubSeq(tokens, cut + 1, Len(tokens))

-----------------------------------------------------------------------------
(* engine/chroot.                                                             *)

\* A variant with a bug: the comma is written after the argument.
BugSerialize(args) == FoldLeft(LAMBDA s, a : s \o a \o <<",">>, <<>>, args)

\* A comma before every argument but the first.
AddArg(s, arg) == (IF s = <<>> THEN s ELSE Append(s, ",")) \o arg
Serialize(args) == FoldLeft(AddArg, <<>>, args)

\* The flag library reads the value as one record of comma separated values: a
\* field in double quotes may hold commas, and a quote elsewhere is an error.
Field(s) == [fields |-> Append(s.fields, s.buf), buf |-> <<>>, at |-> "start"]
ReadCsv(s, c) ==
    CASE s.at = "bad"                           -> s
      [] s.at # "bad" /\ c = "," /\ s.at # "quoted" -> Field(s)
      [] c = "\"" /\ s.at = "start"             -> [s EXCEPT !.at = "quoted"]
      [] c = "\"" /\ s.at = "quoted"            -> [s EXCEPT !.at = "closed"]
      [] c = "\"" /\ s.at = "closed"            -> [s EXCEPT !.at = "quoted", !.buf = Append(@, c)]
      [] \/ c = "\"" /\ s.at = "bare"
         \/ c \notin {"\"", ","} /\ s.at = "closed" -> [s EXCEPT !.at = "bad"]
      [] OTHER -> [s EXCEPT !.buf = Append(@, c), !.at = IF @ = "start" THEN "bare" ELSE @]
ReadRecord(text) ==
    LET s == FoldLeft(ReadCsv, [fields |-> <<>>, buf |-> <<>>, at |-> "start"], text)
    IN  IF s.at \in {"bad", "quoted"} THEN Bad ELSE Field(s).fields

\* Without a comma or a double quote.
Harmless(word) == \A i \in DOMAIN word : word[i] \notin {",", "\""}
ChrootArgs(args) == IF Serialize(args) = <<>> THEN <<>> ELSE ReadRecord(Serialize(args))

-----------------------------------------------------------------------------
(* What a user writes to run a command: each word with backslashes, or in      *)
(* quotes, where a backslash and the quote itself still need one; with or      *)
(* without flags before the command; on one line, or with a backslash and a    *)
(* line end before an argument.  A blank or a backslash at the end of a line   *)
(* is not for the command, so a last word that ends in one takes quotes.       *)
Escape(special, word) ==
    FlattenSeq([i \in DOMAIN word |-> IF word[i] \in special THEN <<"\\", word[i]>> ELSE <<word[i]>>])
Written(style, word) ==
    CASE style = "escaped" -> Escape(Special, word)
      [] style = "single"  -> <<"'">> \o Escape({"'", "\\"}, word) \o <<"'">>
      [] style = "double"  -> <<"\"">> \o Escape({"\"", "\\"}, word) \o <<"\"">>
Spaced(words) == FlattenSeq([i \in DOMAIN words |-> <<Space>> \o words[i]])
RunText(style, flags, call) ==
    LET words == [i \in DOMAIN call |-> Written(style, call[i])]
        start == <<"r", "u", "n">> \o Spaced(flags)
    IN  {<<start \o Spaced(words)>>}
        \cup {<<start \o Spaced(SubSeq(words, 1, i)) \o <<Space, "\\">>,
               Tail(Spaced(SubSeq(words, i + 1, Len(words))))>> : i \in 1..(Len(call) - 1)}
Styles(call) ==
    {"single", "double"} \cup {style \in {"escaped"} : Last(Last(call)) \notin {Space, "\\"}}
NextLines == {<<>>, <<<<"#">>>>}
Texts(call) ==
    UNION {{text \o after : text \in RunText(style, flags, call)} :
              style \in Styles(call), flags \in FlagWords, after \in NextLines}
================================================================================
