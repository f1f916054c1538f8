------------------------------- MODULE Lexer -------------------------------
(***************************************************************************)
(* The lexer (src/internal/lexer).  A source text is a sequence of glyphs: *)
(* a punctuation mark, a digit, a blank or a run of letters.  Left out:    *)
(* columns, hexadecimal and binary numerals, tabs, letters glued behind a  *)
(* numeral.                                                                *)
(***************************************************************************)
EXTENDS Integers, Sequences, FiniteSets, TLC
LOCAL INSTANCE SequencesExt
LOCAL INSTANCE FiniteSetsExt

Blanks == {" ", "\n"}
Quotes == {"\"", "'"}
Digits == {"0", "1", "2", "3", "4", "5", "6", "7", "8", "9"}
Marks == {"=", "+", "-", "!", "*", "/", "%", "<", ">", "&", "|", "^", ",",
          ";", ":", "?", "(", ")", "{", "}", "[", "]", ".", "@"}
Pairs == {"==", "+=", "++", "-=", "--", "->", "!=", "**", "*=", "/=", "<=",
          "<<", ">=", ">>", "&&", "||", "|>", "::", "??", "?."}
\* Characters no token begins with.
Strange == {"$", "#", "\\", "~"}
Keywords == {"fn", "let", "const", "true", "false", "if", "else", "return",
             "while", "for", "import", "print", "null", "break", "continue",
             "in", "class", "new", "this", "extends", "try", "catch", "throw",
             "match", "case", "default", "yield", "enum", "record", "defer",
             "finally", "interface", "pub", "module"}

LookupIdent(word) == CASE word \in Keywords -> word
                       [] word = "switch" -> "match"
                       [] word = "and" -> "&&"
                       [] word = "or" -> "||"
                       [] OTHER -> "IDENT"

\* The character at i; nothing behind the end.
At(t, i) == IF i \in DOMAIN t THEN t[i] ELSE ""
isDigit(g) == g \in Digits
isLetter(g) == g \notin Blanks \cup Quotes \cup Digits \cup Marks \cup Strange
                        \cup {""}

\* The characters of glyphs, as one word.
Glued(gs) == FoldLeft(LAMBDA word, g : word \o g, "", gs)
\* The first place from i on where Test holds, or the end.
FirstFrom(t, i, Test(_)) == Min({j \in i..Len(t) : Test(j)} \cup {Len(t) + 1})
\* The first place at or after i that is no letter (or digit).
WordEnd(t, i) == FirstFrom(t, i, LAMBDA j : ~isLetter(t[j]) /\ ~isDigit(t[j]))
NumeralEnd(t, i) == FirstFrom(t, i, LAMBDA j : ~isDigit(t[j]))

RECURSIVE SkipBlanks(_, _), RawEnd(_, _, _), ReadString(_, _, _, _, _),
          TokensFrom(_, _, _)

\* skipWhitespace and skipComment: a comment that is not closed ends the text.
SkipBlanks(t, i) ==
    CASE At(t, i) \in Blanks -> SkipBlanks(t, i + 1)
      [] At(t, i) = "/" /\ At(t, i + 1) = "/" ->
           SkipBlanks(t, FirstFrom(t, i, LAMBDA j : t[j] = "\n"))
      [] At(t, i) = "/" /\ At(t, i + 1) = "*" ->
           SkipBlanks(t, 2 + FirstFrom(t, i + 2, LAMBDA j :
                                 t[j] = "*" /\ At(t, j + 1) = "/"))
      [] OTHER -> i

\* Where the string quoted by q, and entered before i, is closed.
RawEnd(t, i, q) == CASE At(t, i) \in {"", q} -> i
                     [] At(t, i) = "\\" -> RawEnd(t, i + 2, q)
                     [] OTHER -> RawEnd(t, i + 1, q)

Escaped(g) == CASE g = "n" -> "\n" [] g = "" -> "NUL" [] OTHER -> g

\* The glyphs of the string quoted by q, from i on, and where it ends.  Inside
\* ${..} its quotes do not close it, nested strings are kept as they stand, and
\* escapes too.  A string that is not closed ends with the text.
ReadString(t, i, q, depth, out) ==
    LET g == At(t, i)
        end == RawEnd(t, i + 1, g)
        deeper == CASE depth > 0 /\ g = "{" -> depth + 1
                    [] depth > 0 /\ g = "}" -> depth - 1
                    [] OTHER -> depth
    IN  CASE g = "" -> [glyphs |-> out, end |-> i]
          [] depth = 0 /\ g = q -> [glyphs |-> out, end |-> i + 1]
          [] depth = 0 /\ g = "\\" ->
               ReadString(t, i + 2, q, 0, Append(out, Escaped(At(t, i + 1))))
          [] g = "$" /\ At(t, i + 1) = "{" ->
               ReadString(t, i + 2, q, depth + 1, out \o <<"$", "{">>)
          [] depth > 0 /\ g \in Quotes ->
               ReadString(t, end + 1, q, depth,
                          out \o SubSeq(t, i, Min({end, Len(t)})))
          [] OTHER -> ReadString(t, i + 1, q, deeper, Append(out, g))

-----------------------------------------------------------------------------

Token(type, glyphs, line) ==
    [type |-> type, lit |-> Glued(glyphs), glyphs |-> glyphs, line |-> line]

LineOf(t, i) == 1 + Cardinality({k \in 1..(i - 1) : k \in DOMAIN t /\ t[k] = "\n"})

\* The longest spelling of an operator that begins at i: `..` is two dots, and
\* a digit after `?.` leaves the question mark alone.
MarkEnd(t, i) ==
    LET two == At(t, i) \o At(t, i + 1)
    IN  CASE two = ".." /\ At(t, i + 2) = "." -> i + 3
          [] two = "?." /\ isDigit(At(t, i + 2)) -> i + 1
          [] two \in Pairs -> i + 2
          [] OTHER -> i + 1

\* NextToken, without the blanks before it: the token that begins at i, and
\* where it ends.
NextToken(t, i) ==
    LET g == At(t, i)
        str == ReadString(t, i + 1, g, 0, <<>>)
        int == NumeralEnd(t, i)
        fraction == At(t, int) = "." /\ isDigit(At(t, int + 1))
        end == CASE isLetter(g) -> WordEnd(t, i)
                 [] isDigit(g) -> IF fraction THEN NumeralEnd(t, int + 1) ELSE int
                 [] g \in Marks -> MarkEnd(t, i)
                 [] OTHER -> i + 1
        word == Glued(SubSeq(t, i, end - 1))
        type == CASE isLetter(g) -> LookupIdent(word)
                  [] isDigit(g) -> IF fraction THEN "FLOAT" ELSE "INT"
                  [] g \in Marks -> word
                  [] OTHER -> "ILLEGAL"
    IN  CASE g = "" -> [tok |-> Token("EOF", <<>>, LineOf(t, i)), end |-> i]
          [] g \in Quotes -> [tok |-> Token("STRING", str.glyphs, LineOf(t, i)),
                              end |-> str.end]
          [] OTHER -> [tok |-> Token(type, SubSeq(t, i, end - 1), LineOf(t, i)),
                       end |-> end]

\* The tokens before i and from i on; the last one is EOF.
TokensFrom(t, i, toks) ==
    LET r == NextToken(t, SkipBlanks(t, i))
        all == Append(toks, r.tok)
    IN  IF Last(all).type = "EOF" THEN all ELSE TokensFrom(t, r.end, all)

\* A first line `#!..` is not part of the program (nor counted as a line).
StripShebang(t) ==
    IF At(t, 1) = "#" /\ At(t, 2) = "!"
    THEN SubSeq(t, 1 + FirstFrom(t, 1, LAMBDA j : t[j] = "\n"), Len(t))
    ELSE t

Tokens(t) == TokensFrom(StripShebang(t), 1, <<>>)

\* strconv.ParseInt(lit, 0, 64): a leading zero means octal.
IsNumeral(gs) == \/ gs[1] # "0"
                 \/ \A i \in DOMAIN gs : gs[i] \notin {"8", "9"}
DigitValue(g) == CHOOSE d \in 0..9 : ToString(d) = g
NumberOf(gs) == LET base == IF gs[1] = "0" THEN 8 ELSE 10
                IN  FoldLeft(LAMBDA n, g : base * n + DigitValue(g), 0, gs)
=============================================================================
