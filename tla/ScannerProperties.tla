-------------------------- MODULE ScannerProperties --------------------------
(***************************************************************************)
(* What the tokens of a text x are, stated on the text and not by reading  *)
(* it: what is a comment, where lexemes start and end, and at which line   *)
(* and column a character is.                                              *)
(***************************************************************************)
EXTENDS Scanner, FiniteSetsExt

\* A comment is open behind character k: there is an opening brace, and no
\* closing one since.
Open(x, k) == \E j \in 1 .. k : x[j] = "{" /\ \A i \in j .. k : x[i] # "}"

InComment(x, k) == x[k] = "{" \/ Open(x, k - 1)

Visible(x, k) == ~InComment(x, k) /\ x[k] \notin Blanks

IsLexeme(x, i, j) ==
  \/ i = j /\ (x[i] \in Singles \/ x[i] \in Openers)
  \/ j = i + 1 /\ <<x[i], x[j]>> \in Doubles
  \/ \A k \in i .. j : x[k] \in Digits
  \/ x[i] \in Letters /\ \A k \in i .. j : x[k] \in WordChars

\* The last character of the longest lexeme that starts at i; what a lexeme
\* starts with is one as well.  No lexeme starts with an unknown character.
LastOf(x, i) ==
  CHOOSE j \in i .. Len(x) : IsLexeme(x, i, j) /\ (j < Len(x) => ~IsLexeme(x, i, j + 1))
Known(x, i)  == IsLexeme(x, i, i)

\* Where the longest lexemes start, from left to right, up to character k.
StartsUpTo(x) ==
  LET starts[k \in 0 .. Len(x)] ==
        IF k = 0 THEN <<>>
        ELSE LET before == starts[k - 1] IN
             IF /\ Visible(x, k)
                /\ before # <<>> =>
                     LET i == before[Len(before)] IN Known(x, i) => LastOf(x, i) < k
             THEN Append(before, k) ELSE before
  IN  starts

LexemeStarts(x) == StartsUpTo(x)[Len(x)]

HasUnknown(x) == LET starts == LexemeStarts(x) IN \E n \in DOMAIN starts : ~Known(x, starts[n])

\* The place of character k, or of the end of the text.
PlaceOf(x, k) ==
  LET newlines == {j \in 1 .. Len(x) : j < k /\ x[j] = "\n"} IN
  <<1 + Cardinality(newlines), k - Max(newlines \cup {0})>>

\* What the characters from i to j spell, as a word and as a number.
Spelling(x, i, j) ==
  LET word[k \in i .. Len(x)] == IF k = i THEN x[k] ELSE word[k - 1] \o x[k]
  IN  word[j]
Numeral(x, i, j) ==
  LET number[k \in i .. Len(x)] ==
        IF k = i THEN DigitValue[x[k]] ELSE 10 * number[k - 1] + DigitValue[x[k]]
  IN  number[j]

TokenAt(x, i) ==
  LET j == LastOf(x, i)
      spelling == Spelling(x, i, j)
  IN  IF x[i] \in Digits THEN Token("number", "", Wrap(Numeral(x, i, j)), PlaceOf(x, i))
      ELSE IF x[i] \in Letters /\ spelling \notin Keywords
           THEN Token("ident", spelling, 0, PlaceOf(x, i))
           ELSE Plain(spelling, PlaceOf(x, i))

\* The lexemes before the first that is unknown.
Lexemes(x) ==
  LET starts == LexemeStarts(x)
      known == {n \in DOMAIN starts : \A m \in 1 .. n : Known(x, starts[m])}
  IN  [n \in known |-> TokenAt(x, starts[n])]

\* A comment is never closed and nothing before it stops the scanner.
LeftOpen(x) == Open(x, Len(x)) /\ ~HasUnknown(x)

(* The scanner finds the longest lexemes that are not in comments, with    *)
(* their values and their places; it fails at the first character that     *)
(* starts none, and else ends with the token eof, one column past the end  *)
(* of the file (scanner.h:313-439).                                        *)
TokensAreLexemes ==
  /\ at = "done" =>
       /\ ~HasUnknown(text)
       /\ tokens = Append(Lexemes(text), Plain("eof", PlaceOf(text, Len(text) + 2)))
  /\ at = "failed" => HasUnknown(text) /\ tokens = Lexemes(text)
=============================================================================
