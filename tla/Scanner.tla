------------------------------- MODULE Scanner -------------------------------
(***************************************************************************)
(* The tokenizer, mila::Scanner of src/mila/scanner.h: its constructor     *)
(* turns a whole file into tokens before the parser sees the first.  One   *)
(* action is one turn of a loop of next(), number() or                     *)
(* identifierOrKeyword().                                                  *)
(*                                                                         *)
(* A character is a string of length one; the type of an operator or       *)
(* keyword is how it is spelled.                                           *)
(***************************************************************************)
EXTENDS Integers, Sequences

CONSTANTS
  Texts,     \* the contents of the files scanned
  MinInt,    \* the least int, in two's complement
  MaxCol     \* where col stops counting, in a comment that is never closed

VARIABLES
  text,        \* the file
  pos,         \* how many of its characters have been read
  line, col,   \* the place of the next character
  at,          \* the method that reads, or how the constructor ended
  t,           \* the character next() got last
  skip,        \* next() is inside a comment
  start,       \* l and c: where the token starts
  lexeme,      \* what number() or identifierOrKeyword() has put together
  tokens       \* the tokens made so far

scanVars == <<text, pos, line, col, at, t, skip, start, lexeme, tokens>>

Eof     == ""
Blanks  == {" ", "\t", "\n", "\r"}
Letters == {"a", "b", "c", "d", "e", "f", "g", "h", "i", "j", "k", "l", "m",
            "n", "o", "p", "q", "r", "s", "t", "u", "v", "w", "x", "y", "z",
            "A", "B", "C", "D", "E", "F", "G", "H", "I", "J", "K", "L", "M",
            "N", "O", "P", "Q", "R", "S", "T", "U", "V", "W", "X", "Y", "Z"}
Numerals == <<"0", "1", "2", "3", "4", "5", "6", "7", "8", "9">>
Digits   == {Numerals[k] : k \in 1 .. 10}
DigitValue == [d \in Digits |-> CHOOSE n \in 0 .. 9 : Numerals[n + 1] = d]
WordChars == Letters \cup Digits

\* Operators of one character, those that may be continued, and those of two.
Singles    == {"+", "-", "*", "/", "(", ")", "=", ",", ";"}
Openers    == {":", "<", ">"}
Doubles    == {<<":", "=">>, <<"<", ">">>, <<"<", "=">>, <<">", "=">>}
Keywords   == {"var", "const", "begin", "end", "if", "then", "else", "while",
               "do", "write", "read", "function", "return"}

\* Signed overflow, which is undefined, wraps around in what is built.
Wrap(n) == ((n - MinInt) % (-2 * MinInt)) + MinInt

\* An int holds a digit; a character is never the end of the file.
ASSUME IntAssumption == MinInt \in Int /\ MinInt < -9
ASSUME TextsAssumption ==
  /\ MaxCol \in Nat
  /\ \A x \in Texts : x \in Seq(STRING \ {Eof}) /\ Len(x) + 2 <= MaxCol

Token(type, symbol, value, place) ==
  [type |-> type, symbol |-> symbol, value |-> value, line |-> place[1], col |-> place[2]]

Plain(type, place) == Token(type, "", 0, place)

-----------------------------------------------------------------------------
Peek == IF pos < Len(text) THEN text[pos + 1] ELSE Eof

\* The place after character ch has been read; reading at the end of the file
\* counts as a column, up to MaxCol.
Past(ch) ==
  IF ch = "\n" THEN <<line + 1, 1>> ELSE <<line, IF col < MaxCol THEN col + 1 ELSE col>>

Get ==
  /\ pos' = IF pos < Len(text) THEN pos + 1 ELSE pos
  /\ line' = Past(Peek)[1]
  /\ col' = Past(Peek)[2]

\* The constructor's initialisers, before it calls next() for the first time.
Constructed ==
  /\ pos = 0
  /\ line = 1 /\ col = 1
  /\ at = "next"
  /\ t = Eof /\ skip = FALSE
  /\ start = <<1, 1>>
  /\ lexeme = ""
  /\ tokens = <<>>

ScanInit == text \in Texts /\ Constructed

\* next() is called and gets its first character.
Begin ==
  /\ at = "next" /\ at' = "skip"
  /\ start' = <<line, col>>
  /\ t' = Peek /\ Get
  /\ skip' = FALSE
  /\ UNCHANGED <<text, lexeme, tokens>>

\* A bug: a closing brace does not end the comment.
SkipNoReset ==
  /\ at = "skip" /\ (skip \/ t \in Blanks \cup {"{"})
  /\ skip' = (skip \/ t = "{")
  /\ start' = <<line, col>>
  /\ t' = Peek /\ Get
  /\ UNCHANGED <<text, at, lexeme, tokens>>

\* A bug: the end of a comment is looked for after the next character is got.
SkipLooksLate ==
  /\ at = "skip" /\ (skip \/ t \in Blanks \cup {"{"})
  /\ skip' = ((skip \/ t = "{") /\ Peek # "}")
  /\ start' = <<line, col>>
  /\ t' = Peek /\ Get
  /\ UNCHANGED <<text, at, lexeme, tokens>>

\* One turn of the loop over white space and comments.  Inside a comment it
\* does not stop at the end of the file.
Skip ==
  /\ at = "skip" /\ (skip \/ t \in Blanks \cup {"{"})
  /\ skip' = ((skip \/ t = "{") /\ t # "}")
  /\ start' = <<line, col>>
  /\ t' = Peek /\ Get
  /\ UNCHANGED <<text, at, lexeme, tokens>>

\* The switch over the character the token starts with.
Starts(chars) == at = "skip" /\ ~skip /\ t \in chars

\* next() returns the token; the constructor calls it again unless it is eof.
PushBack(token) ==
  /\ tokens' = Append(tokens, token)
  /\ UNCHANGED <<text, t, skip, start, lexeme>>

Return(token) == PushBack(token) /\ at' = "next"

EndOfFile ==
  /\ Starts({Eof})
  /\ PushBack(Plain("eof", <<line, col>>)) /\ at' = "done"
  /\ UNCHANGED <<pos, line, col>>

SingleOperator == Starts(Singles) /\ Return(Plain(t, start)) /\ UNCHANGED <<pos, line, col>>

\* condGet() takes the second character if there is such an operator.
DoubleOperator == Starts(Openers) /\ <<t, Peek>> \in Doubles /\ Return(Plain(t \o Peek, start)) /\ Get

Opener ==
  /\ Starts(Openers) /\ <<t, Peek>> \notin Doubles
  /\ Return(Plain(t, start)) /\ UNCHANGED <<pos, line, col>>

\* number() and identifierOrKeyword() are called with the first character.
Call(method, first) ==
  /\ at' = method
  /\ lexeme' = first
  /\ UNCHANGED <<text, pos, line, col, t, skip, start, tokens>>

Number == Starts(Digits) /\ Call("number", DigitValue[t])
Word   == Starts(Letters) /\ Call("word", t)

More(method, chars, longer) ==
  /\ at = method /\ Peek \in chars
  /\ lexeme' = longer
  /\ Get
  /\ UNCHANGED <<text, at, t, skip, start, tokens>>

MoreNumber == More("number", Digits, Wrap(lexeme * 10 + DigitValue[Peek]))
MoreWord   == More("word", WordChars, lexeme \o Peek)

EndNumber ==
  /\ at = "number" /\ Peek \notin Digits
  /\ Return(Token("number", "", lexeme, start)) /\ UNCHANGED <<pos, line, col>>

EndWord ==
  /\ at = "word" /\ Peek \notin WordChars
  /\ Return(IF lexeme \in Keywords THEN Plain(lexeme, start) ELSE Token("ident", lexeme, 0, start))
  /\ UNCHANGED <<pos, line, col>>

\* throw ScannerError
Unknown ==
  /\ at = "skip" /\ ~skip
  /\ t \notin {Eof, "{"} \cup Blanks \cup Singles \cup Openers \cup WordChars
  /\ at' = "failed"
  /\ UNCHANGED <<text, pos, line, col, t, skip, start, lexeme, tokens>>

ScanNext ==
  \/ Begin \/ Skip \/ EndOfFile
  \/ SingleOperator \/ DoubleOperator \/ Opener
  \/ Number \/ MoreNumber \/ EndNumber
  \/ Word \/ MoreWord \/ EndWord
  \/ Unknown

ScanSpec == ScanInit /\ [][ScanNext]_scanVars
=============================================================================
