------------------------------- MODULE MCDriver -------------------------------
(***************************************************************************)
(* Files for mila+: every short sequence of some characters, of the words  *)
(* of an expression and of those of a statement; programs with one word    *)
(* missing or replaced or cut off; and every short list of arguments.      *)
(***************************************************************************)
EXTENDS DriverProperties

LOCAL INSTANCE SequencesExt

MCMinInt == -32

\* How words are spelled; a character is a word of its own.
SpellingOf(w) ==
  CASE w = "begin" -> <<"b", "e", "g", "i", "n">>
    [] w = "end"   -> <<"e", "n", "d">>
    [] w = "if"    -> <<"i", "f">>
    [] w = "then"  -> <<"t", "h", "e", "n">>
    [] w = "else"  -> <<"e", "l", "s", "e">>
    [] w = "while" -> <<"w", "h", "i", "l", "e">>
    [] w = "do"    -> <<"d", "o">>
    [] w = "var"   -> <<"v", "a", "r">>
    [] w = "const" -> <<"c", "o", "n", "s", "t">>
    [] w = "read"  -> <<"r", "e", "a", "d">>
    [] w = "write" -> <<"w", "r", "i", "t", "e">>
    [] w = "return" -> <<"r", "e", "t", "u", "r", "n">>
    [] w = "function" -> <<"f", "u", "n", "c", "t", "i", "o", "n">>
    [] w = ":="    -> <<":", "=">>
    [] w = "<="    -> <<"<", "=">>
    [] w = "<>"    -> <<"<", ">">>
    [] OTHER       -> <<w>>

Lettered == {"a", "b", "f", "1", "9", "begin", "end", "if", "then", "else", "while", "do",
             "var", "const", "read", "write", "return", "function"}

\* The words of ws spelled, with a space or a new line where two would be one.
Spelled(ws) ==
  FlattenSeq([k \in 1 .. Len(ws) |->
                IF k < Len(ws) /\ ws[k] \in Lettered
                THEN Append(SpellingOf(ws[k]), IF k % 4 = 0 THEN "\n" ELSE " ")
                ELSE SpellingOf(ws[k])])

Sequences(words, n) == UNION {[1 .. k -> words] : k \in 0 .. n}

Characters ==
  Sequences({"d", "o", "1", "9", "{", "}", ":", "=", "<", ">", " ", "\n", "+", "?"}, 3)
    \cup Sequences({"d", "o", "9", "{", "}", "<", "=", "\n"}, 4)

Expressions ==
  {<<"begin">> \o ws \o <<"end">> : ws \in Sequences({"a", "1", "+", "*", "(", ")", "="}, 4)}

Statements ==
  {<<"var", "a", "begin">> \o ws \o <<"end">> :
     ws \in Sequences({"a", ":=", ";", "1", "-", "if", "then", "else", "while", "do", "begin",
                       "end", "write", "var"}, 3)}

Programs ==
  {<<"function", "f", "(", "a", ",", "b", ")", "return", "a", "-", "b", ";", "begin", "write",
     "f", "(", "1", ",", "9", ")", "end">>,
   <<"const", "b", "=", "9", ",", "a", "=", "1", ";", "begin", "var", "a", "read", "a", "end">>,
   <<"var", "a", ",", "b", "begin", "if", "a", "<=", "b", "then", "if", "a", "then", "b", ":=", "1",
     ";", "else", "a", ":=", "b", "end">>,
   <<"function", "f", "(", ")", "1", ";", ";", "var", "a", "begin", "a", ":=", "f", "(", ")", "*",
     "(", "a", "-", "1", ")", "-", "a", "end", "begin">>,
   <<"var", "a", "begin", "while", "a", "<>", "1", "do", "begin", "a", ":=", "a", "-", "1",
     ";", "write", "a", "end", "-", "9", "9", "return", "a", "end">>,
   <<"begin", "var", "a", "a", ":=", "1", "a", "=", "-", "-", "1", "+", "a", "*", "a", "end", "{", "a">>}

\* A program with one word replaced by up to two others, or cut off.
Changed ==
  UNION {{SubSeq(p, 1, k - 1) \o ws \o SubSeq(p, k + 1, Len(p)) :
            k \in 1 .. Len(p),
            ws \in {<<>>, <<"(">>, <<"1", "-">>, <<"end">>}}
           \cup {SubSeq(p, 1, k) : k \in 1 .. Len(p)} : p \in Programs}

Command(arguments, input) == [argv |-> arguments, files |-> [n \in {"in"} |-> input]]

MCCommands ==
  {Command(<<"in">>, cs) : cs \in Characters}
    \cup {Command(<<"--verbose", "in">>, Spelled(ws)) : ws \in Expressions \cup Statements \cup Changed}
    \cup {Command(arguments, Spelled(<<"begin", "1", "end">>)) :
            arguments \in Sequences({"--verbose", "--emit", "in", "out"}, 4)}
MCTexts == {command.files["in"] : command \in MCCommands}
=============================================================================
