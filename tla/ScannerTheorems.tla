--------------------------- MODULE ScannerTheorems ---------------------------
(***************************************************************************)
(* The scanner makes of every text the tokens it should, and fails on      *)
(* those of which it should not: TokensAreLexemes, for texts of any length *)
(* and ints of any width.                                                  *)
(***************************************************************************)
EXTENDS ScannerProperties, FiniteSetTheorems, WellFoundedInduction, TLAPS

-----------------------------------------------------------------------------
(* The invariant: what has been read is what the text has up to there. *)

\* The tokens made are the lexemes of x up to character k; all are known, and
\* none goes on behind it.
ReadUpTo(x, k, made) ==
  LET starts == StartsUpTo(x)[k] IN
  /\ made = [n \in 1 .. Len(starts) |-> TokenAt(x, starts[n])]
  /\ \A n \in 1 .. Len(starts) : Known(x, starts[n]) /\ LastOf(x, starts[n]) <= k

NextIs(k) == <<line, col>> = PlaceOf(text, k)

\* next() is called.
InvNext == ReadUpTo(text, pos, tokens) /\ ~Open(text, pos) /\ NextIs(pos + 1)

\* next() has got a character, or come to the end of the file.
InvSkip ==
  \/ /\ pos > 0 /\ t = text[pos]
     /\ ReadUpTo(text, pos - 1, tokens)
     /\ skip <=> Open(text, pos - 1)
     /\ start = PlaceOf(text, pos)
     /\ NextIs(pos + 1)
  \/ /\ pos = Len(text) /\ t = Eof
     /\ ReadUpTo(text, pos, tokens)
     /\ skip <=> Open(text, pos)
     /\ ~skip => NextIs(pos + 2)

\* number() or identifierOrKeyword() has got the characters from i on.
InvLexeme(i) ==
  /\ start = PlaceOf(text, i)
  /\ NextIs(pos + 1)
  /\ \/ /\ at = "number"
        /\ \A k \in i .. pos : text[k] \in Digits
        /\ lexeme = Wrap(Numeral(text, i, pos))
     \/ /\ at = "word"
        /\ text[i] \in Letters /\ \A k \in i .. pos : text[k] \in WordChars
        /\ lexeme = Spelling(text, i, pos)
  /\ ~Open(text, i - 1)
  /\ ReadUpTo(text, i - 1, tokens)

ScanInv ==
  /\ text \in Seq(STRING \ {Eof}) /\ Len(text) + 2 <= MaxCol
  /\ pos \in 0 .. Len(text)
  /\ skip \in BOOLEAN
  /\ at \in {"next", "skip", "number", "word", "done", "failed"}
  /\ at = "next" => InvNext
  /\ at = "skip" => InvSkip
  /\ at \in {"number", "word"} => \E i \in 1 .. pos : InvLexeme(i)
  /\ TokensAreLexemes

IsText(x) == x \in Seq(STRING \ {Eof})

-----------------------------------------------------------------------------
(* Characters. *)

LEMMA DigitFacts ==
  /\ Digits = {"0", "1", "2", "3", "4", "5", "6", "7", "8", "9"}
  /\ \A d \in Digits : DigitValue[d] \in 0 .. 9
<1>1. Digits = {"0", "1", "2", "3", "4", "5", "6", "7", "8", "9"}
  BY DEF Digits, Numerals
<1>2. ASSUME NEW d \in Digits
      PROVE  DigitValue[d] \in 0 .. 9
  <2>1. PICK k \in 1 .. 10 : Numerals[k] = d
    BY DEF Digits
  <2>2. k - 1 \in 0 .. 9 /\ Numerals[(k - 1) + 1] = d
    BY <2>1
  <2>3. DigitValue[d] = CHOOSE n \in 0 .. 9 : Numerals[n + 1] = d
    BY DEF DigitValue
  <2> QED BY <2>2, <2>3
<1> QED BY <1>1, <1>2

\* The characters that are or start a lexeme, and those that come before it.
Starters == Singles \cup Openers \cup WordChars

(* No character has two meanings.                                          *)
LEMMA CharactersDiffer ==
  /\ Letters \cap Digits = {}
  /\ Singles \cap Openers = {}
  /\ (Singles \cup Openers) \cap WordChars = {}
  /\ Starters \cap (Blanks \cup {"{", "}", "\n"}) = {}
  /\ Blanks \cap {"{", "}"} = {} /\ "\n" \in Blanks
  /\ \A c, d : <<c, d>> \in Doubles => c \in Openers /\ d \in Starters
<1>1. Letters \cap Digits = {}
  BY DigitFacts DEF Letters
<1>2. Singles \cap Openers = {}
  BY DEF Singles, Openers
<1>3. (Singles \cup Openers) \cap Letters = {}
  BY DEF Singles, Openers, Letters
<1>4. (Singles \cup Openers) \cap Digits = {}
  BY DigitFacts DEF Singles, Openers
<1>5. (Singles \cup Openers) \cap (Blanks \cup {"{", "}", "\n"}) = {}
  BY DEF Singles, Openers, Blanks
<1>6. Letters \cap (Blanks \cup {"{", "}", "\n"}) = {}
  BY DEF Letters, Blanks
<1>7. Digits \cap (Blanks \cup {"{", "}", "\n"}) = {}
  BY DigitFacts DEF Blanks
<1>8. Blanks \cap {"{", "}"} = {} /\ "\n" \in Blanks
  BY DEF Blanks
<1>9. \A c, d : <<c, d>> \in Doubles => c \in Openers /\ d \in Singles \cup Openers
  BY DEF Doubles, Openers, Singles
<1> QED BY <1>1, <1>2, <1>3, <1>4, <1>5, <1>6, <1>7, <1>8, <1>9 DEF Starters, WordChars

(* The end of the file is no character.                                    *)
LEMMA EofDiffers == Eof \notin Blanks \cup {"{", "}"} \cup Starters
<1>1. Eof \notin Blanks \cup {"{", "}"}
  BY Zenon DEF Eof, Blanks
<1>2. Eof \notin Letters
  BY Zenon DEF Eof, Letters
<1>3. Eof \notin Digits
  BY DigitFacts, Zenon DEF Eof
<1>4. Eof \notin Singles \cup Openers
  BY Zenon DEF Eof, Singles, Openers
<1> QED BY <1>1, <1>2, <1>3, <1>4 DEF Starters, WordChars

(* What a text is.                                                         *)
LEMMA TextFacts ==
  ASSUME NEW x, IsText(x)
  PROVE  /\ Len(x) \in Nat /\ DOMAIN x = 1 .. Len(x)
         /\ \A k \in 1 .. Len(x) : x[k] # Eof
<1> DEFINE S == STRING \ {Eof}
<1>1. x \in Seq(S)
  BY DEF IsText
<1>2. Len(x) \in Nat /\ DOMAIN x = 1 .. Len(x) /\ \A k \in 1 .. Len(x) : x[k] \in S
  <2> HIDE DEF S
  <2> QED BY <1>1
<1> QED BY <1>2

-----------------------------------------------------------------------------
(* The recursions: that each has a solution, and what it says. *)

LEMMA NaturalInduction ==
  ASSUME NEW T, 0 \in T, \A n \in Nat : n \in T => n + 1 \in T
  PROVE  Nat \subseteq T
<1> SUFFICES ASSUME ~ (Nat \subseteq T) PROVE FALSE
  OBVIOUS
<1> DEFINE U == Nat \ T
<1>1. U \subseteq Nat /\ U # {}
  OBVIOUS
<1>2. PICK n \in U : \A m \in U : n <= m
  <2> DEFINE R == OpToRel(<, Nat)
  <2>0. IsWellFoundedOn(R, Nat)
    BY NatLessThanWellFounded
  <2>1. PICK n \in U : \A m \in U : <<m, n>> \notin R
    <3> HIDE DEF R, U
    <3> QED BY <1>1, <2>0, WFMin
  <2>2. \A m \in U : ~ (m < n)
    BY <2>1 DEF OpToRel
  <2> QED BY <2>2
<1>3. n # 0 /\ n - 1 \in Nat /\ n - 1 \in T
  BY <1>2
<1> QED BY <1>2, <1>3

\* Character k starts a lexeme, where those before it start at before.
Starting(x, k, before) ==
  /\ Visible(x, k)
  /\ before # <<>> => LET i == before[Len(before)] IN Known(x, i) => LastOf(x, i) < k

LEMMA StartsEquations ==
  ASSUME NEW x, Len(x) \in Nat
  PROVE  /\ StartsUpTo(x)[0] = <<>>
         /\ \A k \in 1 .. Len(x) :
              StartsUpTo(x)[k] = IF Starting(x, k, StartsUpTo(x)[k - 1])
                                 THEN Append(StartsUpTo(x)[k - 1], k) ELSE StartsUpTo(x)[k - 1]
<1> DEFINE n == Len(x)
           Step(f, k) == IF k = 0 THEN <<>>
                         ELSE IF Starting(x, k, f[k - 1]) THEN Append(f[k - 1], k) ELSE f[k - 1]
           starts[k \in 0 .. n] ==
             IF k = 0 THEN <<>>
             ELSE IF Starting(x, k, starts[k - 1]) THEN Append(starts[k - 1], k) ELSE starts[k - 1]
           T == {m \in Nat : \E f : f = [k \in 0 .. m |-> Step(f, k)]}
<1>1. 0 \in T
  <2>1. [k \in 0 .. 0 |-> <<>>] = [k \in 0 .. 0 |-> Step([j \in 0 .. 0 |-> <<>>], k)]
    OBVIOUS
  <2> QED BY <2>1
<1>2. ASSUME NEW m \in Nat, m \in T PROVE m + 1 \in T
  <2>1. PICK f : f = [k \in 0 .. m |-> Step(f, k)]
    BY <1>2
  <2> DEFINE g == [k \in 0 .. m + 1 |-> IF k = m + 1 THEN Step(f, k) ELSE f[k]]
  <2>2. \A k \in 0 .. m + 1 : g[k] = Step(f, k)
    <3> HIDE DEF Step
    <3> QED BY <2>1
  <2>3. ASSUME NEW k \in 0 .. m + 1 PROVE Step(f, k) = Step(g, k)
    <3>1. k # 0 => g[k - 1] = f[k - 1]
      <4> HIDE DEF Step
      <4> QED OBVIOUS
    <3> HIDE DEF g
    <3> QED BY <3>1
  <2>4. g = [k \in 0 .. m + 1 |-> Step(g, k)]
    <3> HIDE DEF Step
    <3> QED BY <2>2, <2>3
  <2> HIDE DEF g, Step
  <2> QED BY <2>4
<1>3. Nat \subseteq T
  <2> HIDE DEF T
  <2> QED BY <1>1, <1>2, NaturalInduction
<1>4. starts = [k \in 0 .. n |-> Step(starts, k)]
  <2>1. \E f : f = [k \in 0 .. n |-> Step(f, k)]
    <3>1. n \in Nat
      OBVIOUS
    <3> HIDE DEF n, Step
    <3> QED BY <1>3, <3>1
  <2> HIDE DEF n
  <2> QED BY <2>1
<1>5. \A k \in 0 .. n : starts[k] = Step(starts, k)
  <2> HIDE DEF Step, n
  <2> QED BY <1>4
<1>6. StartsUpTo(x) = starts
  BY DEF StartsUpTo, Starting
<1> HIDE DEF starts
<1> QED BY <1>5, <1>6

LEMMA SpellingEquations ==
  ASSUME NEW x, Len(x) \in Nat, NEW i \in 1 .. Len(x)
  PROVE  /\ Spelling(x, i, i) = x[i]
         /\ \A k \in i + 1 .. Len(x) : Spelling(x, i, k) = Spelling(x, i, k - 1) \o x[k]
<1> DEFINE n == Len(x)
           Step(f, k) == IF k = i THEN x[k] ELSE f[k - 1] \o x[k]
           word[k \in i .. n] == IF k = i THEN x[k] ELSE word[k - 1] \o x[k]
           T == {m \in Nat : \E f : f = [k \in i .. i + m |-> Step(f, k)]}
<1>1. 0 \in T
  <2>1. [k \in i .. i + 0 |-> x[k]] = [k \in i .. i + 0 |-> Step([j \in i .. i + 0 |-> x[j]], k)]
    OBVIOUS
  <2> QED BY <2>1
<1>2. ASSUME NEW m \in Nat, m \in T PROVE m + 1 \in T
  <2>1. PICK f : f = [k \in i .. i + m |-> Step(f, k)]
    BY <1>2
  <2> DEFINE g == [k \in i .. i + (m + 1) |-> IF k = i + (m + 1) THEN Step(f, k) ELSE f[k]]
  <2>2. \A k \in i .. i + (m + 1) : g[k] = Step(f, k)
    <3> HIDE DEF Step
    <3> QED BY <2>1
  <2>3. ASSUME NEW k \in i .. i + (m + 1) PROVE Step(f, k) = Step(g, k)
    <3>1. k # i => g[k - 1] = f[k - 1]
      <4> HIDE DEF Step
      <4> QED OBVIOUS
    <3> HIDE DEF g
    <3> QED BY <3>1
  <2>4. g = [k \in i .. i + (m + 1) |-> Step(g, k)]
    <3> HIDE DEF Step
    <3> QED BY <2>2, <2>3
  <2> HIDE DEF g, Step
  <2> QED BY <2>4
<1>3. Nat \subseteq T
  <2> HIDE DEF T
  <2> QED BY <1>1, <1>2, NaturalInduction
<1>4. word = [k \in i .. n |-> Step(word, k)]
  <2>1. n - i \in T /\ i + (n - i) = n
    <3> HIDE DEF T
    <3> QED BY <1>3
  <2>2. \E f : f = [k \in i .. n |-> Step(f, k)]
    <3> HIDE DEF n, Step
    <3> QED BY <2>1
  <2> HIDE DEF n
  <2> QED BY <2>2
<1>5. \A k \in i .. n : word[k] = Step(word, k)
  <2> HIDE DEF Step, n
  <2> QED BY <1>4
<1>6. \A k : Spelling(x, i, k) = word[k]
  BY DEF Spelling
<1>7. i \in i .. n /\ \A k \in i + 1 .. n : k \in i .. n /\ k # i
  OBVIOUS
<1> HIDE DEF word
<1>8. word[i] = x[i] /\ \A k \in i + 1 .. n : word[k] = word[k - 1] \o x[k]
  BY <1>5, <1>7, Zenon
<1> QED BY <1>6, <1>8, Zenon

LEMMA NumeralEquations ==
  ASSUME NEW x, Len(x) \in Nat, NEW i \in 1 .. Len(x)
  PROVE  /\ Numeral(x, i, i) = DigitValue[x[i]]
         /\ \A k \in i + 1 .. Len(x) :
              Numeral(x, i, k) = 10 * Numeral(x, i, k - 1) + DigitValue[x[k]]
<1> DEFINE n == Len(x)
           Step(f, k) == IF k = i THEN DigitValue[x[k]] ELSE 10 * f[k - 1] + DigitValue[x[k]]
           number[k \in i .. n] ==
             IF k = i THEN DigitValue[x[k]] ELSE 10 * number[k - 1] + DigitValue[x[k]]
           T == {m \in Nat : \E f : f = [k \in i .. i + m |-> Step(f, k)]}
<1>1. 0 \in T
  <2>1. [k \in i .. i + 0 |-> DigitValue[x[k]]]
          = [k \in i .. i + 0 |-> Step([j \in i .. i + 0 |-> DigitValue[x[j]]], k)]
    OBVIOUS
  <2> QED BY <2>1
<1>2. ASSUME NEW m \in Nat, m \in T PROVE m + 1 \in T
  <2>1. PICK f : f = [k \in i .. i + m |-> Step(f, k)]
    BY <1>2
  <2> DEFINE g == [k \in i .. i + (m + 1) |-> IF k = i + (m + 1) THEN Step(f, k) ELSE f[k]]
  <2>2. \A k \in i .. i + (m + 1) : g[k] = Step(f, k)
    <3> HIDE DEF Step
    <3> QED BY <2>1
  <2>3. ASSUME NEW k \in i .. i + (m + 1) PROVE Step(f, k) = Step(g, k)
    <3>1. k # i => g[k - 1] = f[k - 1]
      <4> HIDE DEF Step
      <4> QED OBVIOUS
    <3> HIDE DEF g
    <3> QED BY <3>1
  <2>4. g = [k \in i .. i + (m + 1) |-> Step(g, k)]
    <3> HIDE DEF Step
    <3> QED BY <2>2, <2>3
  <2> HIDE DEF g, Step
  <2> QED BY <2>4
<1>3. Nat \subseteq T
  <2> HIDE DEF T
  <2> QED BY <1>1, <1>2, NaturalInduction
<1>4. number = [k \in i .. n |-> Step(number, k)]
  <2>1. n - i \in T /\ i + (n - i) = n
    <3> HIDE DEF T
    <3> QED BY <1>3
  <2>2. \E f : f = [k \in i .. n |-> Step(f, k)]
    <3> HIDE DEF n, Step
    <3> QED BY <2>1
  <2> HIDE DEF n
  <2> QED BY <2>2
<1>5. \A k \in i .. n : number[k] = Step(number, k)
  <2> HIDE DEF Step, n
  <2> QED BY <1>4
<1>6. \A k : Numeral(x, i, k) = number[k]
  BY DEF Numeral
<1> HIDE DEF number
<1> QED BY <1>5, <1>6

-----------------------------------------------------------------------------
(* Where lexemes start. *)

LEMMA AppendFacts ==
  ASSUME NEW s \in Seq(Nat), NEW e \in Nat, NEW r, r = Append(s, e)
  PROVE  /\ r \in Seq(Nat) /\ r # <<>>
         /\ Len(s) \in Nat /\ Len(r) = Len(s) + 1
         /\ \A m \in 1 .. Len(s) : r[m] = s[m]
         /\ r[Len(s) + 1] = e
OBVIOUS

LEMMA AppendKeeps ==
  ASSUME NEW s \in Seq(Nat), NEW e \in Nat, NEW r, r = Append(s, e), NEW m \in 1 .. Len(s)
  PROVE  r[m] = s[m]
OBVIOUS

LEMMA StartsFacts ==
  ASSUME NEW x, Len(x) \in Nat, NEW k \in 0 .. Len(x)
  PROVE  /\ StartsUpTo(x)[k] \in Seq(Nat)
         /\ \A m \in 1 .. Len(StartsUpTo(x)[k]) : StartsUpTo(x)[k][m] \in 1 .. k
<1> DEFINE S(l) == StartsUpTo(x)[l]
           Fact(l) == S(l) \in Seq(Nat) /\ \A m \in 1 .. Len(S(l)) : S(l)[m] \in 1 .. l
           T == {l \in Nat : l <= Len(x) => Fact(l)}
<1>1. 0 \in T
  <2>1. S(0) = <<>>
    BY StartsEquations
  <2>2. <<>> \in Seq(Nat) /\ Len(<<>>) = 0 /\ 1 .. 0 = {}
    OBVIOUS
  <2>3. Fact(0)
    <3> HIDE DEF S
    <3> QED BY <2>1, <2>2, Zenon
  <2> QED BY <2>3
<1>2. ASSUME NEW l \in Nat, l \in T PROVE l + 1 \in T
  <2> SUFFICES ASSUME l + 1 <= Len(x) PROVE Fact(l + 1)
    OBVIOUS
  <2>1. Fact(l)
    BY <1>2
  <2>2. l + 1 \in 1 .. Len(x) /\ (l + 1) - 1 = l
    OBVIOUS
  <2>3. S(l + 1) = Append(S(l), l + 1) \/ S(l + 1) = S(l)
    BY <2>2, StartsEquations
  <2> HIDE DEF S
  <2>4. CASE S(l + 1) = Append(S(l), l + 1)
    <3>1. S(l) \in Seq(Nat) /\ l + 1 \in Nat
      BY <2>1
    <3>2. S(l + 1) \in Seq(Nat) /\ Len(S(l)) \in Nat /\ Len(S(l + 1)) = Len(S(l)) + 1
      BY <2>4, <3>1, AppendFacts, Zenon
    <3>3. \A m \in 1 .. Len(S(l)) : S(l + 1)[m] = S(l)[m]
      BY <2>4, <3>1, AppendKeeps, Zenon
    <3>4. S(l + 1)[Len(S(l)) + 1] = l + 1
      BY <2>4, <3>1, AppendFacts, Zenon
    <3>5. ASSUME NEW m \in 1 .. Len(S(l + 1)) PROVE S(l + 1)[m] \in 1 .. l + 1
      <4>1. m \in 1 .. Len(S(l)) \/ m = Len(S(l)) + 1
        BY <3>2
      <4>2. m \in 1 .. Len(S(l)) => S(l + 1)[m] \in 1 .. l
        BY <2>1, <3>3
      <4> QED BY <3>4, <4>1, <4>2
    <3> QED BY <3>2, <3>5
  <2>5. CASE S(l + 1) = S(l)
    BY <2>1, <2>5
  <2> QED BY <2>3, <2>4, <2>5
<1>3. k \in T
  <2> HIDE DEF T
  <2> QED BY <1>1, <1>2, NaturalInduction
<1> QED BY <1>3

(* Reading on adds to the lexemes and changes none.                        *)
LEMMA StartsGrow ==
  ASSUME NEW x, Len(x) \in Nat, NEW k \in 0 .. Len(x), NEW l \in k .. Len(x)
  PROVE  /\ Len(StartsUpTo(x)[k]) <= Len(StartsUpTo(x)[l])
         /\ \A m \in 1 .. Len(StartsUpTo(x)[k]) : StartsUpTo(x)[l][m] = StartsUpTo(x)[k][m]
<1> DEFINE S(j) == StartsUpTo(x)[j]
           Fact(j) == Len(S(k)) <= Len(S(j)) /\ \A m \in 1 .. Len(S(k)) : S(j)[m] = S(k)[m]
           T == {d \in Nat : k + d <= Len(x) => Fact(k + d)}
<1>0. \A j \in 0 .. Len(x) : S(j) \in Seq(Nat) /\ Len(S(j)) \in Nat
  BY StartsFacts
<1>1. 0 \in T
  BY <1>0
<1>2. ASSUME NEW d \in Nat, d \in T PROVE d + 1 \in T
  <2> SUFFICES ASSUME k + (d + 1) <= Len(x) PROVE Fact(k + (d + 1))
    OBVIOUS
  <2> DEFINE j == k + d
  <2>1. Fact(j) /\ j \in 0 .. Len(x) /\ j + 1 \in 1 .. Len(x) /\ (j + 1) - 1 = j /\ k + (d + 1) = j + 1
    BY <1>2
  <2>2. S(j + 1) = Append(S(j), j + 1) \/ S(j + 1) = S(j)
    BY <2>1, StartsEquations
  <2>3. S(j) \in Seq(Nat) /\ Len(S(j)) \in Nat /\ Len(S(k)) \in Nat
    BY <1>0, <2>1
  <2> HIDE DEF S, j
  <2>4. CASE S(j + 1) = Append(S(j), j + 1)
    <3>0. j + 1 \in Nat
      BY <2>1
    <3>a. Len(S(j + 1)) = Len(S(j)) + 1
      BY <2>3, <2>4, <3>0, AppendFacts, Zenon
    <3>1. \A m \in 1 .. Len(S(j)) : S(j + 1)[m] = S(j)[m]
      BY <2>3, <2>4, <3>0, AppendKeeps, Zenon
    <3>2. Len(S(k)) <= Len(S(j + 1))
      BY <2>1, <2>3, <3>a
    <3>3. ASSUME NEW m \in 1 .. Len(S(k)) PROVE S(j + 1)[m] = S(k)[m]
      <4>1. m \in 1 .. Len(S(j))
        BY <2>1, <2>3
      <4> QED BY <2>1, <3>1, <4>1
    <3> QED BY <2>1, <3>2, <3>3
  <2>5. CASE S(j + 1) = S(j)
    BY <2>1, <2>5
  <2> QED BY <2>2, <2>4, <2>5
<1>3. l - k \in T /\ k + (l - k) = l
  <2> HIDE DEF T
  <2> QED BY <1>1, <1>2, NaturalInduction
<1> QED BY <1>3

(* A lexeme from i to j is the only one to start there.                    *)
LEMMA StartsOneLexeme ==
  ASSUME NEW x, Len(x) \in Nat, NEW i \in 1 .. Len(x), NEW j \in i .. Len(x),
         Starting(x, i, StartsUpTo(x)[i - 1]), Known(x, i), LastOf(x, i) = j
  PROVE  StartsUpTo(x)[j] = Append(StartsUpTo(x)[i - 1], i)
<1> DEFINE S(k) == StartsUpTo(x)[k]
           new == Append(S(i - 1), i)
           T == {d \in Nat : i + d <= j => S(i + d) = new}
<1>0. S(i - 1) \in Seq(Nat) /\ Len(S(i - 1)) \in Nat
  BY StartsFacts
<1>a. Len(new) = Len(S(i - 1)) + 1 /\ new[Len(new)] = i /\ new # <<>>
  <2> HIDE DEF S
  <2> QED BY <1>0
<1>1. 0 \in T
  <2>1. S(i) = new
    BY StartsEquations, Zenon
  <2>2. i + 0 = i
    OBVIOUS
  <2> HIDE DEF S, new
  <2> QED BY <2>1, <2>2
<1>2. ASSUME NEW d \in Nat, d \in T PROVE d + 1 \in T
  <2> SUFFICES ASSUME i + (d + 1) <= j PROVE S(i + (d + 1)) = new
    OBVIOUS
  <2> DEFINE k == i + (d + 1)
  <2>1. S(k - 1) = new /\ k \in 1 .. Len(x) /\ ~ (LastOf(x, i) < k)
    BY <1>2
  <2> HIDE DEF k, new
  <2>2. ~ Starting(x, k, S(k - 1))
    BY <1>a, <2>1 DEF Starting
  <2>3. S(k) = S(k - 1)
    BY <2>1, <2>2, StartsEquations
  <2> QED BY <2>1, <2>3 DEF k
<1>3. j - i \in T /\ i + (j - i) = j
  <2> HIDE DEF T
  <2> QED BY <1>1, <1>2, NaturalInduction
<1> QED BY <1>3

-----------------------------------------------------------------------------
(* Comments. *)

LEMMA OpenFacts ==
  ASSUME NEW x
  PROVE  /\ ~ Open(x, 0)
         /\ \A k \in Nat \ {0} : Open(x, k) <=> InComment(x, k) /\ x[k] # "}"
<1>1. ~ Open(x, 0)
  BY DEF Open
<1>2. ASSUME NEW k \in Nat \ {0}
      PROVE  Open(x, k) <=> InComment(x, k) /\ x[k] # "}"
  <2>1. ASSUME Open(x, k) PROVE InComment(x, k) /\ x[k] # "}"
    <3>1. PICK j \in 1 .. k : x[j] = "{" /\ \A i \in j .. k : x[i] # "}"
      BY <2>1 DEF Open
    <3>a. k \in j .. k
      OBVIOUS
    <3>2. x[k] # "}"
      BY <3>1, <3>a, Zenon
    <3>3. CASE j = k
      BY <3>1, <3>2, <3>3 DEF InComment
    <3>4. CASE j # k
      <4>1. j \in 1 .. k - 1 /\ k - 1 \in Nat
        BY <3>4
      <4>2. ASSUME NEW i \in j .. k - 1 PROVE x[i] # "}"
        <5>1. i \in j .. k
          BY <4>1
        <5> QED BY <3>1, <5>1
      <4>3. Open(x, k - 1)
        BY <3>1, <4>1, <4>2, Zenon DEF Open
      <4> QED BY <3>2, <4>3 DEF InComment
    <3> QED BY <3>3, <3>4
  <2>2. ASSUME InComment(x, k), x[k] # "}" PROVE Open(x, k)
    <3>1. CASE x[k] = "{"
      <4>1. k \in 1 .. k /\ \A i \in k .. k : i = k
        OBVIOUS
      <4> QED BY <2>2, <3>1, <4>1, Zenon DEF Open
    <3>2. CASE Open(x, k - 1)
      <4>1. PICK j \in 1 .. k - 1 : x[j] = "{" /\ \A i \in j .. k - 1 : x[i] # "}"
        BY <3>2 DEF Open
      <4>2. j \in 1 .. k /\ \A i \in j .. k : x[i] # "}"
        <5>1. j \in 1 .. k /\ \A i \in j .. k : i \in j .. k - 1 \/ i = k
          OBVIOUS
        <5> QED BY <2>2, <4>1, <5>1, Zenon
      <4> QED BY <4>1, <4>2, Zenon DEF Open
    <3> QED BY <2>2, <3>1, <3>2 DEF InComment
  <2> QED BY <2>1, <2>2
<1> QED BY <1>1, <1>2

(* No lexeme opens a comment.                                              *)
LEMMA LexemesAreClosed ==
  ASSUME NEW x, NEW i \in Nat \ {0}, NEW j \in Nat, i <= j,
         ~ Open(x, i - 1), \A k \in i .. j : x[k] \in Starters
  PROVE  ~ Open(x, j)
<1> SUFFICES ASSUME Open(x, j) PROVE FALSE
  OBVIOUS
<1>1. PICK m \in 1 .. j : x[m] = "{" /\ \A k \in m .. j : x[k] # "}"
  BY DEF Open
<1>2. m \notin i .. j
  BY <1>1, CharactersDiffer
<1>3. m \in 1 .. i - 1 /\ \A k \in m .. i - 1 : k \in m .. j
  BY <1>2
<1> QED BY <1>1, <1>3, Zenon DEF Open

-----------------------------------------------------------------------------
(* Lines and columns. *)

Newlines(x, k) == {j \in 1 .. Len(x) : j < k /\ x[j] = "\n"}

LEMMA NewlineFacts ==
  ASSUME NEW x, Len(x) \in Nat, NEW k \in Nat \ {0}
  PROVE  /\ IsFiniteSet(Newlines(x, k)) /\ Cardinality(Newlines(x, k)) \in Nat
         /\ Max(Newlines(x, k) \cup {0}) \in 0 .. k - 1
         /\ PlaceOf(x, k) = <<1 + Cardinality(Newlines(x, k)), k - Max(Newlines(x, k) \cup {0})>>
<1> DEFINE N == Newlines(x, k)
<1>1. IsFiniteSet(N) /\ Cardinality(N) \in Nat
  <2>1. N \in SUBSET (1 .. Len(x))
    BY DEF Newlines
  <2>2. IsFiniteSet(1 .. Len(x))
    BY FS_Interval
  <2> HIDE DEF N
  <2>3. IsFiniteSet(N)
    BY <2>1, <2>2, FS_Subset
  <2> QED BY <2>3, FS_CardinalityType
<1>2. \E m \in N \cup {0} : \A j \in N \cup {0} : m >= j
  <2> DEFINE T == {b \in Nat : b > 0 => \E m \in N \cup {0} : \A j \in N \cup {0} : j < b => m >= j}
  <2>0. \A j \in N \cup {0} : j \in 0 .. k - 1
    BY DEF Newlines
  <2> HIDE DEF N
  <2>1. 0 \in T
    OBVIOUS
  <2>2. ASSUME NEW b \in Nat, b \in T PROVE b + 1 \in T
    <3>1. CASE b \in N \cup {0}
      <4>1. \A j \in N \cup {0} : j < b + 1 => b >= j
        BY <2>0
      <4> QED BY <3>1, <4>1
    <3>2. CASE b \notin N \cup {0}
      <4>1. b > 0
        BY <3>2
      <4>2. PICK m \in N \cup {0} : \A j \in N \cup {0} : j < b => m >= j
        BY <2>2, <4>1
      <4>3. \A j \in N \cup {0} : j < b + 1 => m >= j
        BY <2>0, <3>2, <4>2
      <4> QED BY <4>3
    <3> QED BY <3>1, <3>2
  <2>3. k \in T
    <3> HIDE DEF T
    <3> QED BY <2>1, <2>2, NaturalInduction
  <2>4. PICK m \in N \cup {0} : \A j \in N \cup {0} : j < k => m >= j
    BY <2>3
  <2> QED BY <2>0, <2>4
<1>3. Max(N \cup {0}) \in N \cup {0}
  BY <1>2 DEF Max
<1>4. N \cup {0} \subseteq 0 .. k - 1
  BY DEF Newlines
<1>5. PlaceOf(x, k) = <<1 + Cardinality(N), k - Max(N \cup {0})>>
  BY DEF PlaceOf, Newlines
<1> QED BY <1>1, <1>3, <1>4, <1>5

(* The place of the next character, as get() computes it.                  *)
LEMMA PlaceFacts ==
  ASSUME NEW x, Len(x) \in Nat, NEW k \in Nat \ {0}
  PROVE  /\ PlaceOf(x, k) \in Nat \X (1 .. k)
         /\ PlaceOf(x, 1) = <<1, 1>>
         /\ PlaceOf(x, k + 1) = IF k <= Len(x) /\ x[k] = "\n" THEN <<PlaceOf(x, k)[1] + 1, 1>>
                                ELSE <<PlaceOf(x, k)[1], PlaceOf(x, k)[2] + 1>>
<1> DEFINE N(l) == Newlines(x, l)
<1>1. \A l \in Nat \ {0} :
        /\ IsFiniteSet(N(l)) /\ Cardinality(N(l)) \in Nat /\ Max(N(l) \cup {0}) \in 0 .. l - 1
        /\ PlaceOf(x, l) = <<1 + Cardinality(N(l)), l - Max(N(l) \cup {0})>>
  BY NewlineFacts
<1>2. PlaceOf(x, k) \in Nat \X (1 .. k)
  <2>1. /\ Cardinality(N(k)) \in Nat /\ Max(N(k) \cup {0}) \in 0 .. k - 1
        /\ PlaceOf(x, k) = <<1 + Cardinality(N(k)), k - Max(N(k) \cup {0})>>
    BY <1>1
  <2>2. 1 + Cardinality(N(k)) \in Nat /\ k - Max(N(k) \cup {0}) \in 1 .. k
    <3> HIDE DEF N
    <3> QED BY <2>1
  <2> HIDE DEF N
  <2> QED BY <2>1, <2>2
<1>a. /\ Cardinality(N(k)) \in Nat /\ Max(N(k) \cup {0}) \in Int
      /\ PlaceOf(x, k) = <<1 + Cardinality(N(k)), k - Max(N(k) \cup {0})>>
      /\ PlaceOf(x, k + 1) = <<1 + Cardinality(N(k + 1)), (k + 1) - Max(N(k + 1) \cup {0})>>
  <2>1. k + 1 \in Nat \ {0}
    OBVIOUS
  <2> HIDE DEF N
  <2>2. Cardinality(N(k)) \in Nat /\ Max(N(k) \cup {0}) \in 0 .. k - 1
    BY <1>1, Zenon
  <2>3. PlaceOf(x, k) = <<1 + Cardinality(N(k)), k - Max(N(k) \cup {0})>>
    BY <1>1, Zenon
  <2>4. PlaceOf(x, k + 1) = <<1 + Cardinality(N(k + 1)), (k + 1) - Max(N(k + 1) \cup {0})>>
    BY <1>1, <2>1, Zenon
  <2> QED BY <2>2, <2>3, <2>4
<1>3. PlaceOf(x, 1) = <<1, 1>>
  <2>1. N(1) = {}
    BY DEF Newlines
  <2>2. Max(N(1) \cup {0}) = 0
    BY <1>1
  <2> HIDE DEF N
  <2> QED BY <1>1, <2>1, <2>2, FS_EmptySet
<1>4. ASSUME k <= Len(x) /\ x[k] = "\n"
      PROVE  PlaceOf(x, k + 1) = <<PlaceOf(x, k)[1] + 1, 1>>
  <2>1. N(k + 1) = N(k) \cup {k} /\ k \notin N(k)
    BY <1>4 DEF Newlines
  <2>2. \A j \in N(k + 1) \cup {0} : j \in Nat /\ k >= j
    BY DEF Newlines
  <2> HIDE DEF N
  <2>3. Cardinality(N(k + 1)) = Cardinality(N(k)) + 1
    <3>1. IsFiniteSet(N(k))
      BY <1>1
    <3> QED BY <2>1, <3>1, FS_AddElement
  <2>4. Max(N(k + 1) \cup {0}) = k
    <3>1. k \in N(k + 1) \cup {0}
      BY <2>1
    <3>2. \A m \in N(k + 1) \cup {0} : (\A j \in N(k + 1) \cup {0} : m >= j) <=> m = k
      BY <2>2, <3>1
    <3> QED BY <3>1, <3>2 DEF Max
  <2> QED BY <1>a, <2>3, <2>4
<1>5. ASSUME ~ (k <= Len(x) /\ x[k] = "\n")
      PROVE  PlaceOf(x, k + 1) = <<PlaceOf(x, k)[1], PlaceOf(x, k)[2] + 1>>
  <2>1. N(k + 1) = N(k)
    BY <1>5 DEF Newlines
  <2> HIDE DEF N
  <2>2. Cardinality(N(k + 1)) = Cardinality(N(k)) /\ Max(N(k + 1) \cup {0}) = Max(N(k) \cup {0})
    BY <2>1, Zenon
  <2> QED BY <1>a, <2>2
<1> QED BY <1>2, <1>3, <1>4, <1>5


-----------------------------------------------------------------------------
(* Where lexemes end. *)

LEMMA LastOfIs ==
  ASSUME NEW x, Len(x) \in Nat, NEW i \in 1 .. Len(x), NEW j \in i .. Len(x),
         \A m \in i .. Len(x) : IsLexeme(x, i, m) <=> m <= j
  PROVE  Known(x, i) /\ LastOf(x, i) = j
<1> DEFINE IsLast(m) == IsLexeme(x, i, m) /\ (m < Len(x) => ~ IsLexeme(x, i, m + 1))
<1>1. IsLast(j)
  <2>1. j < Len(x) => j + 1 \in i .. Len(x)
    OBVIOUS
  <2> QED BY <2>1
<1>2. ASSUME NEW m \in i .. Len(x), IsLast(m) PROVE m = j
  <2>1. m <= j
    BY <1>2
  <2>2. CASE m < j
    <3>1. m < Len(x) /\ m + 1 \in i .. Len(x) /\ m + 1 <= j
      BY <2>2
    <3> QED BY <1>2, <3>1
  <2> QED BY <2>1, <2>2
<1>3. LastOf(x, i) = CHOOSE m \in i .. Len(x) : IsLast(m)
  BY DEF LastOf
<1>4. i \in i .. Len(x) /\ i <= j
  OBVIOUS
<1>5. Known(x, i)
  BY <1>4 DEF Known
<1> HIDE DEF IsLast
<1>6. LastOf(x, i) = j
  BY <1>1, <1>2, <1>3
<1> QED BY <1>5, <1>6

(* What starts a lexeme is one.                                            *)
LEMMA KnownIsAStarter ==
  ASSUME NEW x, NEW i \in Nat
  PROVE  Known(x, i) <=> x[i] \in Starters
<1>1. \A k \in i .. i : k = i
  OBVIOUS
<1>2. i # i + 1 /\ i \in i .. i
  OBVIOUS
<1>3. Known(x, i) => x[i] \in Starters
  BY <1>2, CharactersDiffer DEF Known, IsLexeme, Starters, WordChars
<1>4. x[i] \in Starters => Known(x, i)
  BY <1>1 DEF Known, IsLexeme, Starters, WordChars
<1> QED BY <1>3, <1>4

LEMMA OperatorEnds ==
  ASSUME NEW x, Len(x) \in Nat, NEW i \in 1 .. Len(x), x[i] \in Singles \cup Openers,
         i < Len(x) => <<x[i], x[i + 1]>> \notin Doubles
  PROVE  /\ Known(x, i) /\ LastOf(x, i) = i
         /\ TokenAt(x, i) = Plain(x[i], PlaceOf(x, i))
<1>1. x[i] \notin Digits /\ x[i] \notin Letters /\ x[i] \notin WordChars
  BY CharactersDiffer DEF WordChars
<1>2. ASSUME NEW m \in i .. Len(x) PROVE IsLexeme(x, i, m) <=> m <= i
  <2>1. i \in i .. m
    OBVIOUS
  <2>2. m = i + 1 => i < Len(x)
    OBVIOUS
  <2>3. IsLexeme(x, i, m) => m = i
    BY <1>1, <2>1, <2>2, Zenon DEF IsLexeme
  <2>4. m = i => IsLexeme(x, i, m)
    BY DEF IsLexeme
  <2> QED BY <2>3, <2>4
<1>3. Known(x, i) /\ LastOf(x, i) = i
  <2>1. i \in i .. Len(x)
    OBVIOUS
  <2> QED BY <1>2, <2>1, LastOfIs
<1>4. Spelling(x, i, i) = x[i]
  BY SpellingEquations
<1>5. TokenAt(x, i) = Plain(x[i], PlaceOf(x, i))
  BY <1>1, <1>3, <1>4, Zenon DEF TokenAt
<1> QED BY <1>3, <1>5

LEMMA DoubleOperatorEnds ==
  ASSUME NEW x, Len(x) \in Nat, NEW i \in 1 .. Len(x), i < Len(x),
         <<x[i], x[i + 1]>> \in Doubles
  PROVE  /\ Known(x, i) /\ LastOf(x, i) = i + 1
         /\ TokenAt(x, i) = Plain(x[i] \o x[i + 1], PlaceOf(x, i))
<1>1. /\ x[i] \in Openers
      /\ x[i] \notin Digits /\ x[i] \notin Letters /\ x[i] \notin WordChars
  BY CharactersDiffer DEF WordChars
<1>2. ASSUME NEW m \in i .. Len(x) PROVE IsLexeme(x, i, m) <=> m <= i + 1
  <2>1. i \in i .. m
    OBVIOUS
  <2>2. IsLexeme(x, i, m) => m = i \/ m = i + 1
    BY <1>1, <2>1, Zenon DEF IsLexeme
  <2>3. m = i \/ m = i + 1 => IsLexeme(x, i, m)
    BY <1>1 DEF IsLexeme
  <2> QED BY <2>2, <2>3
<1>3. Known(x, i) /\ LastOf(x, i) = i + 1
  <2>1. i + 1 \in i .. Len(x)
    OBVIOUS
  <2> QED BY <1>2, <2>1, LastOfIs
<1>4. Spelling(x, i, i + 1) = x[i] \o x[i + 1]
  <2>1. i + 1 \in i + 1 .. Len(x) /\ (i + 1) - 1 = i
    OBVIOUS
  <2> QED BY <2>1, SpellingEquations
<1>5. TokenAt(x, i) = Plain(x[i] \o x[i + 1], PlaceOf(x, i))
  BY <1>1, <1>3, <1>4, Zenon DEF TokenAt
<1> QED BY <1>3, <1>5

LEMMA NumberEnds ==
  ASSUME NEW x, Len(x) \in Nat, NEW i \in 1 .. Len(x), NEW j \in i .. Len(x),
         \A k \in i .. j : x[k] \in Digits, j < Len(x) => x[j + 1] \notin Digits
  PROVE  /\ Known(x, i) /\ LastOf(x, i) = j
         /\ TokenAt(x, i) = Token("number", "", Wrap(Numeral(x, i, j)), PlaceOf(x, i))
<1>0. i \in i .. j
  OBVIOUS
<1>1. x[i] \in Digits /\ x[i] \notin Singles /\ x[i] \notin Openers /\ x[i] \notin Letters
  BY <1>0, CharactersDiffer DEF WordChars
<1>2. ASSUME NEW m \in i .. Len(x) PROVE IsLexeme(x, i, m) <=> m <= j
  <2>1. IsLexeme(x, i, m) <=> \A k \in i .. m : x[k] \in Digits
    BY <1>1, CharactersDiffer, Zenon DEF IsLexeme
  <2>2. m <= j => \A k \in i .. m : x[k] \in Digits
    <3>1. m <= j => \A k \in i .. m : k \in i .. j
      OBVIOUS
    <3> QED BY <3>1, Zenon
  <2>3. ~ (m <= j) => j < Len(x) /\ j + 1 \in i .. m
    OBVIOUS
  <2> QED BY <2>1, <2>2, <2>3
<1>3. Known(x, i) /\ LastOf(x, i) = j
  BY <1>2, LastOfIs
<1>4. TokenAt(x, i) = Token("number", "", Wrap(Numeral(x, i, j)), PlaceOf(x, i))
  BY <1>1, <1>3, Zenon DEF TokenAt
<1> QED BY <1>3, <1>4

LEMMA WordEnds ==
  ASSUME NEW x, Len(x) \in Nat, NEW i \in 1 .. Len(x), NEW j \in i .. Len(x),
         x[i] \in Letters, \A k \in i .. j : x[k] \in WordChars,
         j < Len(x) => x[j + 1] \notin WordChars
  PROVE  /\ Known(x, i) /\ LastOf(x, i) = j
         /\ TokenAt(x, i) = IF Spelling(x, i, j) \in Keywords
                            THEN Plain(Spelling(x, i, j), PlaceOf(x, i))
                            ELSE Token("ident", Spelling(x, i, j), 0, PlaceOf(x, i))
<1>1. x[i] \notin Singles /\ x[i] \notin Openers /\ x[i] \notin Digits
  BY CharactersDiffer DEF WordChars
<1>2. ASSUME NEW m \in i .. Len(x) PROVE IsLexeme(x, i, m) <=> m <= j
  <2>0. i \in i .. m
    OBVIOUS
  <2>1. IsLexeme(x, i, m) <=> \A k \in i .. m : x[k] \in WordChars
    BY <1>1, <2>0, CharactersDiffer, Zenon DEF IsLexeme
  <2>2. m <= j => \A k \in i .. m : x[k] \in WordChars
    <3>1. m <= j => \A k \in i .. m : k \in i .. j
      OBVIOUS
    <3> QED BY <3>1, Zenon
  <2>3. ~ (m <= j) => j < Len(x) /\ j + 1 \in i .. m
    OBVIOUS
  <2> QED BY <2>1, <2>2, <2>3
<1>3. Known(x, i) /\ LastOf(x, i) = j
  BY <1>2, LastOfIs
<1>4. TokenAt(x, i) = IF Spelling(x, i, j) \in Keywords
                      THEN Plain(Spelling(x, i, j), PlaceOf(x, i))
                      ELSE Token("ident", Spelling(x, i, j), 0, PlaceOf(x, i))
  BY <1>1, <1>3, Zenon DEF TokenAt
<1> QED BY <1>3, <1>4

-----------------------------------------------------------------------------
(* Numbers. *)

LEMMA SameRemainder ==
  ASSUME NEW M \in Nat \ {0}, NEW q \in Int, NEW p \in Int,
         NEW r \in 0 .. M - 1, NEW s \in 0 .. M - 1, M * q + r = M * p + s
  PROVE  r = s
<1>1. M * (q - p) = s - r
  OBVIOUS
<1>2. CASE q - p >= 1
  <2>1. M * (q - p) >= M * 1
    BY <1>2
  <2> QED BY <1>1, <2>1
<1>3. CASE q - p <= -1
  <2>1. M * (q - p) <= M * (-1)
    BY <1>3
  <2> QED BY <1>1, <2>1
<1>4. CASE q = p
  BY <1>4
<1> QED BY <1>2, <1>3, <1>4

(* Wrapping around is reducing modulo the number of ints.                  *)
LEMMA WrapFacts ==
  ASSUME NEW n \in Int
  PROVE  /\ Wrap(n) \in MinInt .. -1 - MinInt
         /\ \E q \in Int : n = (-2 * MinInt) * q + Wrap(n)
<1> DEFINE M == -2 * MinInt
           a == n - MinInt
<1>1. M \in Nat \ {0} /\ a \in Int
  BY IntAssumption
<1>2. a % M \in 0 .. M - 1 /\ a \div M \in Int /\ a = M * (a \div M) + (a % M)
  <2> HIDE DEF M, a
  <2> QED BY <1>1
<1>3. Wrap(n) = (a % M) + MinInt
  BY DEF Wrap
<1>4. Wrap(n) \in MinInt .. -1 - MinInt
  <2> DEFINE r == a % M
  <2>1. r \in 0 .. M - 1
    BY <1>2
  <2> HIDE DEF r, a
  <2> QED BY <1>3, <2>1, IntAssumption DEF r
<1>5. n = M * (a \div M) + Wrap(n)
  <2> DEFINE r == a % M
             b == M * (a \div M)
  <2>1. a = b + r /\ b \in Int /\ r \in Int
    BY <1>1, <1>2
  <2>2. n = a + MinInt
    BY IntAssumption
  <2> HIDE DEF r, b, a
  <2>3. n = b + (r + MinInt)
    BY <2>1, <2>2, IntAssumption
  <2> QED BY <1>3, <2>3 DEF r, b
<1> QED BY <1>2, <1>4, <1>5

LEMMA WrapIs ==
  ASSUME NEW n \in Int, NEW w \in MinInt .. -1 - MinInt, NEW p \in Int,
         n = (-2 * MinInt) * p + w
  PROVE  Wrap(n) = w
<1> DEFINE M == -2 * MinInt
           r == Wrap(n) - MinInt
           s == w - MinInt
<1>1. PICK q \in Int : n = M * q + Wrap(n)
  BY WrapFacts
<1>2. M \in Nat \ {0} /\ M * p \in Int /\ M * q \in Int
  BY IntAssumption
<1>3. Wrap(n) \in MinInt .. -1 - MinInt
  BY WrapFacts
<1>4. r \in 0 .. M - 1 /\ s \in 0 .. M - 1
  BY <1>3, IntAssumption
<1>5. M * q + r = M * p + s
  <2> HIDE DEF M
  <2> QED BY <1>1, <1>2, <1>3, IntAssumption DEF M
<1>6. r = s
  <2> HIDE DEF M, r, s
  <2> QED BY <1>2, <1>4, <1>5, SameRemainder
<1> QED BY <1>3, <1>6, IntAssumption

(* A digit more: wrapping around at every digit is wrapping around once.   *)
LEMMA WrapStep ==
  ASSUME NEW n \in Int, NEW d \in Int
  PROVE  Wrap(Wrap(n) * 10 + d) = Wrap(10 * n + d)
<1> DEFINE M == -2 * MinInt
           w == Wrap(n)
           l == w * 10 + d
           v == Wrap(l)
<1>1. M \in Int
  BY IntAssumption
<1>2. w \in Int /\ l \in Int
  BY WrapFacts, IntAssumption
<1>3. PICK q \in Int : n = M * q + w
  BY WrapFacts
<1>4. v \in MinInt .. -1 - MinInt /\ \E p \in Int : l = M * p + v
  <2> HIDE DEF l
  <2> QED BY <1>2, WrapFacts
<1>5. PICK p \in Int : l = M * p + v
  BY <1>4
<1>6. v \in Int
  BY <1>4, IntAssumption
<1>7. 10 * n + d = M * (10 * q + p) + v
  <2>1. 10 * n = 10 * (M * q) + 10 * w
    <3>1. M * q \in Int
      BY <1>1
    <3> HIDE DEF M, w
    <3> QED BY <1>2, <1>3, <3>1
  <2>2. M * (10 * q + p) = 10 * (M * q) + M * p
    <3> HIDE DEF M
    <3> QED BY <1>1
  <2>3. M * q \in Int /\ M * p \in Int
    BY <1>1
  <2>4. l = w * 10 + d
    OBVIOUS
  <2> DEFINE e == M * q
             f == M * p
             g == M * (10 * q + p)
  <2>5. /\ e \in Int /\ f \in Int /\ w \in Int /\ v \in Int
        /\ 10 * n = 10 * e + 10 * w /\ g = 10 * e + f
        /\ l = f + v /\ l = w * 10 + d
    BY <1>2, <1>5, <1>6, <2>1, <2>2, <2>3, <2>4
  <2> HIDE DEF e, f, g, v, w, l
  <2>6. 10 * n + d = g + v
    BY <2>5
  <2> QED BY <2>6 DEF g
<1>8. 10 * n + d \in Int /\ 10 * q + p \in Int
  OBVIOUS
<1> HIDE DEF v
<1> QED BY <1>4, <1>7, <1>8, WrapIs DEF v

LEMMA WrapADigit ==
  ASSUME NEW d \in 0 .. 9
  PROVE  Wrap(d) = d
<1>1. d \in Int /\ d \in MinInt .. -1 - MinInt /\ 0 \in Int
  BY IntAssumption
<1>2. d = (-2 * MinInt) * 0 + d
  BY IntAssumption
<1> QED BY <1>1, <1>2, WrapIs

(* What digits spell is a number.                                          *)
LEMMA NumeralType ==
  ASSUME NEW x, Len(x) \in Nat, NEW i \in 1 .. Len(x), NEW j \in i .. Len(x),
         \A k \in i .. j : x[k] \in Digits
  PROVE  Numeral(x, i, j) \in Int
<1> DEFINE T == {d \in Nat : i + d <= j => Numeral(x, i, i + d) \in Int}
<1>1. \A k \in i .. j : DigitValue[x[k]] \in Int
  BY DigitFacts
<1>2. 0 \in T
  <2>1. i + 0 = i /\ i \in i .. j
    OBVIOUS
  <2>2. Numeral(x, i, i) \in Int
    BY <1>1, <2>1, NumeralEquations
  <2> QED BY <2>1, <2>2
<1>3. ASSUME NEW d \in Nat, d \in T PROVE d + 1 \in T
  <2> SUFFICES ASSUME i + (d + 1) <= j PROVE Numeral(x, i, i + (d + 1)) \in Int
    OBVIOUS
  <2>1. /\ i + (d + 1) \in i + 1 .. Len(x) /\ (i + (d + 1)) - 1 = i + d
        /\ i + (d + 1) \in i .. j /\ i + d <= j
    OBVIOUS
  <2>2. Numeral(x, i, i + (d + 1)) = 10 * Numeral(x, i, i + d) + DigitValue[x[i + (d + 1)]]
    BY <2>1, NumeralEquations
  <2>3. Numeral(x, i, i + d) \in Int /\ DigitValue[x[i + (d + 1)]] \in Int
    BY <1>1, <1>3, <2>1
  <2> QED BY <2>2, <2>3
<1>4. j - i \in T /\ i + (j - i) = j
  <2> HIDE DEF T
  <2> QED BY <1>2, <1>3, NaturalInduction
<1> QED BY <1>4

-----------------------------------------------------------------------------
(* Reading on. *)

\* The facts about what has been read that a step needs.
LEMMA ReadFacts ==
  ASSUME NEW x, Len(x) \in Nat, NEW k \in 0 .. Len(x), NEW made, ReadUpTo(x, k, made)
  PROVE  LET starts == StartsUpTo(x)[k] IN
         /\ starts \in Seq(Nat) /\ Len(starts) \in Nat /\ DOMAIN starts = 1 .. Len(starts)
         /\ \A n \in 1 .. Len(starts) : starts[n] \in 1 .. k
         /\ made = [n \in 1 .. Len(starts) |-> TokenAt(x, starts[n])]
         /\ \A n \in 1 .. Len(starts) : Known(x, starts[n]) /\ LastOf(x, starts[n]) <= k
         /\ starts # <<>> => Len(starts) \in 1 .. Len(starts)
<1> DEFINE starts == StartsUpTo(x)[k]
<1>1. starts \in Seq(Nat) /\ \A n \in 1 .. Len(starts) : starts[n] \in 1 .. k
  BY StartsFacts
<1>2. /\ made = [n \in 1 .. Len(starts) |-> TokenAt(x, starts[n])]
      /\ \A n \in 1 .. Len(starts) : Known(x, starts[n]) /\ LastOf(x, starts[n]) <= k
  BY DEF ReadUpTo
<1> HIDE DEF starts
<1>3. Len(starts) \in Nat /\ DOMAIN starts = 1 .. Len(starts)
  BY <1>1
<1>4. starts # <<>> => Len(starts) \in 1 .. Len(starts)
  BY <1>1
<1> QED BY <1>1, <1>2, <1>3, <1>4 DEF starts

\* LastOf is a position.
LEMMA LastOfType ==
  ASSUME NEW x, Len(x) \in Nat, NEW i \in 1 .. Len(x), Known(x, i)
  PROVE  LastOf(x, i) \in i .. Len(x)
<1> DEFINE Stops(j) == IsLexeme(x, i, j) /\ (j < Len(x) => ~ IsLexeme(x, i, j + 1))
           T == {d \in Nat : i + d <= Len(x) => IsLexeme(x, i, i + d)}
<1>1. \E j \in i .. Len(x) : Stops(j)
  <2> SUFFICES ASSUME \A j \in i .. Len(x) : ~ Stops(j) PROVE FALSE
    OBVIOUS
  <2>1. i + 0 = i /\ IsLexeme(x, i, i)
    BY DEF Known
  <2>2. 0 \in T
    BY <2>1
  <2>3. ASSUME NEW d \in Nat, d \in T PROVE d + 1 \in T
    <3> SUFFICES ASSUME i + (d + 1) <= Len(x) PROVE IsLexeme(x, i, i + (d + 1))
      OBVIOUS
    <3>1. i + d \in i .. Len(x) /\ i + d < Len(x) /\ (i + d) + 1 = i + (d + 1)
      OBVIOUS
    <3>2. IsLexeme(x, i, i + d)
      BY <2>3, <3>1
    <3> QED BY <3>1, <3>2
  <2>4. Len(x) - i \in T /\ i + (Len(x) - i) = Len(x) /\ Len(x) \in i .. Len(x)
    <3> HIDE DEF T
    <3> QED BY <2>2, <2>3, NaturalInduction
  <2>5. IsLexeme(x, i, Len(x))
    BY <2>4
  <2> QED BY <2>4, <2>5
<1>2. LastOf(x, i) = CHOOSE j \in i .. Len(x) : Stops(j)
  BY DEF LastOf
<1> HIDE DEF Stops
<1> QED BY <1>1, <1>2

\* The next visible character starts a lexeme.
LEMMA NextStarts ==
  ASSUME NEW x, Len(x) \in Nat, NEW i \in 1 .. Len(x), NEW made,
         ReadUpTo(x, i - 1, made), Visible(x, i)
  PROVE  /\ Starting(x, i, StartsUpTo(x)[i - 1])
         /\ StartsUpTo(x)[i] = Append(StartsUpTo(x)[i - 1], i)
<1> DEFINE starts == StartsUpTo(x)[i - 1]
<1>0. i - 1 \in 0 .. Len(x)
  OBVIOUS
<1>1. ASSUME starts # <<>> PROVE LastOf(x, starts[Len(starts)]) < i
  <2> DEFINE m == starts[Len(starts)]
  <2>1. Len(starts) \in 1 .. Len(starts)
    BY <1>0, <1>1, ReadFacts
  <2>2. m \in 1 .. i - 1 /\ Known(x, m) /\ LastOf(x, m) <= i - 1
    BY <1>0, <2>1, ReadFacts
  <2>3. m \in 1 .. Len(x)
    <3> HIDE DEF m
    <3> QED BY <2>2
  <2>4. LastOf(x, m) \in m .. Len(x)
    <3> HIDE DEF m
    <3> QED BY <2>2, <2>3, LastOfType
  <2> HIDE DEF m
  <2>5. LastOf(x, m) < i
    BY <2>2, <2>3, <2>4
  <2> QED BY <2>5 DEF m
<1>2. Starting(x, i, starts)
  BY <1>1, Zenon DEF Starting
<1> QED BY <1>2, StartsEquations, Zenon

\* What is not visible starts nothing.
LEMMA NothingRead ==
  ASSUME NEW x, Len(x) \in Nat, NEW k \in 1 .. Len(x), NEW made,
         ReadUpTo(x, k - 1, made), ~ Visible(x, k)
  PROVE  ReadUpTo(x, k, made)
<1> DEFINE starts == StartsUpTo(x)[k - 1]
<1>0. k - 1 \in 0 .. Len(x)
  OBVIOUS
<1>1. StartsUpTo(x)[k] = starts
  BY StartsEquations, Zenon DEF Starting
<1>2. /\ made = [n \in 1 .. Len(starts) |-> TokenAt(x, starts[n])]
      /\ \A n \in 1 .. Len(starts) : Known(x, starts[n]) /\ LastOf(x, starts[n]) <= k - 1
  BY <1>0, ReadFacts
<1>3. ASSUME NEW n \in 1 .. Len(starts) PROVE Known(x, starts[n]) /\ LastOf(x, starts[n]) <= k
  <2> DEFINE m == starts[n]
  <2>1. m \in 1 .. k - 1 /\ Known(x, m) /\ LastOf(x, m) <= k - 1
    BY <1>0, ReadFacts
  <2> HIDE DEF m
  <2>2. m \in 1 .. Len(x)
    BY <2>1
  <2>3. LastOf(x, m) \in m .. Len(x)
    BY <2>1, <2>2, LastOfType
  <2>4. Known(x, m) /\ LastOf(x, m) <= k
    BY <2>1, <2>2, <2>3
  <2> QED BY <2>4 DEF m
<1> HIDE DEF starts
<1> QED BY <1>1, <1>2, <1>3, Zenon DEF ReadUpTo

\* One element more.
LEMMA AppendIs ==
  ASSUME NEW L \in Nat, NEW S, NEW f \in [1 .. L -> S], NEW e \in S
  PROVE  Append(f, e) = [n \in 1 .. L + 1 |-> IF n = L + 1 THEN e ELSE f[n]]
<1> DEFINE r == Append(f, e)
<1>1. f \in Seq(S) /\ Len(f) = L
  OBVIOUS
<1>2. r \in Seq(S) /\ Len(r) = L + 1
  BY <1>1
<1>3. \A n \in 1 .. L : r[n] = f[n]
  BY <1>1
<1>4. r[L + 1] = e
  BY <1>1
<1> HIDE DEF r
<1>5. r = [n \in 1 .. L + 1 |-> r[n]]
  BY <1>2
<1>6. \A n \in 1 .. L + 1 : n = L + 1 \/ n \in 1 .. L
  OBVIOUS
<1>7. \A n \in 1 .. L + 1 : r[n] = IF n = L + 1 THEN e ELSE f[n]
  BY <1>3, <1>4, <1>6
<1> QED BY <1>5, <1>7 DEF r

\* A lexeme has been read.
LEMMA LexemeRead ==
  ASSUME NEW x, Len(x) \in Nat, NEW i \in 1 .. Len(x), NEW j \in i .. Len(x), NEW made,
         ReadUpTo(x, i - 1, made), ~ Open(x, i - 1),
         Known(x, i), LastOf(x, i) = j, \A k \in i .. j : x[k] \in Starters
  PROVE  ReadUpTo(x, j, Append(made, TokenAt(x, i))) /\ ~ Open(x, j)
<1> DEFINE starts == StartsUpTo(x)[i - 1]
           L == Len(starts)
           new == StartsUpTo(x)[j]
           S == {TokenAt(x, k) : k \in 1 .. Len(x)}
<1>0. i - 1 \in 0 .. Len(x) /\ i \in i .. j /\ i \in Nat \ {0} /\ j \in Nat /\ i <= j
  OBVIOUS
<1>1. ~ Open(x, j)
  BY <1>0, LexemesAreClosed
<1>2. Visible(x, i)
  <2>1. x[i] \in Starters
    BY <1>0
  <2>2. x[i] # "{" /\ x[i] \notin Blanks
    BY <2>1, CharactersDiffer
  <2> QED BY <2>2 DEF Visible, InComment
<1>3. new = Append(starts, i)
  BY <1>2, NextStarts, StartsOneLexeme
<1>a. starts \in Seq(Nat) /\ \A n \in 1 .. L : starts[n] \in 1 .. i - 1
  BY <1>0, StartsFacts
<1>b. /\ made = [n \in 1 .. L |-> TokenAt(x, starts[n])]
      /\ \A n \in 1 .. L : Known(x, starts[n]) /\ LastOf(x, starts[n]) <= i - 1
  BY DEF ReadUpTo
<1>4. /\ starts \in Seq(Nat) /\ L \in Nat
      /\ made = [n \in 1 .. L |-> TokenAt(x, starts[n])]
      /\ \A n \in 1 .. L : starts[n] \in 1 .. i - 1
      /\ \A n \in 1 .. L : Known(x, starts[n]) /\ LastOf(x, starts[n]) <= i - 1
  <2> HIDE DEF starts
  <2> QED BY <1>a, <1>b
<1> HIDE DEF starts, new, L
<1>5. Len(new) = L + 1 /\ new[L + 1] = i
  BY <1>0, <1>3, <1>4, AppendFacts, Zenon DEF L
<1>6. \A n \in 1 .. L : new[n] = starts[n]
  BY <1>0, <1>3, <1>4, AppendKeeps, Zenon DEF L
<1>7. \A n \in 1 .. L : TokenAt(x, starts[n]) \in S
  <2>1. \A n \in 1 .. L : starts[n] \in 1 .. Len(x)
    BY <1>4
  <2> QED BY <2>1
<1>8. TokenAt(x, i) \in S
  OBVIOUS
<1>9. Append(made, TokenAt(x, i)) = [n \in 1 .. L + 1 |-> IF n = L + 1 THEN TokenAt(x, i) ELSE made[n]]
  <2> HIDE DEF S
  <2>1. made \in [1 .. L -> S]
    BY <1>4, <1>7
  <2> QED BY <1>4, <1>8, <2>1, AppendIs
<1>10. \A n \in 1 .. L + 1 : n \in 1 .. L \/ n = L + 1
  BY <1>4
<1>11. Append(made, TokenAt(x, i)) = [n \in 1 .. L + 1 |-> TokenAt(x, new[n])]
  <2>1. ASSUME NEW n \in 1 .. L + 1
        PROVE  (IF n = L + 1 THEN TokenAt(x, i) ELSE made[n]) = TokenAt(x, new[n])
    <3>1. CASE n = L + 1
      BY <1>5, <3>1
    <3>2. CASE n # L + 1
      <4>1. n \in 1 .. L
        BY <1>10, <3>2
      <4> QED BY <1>4, <1>6, <3>2, <4>1
    <3> QED BY <3>1, <3>2
  <2> QED BY <1>9, <2>1
<1>12. ASSUME NEW n \in 1 .. L + 1 PROVE Known(x, new[n]) /\ LastOf(x, new[n]) <= j
  <2>1. CASE n = L + 1
    BY <1>5, <2>1
  <2>2. CASE n # L + 1
    <3> DEFINE m == starts[n]
    <3>1. n \in 1 .. L
      BY <1>10, <2>2
    <3>2. new[n] = m /\ m \in 1 .. i - 1 /\ Known(x, m) /\ LastOf(x, m) <= i - 1
      BY <1>4, <1>6, <3>1
    <3> HIDE DEF m
    <3>3. m \in 1 .. Len(x)
      BY <3>2
    <3>4. LastOf(x, m) \in m .. Len(x)
      BY <3>2, <3>3, LastOfType
    <3>5. LastOf(x, m) <= j
      BY <3>2, <3>3, <3>4
    <3> QED BY <3>2, <3>5
  <2> QED BY <2>1, <2>2
<1>13. ReadUpTo(x, j, Append(made, TokenAt(x, i)))
  BY <1>5, <1>11, <1>12, Zenon DEF ReadUpTo, new
<1> QED BY <1>1, <1>13

\* The whole text has been read.
LEMMA AllRead ==
  ASSUME NEW x, Len(x) \in Nat, NEW made, ReadUpTo(x, Len(x), made)
  PROVE  ~ HasUnknown(x) /\ made = Lexemes(x)
<1> DEFINE starts == StartsUpTo(x)[Len(x)]
<1>0. Len(x) \in 0 .. Len(x)
  OBVIOUS
<1>1. /\ Len(starts) \in Nat /\ DOMAIN starts = 1 .. Len(starts)
      /\ made = [n \in 1 .. Len(starts) |-> TokenAt(x, starts[n])]
      /\ \A n \in 1 .. Len(starts) : Known(x, starts[n])
  BY <1>0, ReadFacts, Zenon
<1>2. LexemeStarts(x) = starts
  BY DEF LexemeStarts
<1> HIDE DEF starts
<1>3. ~ HasUnknown(x)
  BY <1>1, <1>2, Zenon DEF HasUnknown
<1>4. {n \in DOMAIN starts : \A m \in 1 .. n : Known(x, starts[m])} = 1 .. Len(starts)
  BY <1>1
<1>5. Lexemes(x) = [n \in 1 .. Len(starts) |-> TokenAt(x, starts[n])]
  BY <1>2, <1>4, Zenon DEF Lexemes
<1> QED BY <1>1, <1>3, <1>5

\* Reading stops at character k, which starts no lexeme.
LEMMA StoppedAt ==
  ASSUME NEW x, Len(x) \in Nat, NEW k \in 1 .. Len(x), NEW made,
         ReadUpTo(x, k - 1, made), Visible(x, k), ~ Known(x, k)
  PROVE  HasUnknown(x) /\ made = Lexemes(x)
<1> DEFINE starts == StartsUpTo(x)[k - 1]
           L == Len(starts)
           new == StartsUpTo(x)[k]
           all == StartsUpTo(x)[Len(x)]
<1>0. k - 1 \in 0 .. Len(x) /\ k \in Nat /\ k \in 0 .. Len(x) /\ Len(x) \in k .. Len(x) /\ Len(x) \in 0 .. Len(x)
  OBVIOUS
<1>a. starts \in Seq(Nat)
  BY <1>0, StartsFacts
<1>b. /\ made = [n \in 1 .. L |-> TokenAt(x, starts[n])]
      /\ \A n \in 1 .. L : Known(x, starts[n])
  BY DEF ReadUpTo
<1>1. /\ starts \in Seq(Nat) /\ L \in Nat
      /\ made = [n \in 1 .. L |-> TokenAt(x, starts[n])]
      /\ \A n \in 1 .. L : Known(x, starts[n])
  <2> HIDE DEF starts
  <2> QED BY <1>a, <1>b
<1>2. new = Append(starts, k)
  BY NextStarts
<1>5. Len(new) <= Len(all) /\ \A n \in 1 .. Len(new) : all[n] = new[n]
  BY <1>0, StartsGrow
<1>6. all \in Seq(Nat)
  BY <1>0, StartsFacts
<1>7. LexemeStarts(x) = all
  BY DEF LexemeStarts
<1> HIDE DEF starts, new, all, L
<1>3. Len(new) = L + 1 /\ new[L + 1] = k
  BY <1>0, <1>1, <1>2, AppendFacts, Zenon DEF L
<1>4. \A n \in 1 .. L : new[n] = starts[n]
  BY <1>0, <1>1, <1>2, AppendKeeps, Zenon DEF L
<1>8. Len(all) \in Nat /\ DOMAIN all = 1 .. Len(all)
  BY <1>6
<1>9. L + 1 \in 1 .. Len(all) /\ all[L + 1] = k
  BY <1>1, <1>3, <1>5, <1>8
<1>10. ASSUME NEW n \in 1 .. L PROVE all[n] = starts[n]
  <2>1. n \in 1 .. Len(new)
    BY <1>1, <1>3
  <2> QED BY <1>4, <1>5, <2>1
<1>11. HasUnknown(x)
  BY <1>7, <1>8, <1>9, Zenon DEF HasUnknown
<1>12. {n \in DOMAIN all : \A m \in 1 .. n : Known(x, all[m])} = 1 .. L
  <2>1. ASSUME NEW n \in DOMAIN all, \A m \in 1 .. n : Known(x, all[m]) PROVE n \in 1 .. L
    <3>1. L + 1 \notin 1 .. n
      BY <1>9, <2>1
    <3> QED BY <1>1, <1>8, <3>1
  <2>2. ASSUME NEW n \in 1 .. L PROVE n \in DOMAIN all /\ \A m \in 1 .. n : Known(x, all[m])
    <3>1. \A m \in 1 .. n : m \in 1 .. L
      BY <1>1
    <3>2. n \in DOMAIN all
      BY <1>1, <1>8, <1>9
    <3> QED BY <1>1, <1>10, <3>1, <3>2
  <2> QED BY <2>1, <2>2
<1>13. Lexemes(x) = [n \in 1 .. L |-> TokenAt(x, all[n])]
  BY <1>7, <1>12, Zenon DEF Lexemes
<1>14. Lexemes(x) = made
  BY <1>1, <1>10, <1>13
<1> QED BY <1>11, <1>14

-----------------------------------------------------------------------------
(* The steps of the scanner. *)

LEMMA Basis ==
  ASSUME ScanInv
  PROVE  /\ Len(text) \in Nat /\ pos \in 0 .. Len(text) /\ pos \in Nat
         /\ \A k \in 1 .. Len(text) : text[k] # Eof
         /\ MaxCol \in Nat /\ Len(text) + 2 <= MaxCol
         /\ skip \in BOOLEAN
<1>1. IsText(text)
  BY DEF ScanInv, IsText
<1>2. Len(text) \in Nat /\ \A k \in 1 .. Len(text) : text[k] # Eof
  BY <1>1, TextFacts
<1>3. pos \in 0 .. Len(text) /\ Len(text) + 2 <= MaxCol /\ skip \in BOOLEAN
  BY DEF ScanInv
<1>4. pos \in Nat
  BY <1>2, <1>3
<1> QED BY <1>2, <1>3, <1>4, TextsAssumption

\* The next character.
LEMMA PeekFacts ==
  ASSUME ScanInv
  PROVE  \/ pos < Len(text) /\ pos + 1 \in 1 .. Len(text) /\ Peek = text[pos + 1] /\ Peek # Eof
         \/ pos = Len(text) /\ Peek = Eof
<1>1. CASE pos < Len(text)
  <2>1. pos + 1 \in 1 .. Len(text)
    BY <1>1, Basis
  <2>2. Peek = text[pos + 1]
    BY <1>1 DEF Peek
  <2>3. text[pos + 1] # Eof
    BY <2>1, Basis
  <2> QED BY <1>1, <2>1, <2>2, <2>3
<1>2. CASE ~ (pos < Len(text))
  <2>1. pos = Len(text)
    BY <1>2, Basis
  <2>2. Peek = Eof
    BY <1>2 DEF Peek
  <2> QED BY <2>1, <2>2
<1> QED BY <1>1, <1>2

LEMMA GetFacts ==
  ASSUME ScanInv, Get, NextIs(pos + 1)
  PROVE  <<line', col'>> = PlaceOf(text, pos + 2)
<1> DEFINE k == pos + 1
           place == PlaceOf(text, k)
<1>1. k \in Nat \ {0} /\ k + 1 = pos + 2
  BY Basis
<1>2. /\ place \in Nat \X (1 .. k)
      /\ PlaceOf(text, k + 1) = IF k <= Len(text) /\ text[k] = "\n" THEN <<place[1] + 1, 1>>
                                ELSE <<place[1], place[2] + 1>>
  <2> HIDE DEF k
  <2> QED BY <1>1, Basis, PlaceFacts
<1>3. <<line, col>> = place
  BY DEF NextIs
<1>4. line = place[1] /\ col = place[2] /\ col \in 1 .. k
  <2> HIDE DEF place, k
  <2> QED BY <1>2, <1>3
<1>5. col < MaxCol
  BY <1>1, <1>4, Basis
<1>6. Peek = "\n" <=> k <= Len(text) /\ text[k] = "\n"
  <2>1. CASE pos < Len(text)
    BY <2>1, <1>1, Basis DEF Peek
  <2>2. CASE ~ (pos < Len(text))
    <3>1. Peek = Eof /\ ~ (k <= Len(text))
      BY <2>2, Basis DEF Peek
    <3>2. Eof # "\n"
      BY EofDiffers, CharactersDiffer
    <3> QED BY <3>1, <3>2
  <2> QED BY <2>1, <2>2
<1>7. line' = Past(Peek)[1] /\ col' = Past(Peek)[2]
  BY DEF Get
<1>8. Past(Peek) = IF Peek = "\n" THEN <<line + 1, 1>> ELSE <<line, col + 1>>
  BY <1>5 DEF Past
<1> HIDE DEF k, place
<1> QED BY <1>1, <1>2, <1>4, <1>6, <1>7, <1>8

\* next() gets a character, where all up to it is read.
LEMMA Advance ==
  ASSUME ScanInv, ReadUpTo(text, pos, tokens), skip' \in BOOLEAN, skip' <=> Open(text, pos),
         at' = "skip", NextIs(pos + 1), start' = <<line, col>>, t' = Peek, Get,
         text' = text, tokens' = tokens
  PROVE  ScanInv'
<1>1. <<line', col'>> = PlaceOf(text, pos + 2) /\ start' = PlaceOf(text, pos + 1)
  BY GetFacts DEF NextIs
<1>2. CASE pos < Len(text) /\ pos + 1 \in 1 .. Len(text) /\ Peek = text[pos + 1]
  <2>1. /\ pos' = pos + 1 /\ pos' > 0 /\ pos' - 1 = pos /\ pos' + 1 = pos + 2
        /\ pos' \in 0 .. Len(text)
    BY <1>2, Basis DEF Get
  <2>2. InvSkip'
    BY <1>1, <1>2, <2>1 DEF InvSkip, NextIs
  <2> QED BY <2>1, <2>2 DEF ScanInv, TokensAreLexemes
<1>3. CASE pos = Len(text) /\ Peek = Eof
  <2>1. pos' = pos
    BY <1>3, Basis DEF Get
  <2>2. InvSkip'
    BY <1>1, <1>3, <2>1 DEF InvSkip, NextIs
  <2> QED BY <2>1, <2>2, Basis DEF ScanInv, TokensAreLexemes
<1> QED BY <1>2, <1>3, PeekFacts

\* A token has been made of the characters from i to j.
LEMMA TokenMade ==
  ASSUME ScanInv, NEW i \in 1 .. Len(text), NEW j \in i .. Len(text),
         ReadUpTo(text, i - 1, tokens), ~ Open(text, i - 1),
         Known(text, i), LastOf(text, i) = j, \A k \in i .. j : text[k] \in Starters,
         text' = text, tokens' = Append(tokens, TokenAt(text, i)), skip' = skip,
         at' = "next", pos' = j, <<line', col'>> = PlaceOf(text, j + 1)
  PROVE  ScanInv'
<1>1. ReadUpTo(text, j, tokens') /\ ~ Open(text, j)
  BY Basis, LexemeRead
<1>2. InvNext'
  BY <1>1 DEF InvNext, NextIs
<1>3. pos' \in 0 .. Len(text)
  BY Basis
<1> QED BY <1>2, <1>3, Basis DEF ScanInv, TokensAreLexemes

\* What next() knows of a character that it has got, unless it skips it.
LEMMA Gotten ==
  ASSUME ScanInv, at = "skip", ~ skip, t # Eof
  PROVE  /\ pos \in 1 .. Len(text) /\ t = text[pos]
         /\ ReadUpTo(text, pos - 1, tokens)
         /\ ~ Open(text, pos - 1)
         /\ start = PlaceOf(text, pos)
         /\ NextIs(pos + 1)
<1>1. InvSkip
  BY DEF ScanInv
<1>2. /\ pos > 0 /\ t = text[pos]
      /\ ReadUpTo(text, pos - 1, tokens)
      /\ skip <=> Open(text, pos - 1)
      /\ start = PlaceOf(text, pos)
      /\ NextIs(pos + 1)
  BY <1>1 DEF InvSkip
<1>3. pos \in 1 .. Len(text)
  BY <1>2, Basis
<1> QED BY <1>2, <1>3

LEMMA InitStep ==
  ASSUME ScanInit
  PROVE  ScanInv
<1>1. IsText(text) /\ Len(text) + 2 <= MaxCol
  BY TextsAssumption DEF ScanInit, IsText
<1>2. Len(text) \in Nat
  BY <1>1, TextFacts
<1>3. /\ pos = 0 /\ line = 1 /\ col = 1 /\ at = "next" /\ skip = FALSE /\ tokens = <<>>
  BY DEF ScanInit, Constructed
<1>4. StartsUpTo(text)[0] = <<>>
  BY <1>2, StartsEquations
<1>5. ReadUpTo(text, 0, <<>>)
  <2>1. <<>> = [n \in 1 .. Len(<<>>) |-> TokenAt(text, StartsUpTo(text)[0][n])] /\ 1 .. Len(<<>>) = {}
    OBVIOUS
  <2> QED BY <1>4, <2>1, Zenon DEF ReadUpTo
<1>6. ~ Open(text, 0)
  BY OpenFacts
<1>7. PlaceOf(text, 0 + 1) = <<1, 1>>
  <2>1. 0 + 1 = 1 /\ 1 \in Nat \ {0}
    OBVIOUS
  <2> QED BY <1>2, <2>1, PlaceFacts
<1>8. InvNext
  BY <1>3, <1>5, <1>6, <1>7 DEF InvNext, NextIs
<1>9. pos \in 0 .. Len(text)
  BY <1>2, <1>3
<1> QED BY <1>1, <1>3, <1>8, <1>9 DEF ScanInv, TokensAreLexemes, IsText

LEMMA BeginStep ==
  ASSUME ScanInv, Begin
  PROVE  ScanInv'
<1>1. ReadUpTo(text, pos, tokens) /\ ~ Open(text, pos) /\ NextIs(pos + 1)
  BY DEF Begin, ScanInv, InvNext
<1> QED BY <1>1, Advance DEF Begin

LEMMA SkipStep ==
  ASSUME ScanInv, Skip
  PROVE  ScanInv'
<1>0. InvSkip /\ at = "skip"
  BY DEF Skip, ScanInv
<1>1. CASE /\ pos > 0 /\ t = text[pos]
           /\ ReadUpTo(text, pos - 1, tokens)
           /\ skip <=> Open(text, pos - 1)
           /\ NextIs(pos + 1)
  <2>1. pos \in 1 .. Len(text) /\ pos \in Nat \ {0}
    BY <1>1, Basis
  <2>2. ~ Visible(text, pos)
    BY <1>1 DEF Visible, InComment, Skip
  <2>3. ReadUpTo(text, pos, tokens)
    BY <1>1, <2>1, <2>2, Basis, NothingRead
  <2>4. skip' <=> Open(text, pos)
    BY <1>1, <2>1, OpenFacts DEF InComment, Skip
  <2>5. skip' \in BOOLEAN
    BY DEF Skip
  <2> QED BY <1>0, <1>1, <2>3, <2>4, <2>5, Advance DEF Skip
<1>2. CASE /\ pos = Len(text) /\ t = Eof
           /\ ReadUpTo(text, pos, tokens)
           /\ skip <=> Open(text, pos)
  <2>1. skip /\ skip'
    BY <1>2, EofDiffers, Basis DEF Skip
  <2>a. t' = Peek /\ Get /\ text' = text /\ tokens' = tokens /\ at' = at
    BY DEF Skip
  <2>b. ~ (pos < Len(text))
    BY <1>2, Basis
  <2>2. pos' = pos /\ t' = Eof /\ text' = text /\ tokens' = tokens /\ at' = "skip"
    BY <1>0, <2>a, <2>b DEF Get, Peek
  <2>3. skip' = TRUE
    BY <2>1 DEF Skip
  <2>4. InvSkip'
    BY <1>2, <2>1, <2>2, <2>3 DEF InvSkip
  <2> QED BY <2>2, <2>3, <2>4, Basis DEF ScanInv, TokensAreLexemes
<1> QED BY <1>0, <1>1, <1>2 DEF InvSkip

LEMMA EndOfFileStep ==
  ASSUME ScanInv, EndOfFile
  PROVE  ScanInv'
<1>0. /\ at = "skip" /\ ~ skip /\ t = Eof /\ InvSkip
      /\ tokens' = Append(tokens, Plain("eof", <<line, col>>)) /\ at' = "done"
      /\ text' = text /\ pos' = pos /\ skip' = skip
  BY DEF EndOfFile, Starts, PushBack, ScanInv
<1>1. ~ (pos > 0 /\ t = text[pos])
  <2>1. pos > 0 => pos \in 1 .. Len(text)
    BY Basis
  <2> QED BY <1>0, <2>1, Basis
<1>2. pos = Len(text) /\ ReadUpTo(text, pos, tokens) /\ NextIs(pos + 2)
  BY <1>0, <1>1 DEF InvSkip
<1>3. ~ HasUnknown(text) /\ tokens = Lexemes(text)
  BY <1>2, Basis, AllRead
<1>4. tokens' = Append(Lexemes(text), Plain("eof", PlaceOf(text, Len(text) + 2)))
  BY <1>0, <1>2, <1>3 DEF NextIs
<1>5. TokensAreLexemes'
  BY <1>0, <1>3, <1>4 DEF TokensAreLexemes
<1> QED BY <1>0, <1>5, Basis DEF ScanInv

LEMMA UnknownStep ==
  ASSUME ScanInv, Unknown
  PROVE  ScanInv'
<1>0. /\ at = "skip" /\ ~ skip /\ t # Eof /\ t # "{" /\ t \notin Blanks /\ t \notin Starters
      /\ text' = text /\ pos' = pos /\ skip' = skip /\ tokens' = tokens /\ at' = "failed"
  BY DEF Unknown, Starters
<1>1. /\ pos \in 1 .. Len(text) /\ t = text[pos]
      /\ ReadUpTo(text, pos - 1, tokens) /\ ~ Open(text, pos - 1)
  BY <1>0, Gotten
<1>2. Visible(text, pos)
  BY <1>0, <1>1 DEF Visible, InComment
<1>3. ~ Known(text, pos)
  BY <1>0, <1>1, Basis, KnownIsAStarter
<1>4. HasUnknown(text) /\ tokens = Lexemes(text)
  BY <1>1, <1>2, <1>3, Basis, StoppedAt
<1>5. TokensAreLexemes'
  BY <1>0, <1>4 DEF TokensAreLexemes
<1> QED BY <1>0, <1>5, Basis DEF ScanInv

\* An operator, or the first of two characters that are none together.
LEMMA OperatorStep ==
  ASSUME ScanInv, SingleOperator \/ Opener
  PROVE  ScanInv'
<1>0. /\ at = "skip" /\ ~ skip /\ t \in Singles \cup Openers /\ <<t, Peek>> \notin Doubles
      /\ tokens' = Append(tokens, Plain(t, start)) /\ at' = "next"
      /\ text' = text /\ pos' = pos /\ skip' = skip /\ line' = line /\ col' = col
  BY CharactersDiffer DEF SingleOperator, Opener, Starts, Return, PushBack
<1>a. t # Eof
  BY <1>0, EofDiffers DEF Starters
<1>1. /\ pos \in 1 .. Len(text) /\ t = text[pos]
      /\ ReadUpTo(text, pos - 1, tokens) /\ ~ Open(text, pos - 1)
      /\ start = PlaceOf(text, pos) /\ NextIs(pos + 1)
  BY <1>0, <1>a, Gotten
<1>2. pos < Len(text) => <<text[pos], text[pos + 1]>> \notin Doubles
  BY <1>0, <1>1 DEF Peek
<1>3. /\ Known(text, pos) /\ LastOf(text, pos) = pos
      /\ TokenAt(text, pos) = Plain(text[pos], PlaceOf(text, pos))
  BY <1>0, <1>1, <1>2, Basis, OperatorEnds
<1>4. pos \in pos .. Len(text) /\ \A k \in pos .. pos : k = pos
  BY <1>1, Basis
<1>5. \A k \in pos .. pos : text[k] \in Starters
  BY <1>0, <1>1, <1>4 DEF Starters
<1>6. <<line', col'>> = PlaceOf(text, pos + 1)
  BY <1>0, <1>1 DEF NextIs
<1> QED BY <1>0, <1>1, <1>3, <1>4, <1>5, <1>6, TokenMade

LEMMA DoubleOperatorStep ==
  ASSUME ScanInv, DoubleOperator
  PROVE  ScanInv'
<1>0. /\ at = "skip" /\ ~ skip /\ t \in Openers /\ <<t, Peek>> \in Doubles /\ Get
      /\ tokens' = Append(tokens, Plain(t \o Peek, start)) /\ at' = "next"
      /\ text' = text /\ skip' = skip
  BY DEF DoubleOperator, Starts, Return, PushBack
<1>a. t # Eof /\ Peek # Eof
  BY <1>0, EofDiffers, CharactersDiffer DEF Starters
<1>1. /\ pos \in 1 .. Len(text) /\ t = text[pos]
      /\ ReadUpTo(text, pos - 1, tokens) /\ ~ Open(text, pos - 1)
      /\ start = PlaceOf(text, pos) /\ NextIs(pos + 1)
  BY <1>0, <1>a, Gotten
<1>2. pos < Len(text) /\ pos + 1 \in 1 .. Len(text) /\ Peek = text[pos + 1]
  BY <1>a, PeekFacts
<1>3. /\ Known(text, pos) /\ LastOf(text, pos) = pos + 1
      /\ TokenAt(text, pos) = Plain(text[pos] \o text[pos + 1], PlaceOf(text, pos))
  BY <1>0, <1>1, <1>2, Basis, DoubleOperatorEnds
<1>4. pos + 1 \in pos .. Len(text) /\ \A k \in pos .. pos + 1 : k = pos \/ k = pos + 1
  BY <1>1, <1>2, Basis
<1>5. \A k \in pos .. pos + 1 : text[k] \in Starters
  <2>1. text[pos] \in Starters /\ text[pos + 1] \in Starters
    BY <1>0, <1>1, <1>2, CharactersDiffer DEF Starters
  <2> QED BY <1>4, <2>1
<1>6. pos' = pos + 1 /\ (pos + 1) + 1 = pos + 2
  BY <1>0, <1>2, Basis DEF Get
<1>7. <<line', col'>> = PlaceOf(text, (pos + 1) + 1)
  BY <1>0, <1>1, <1>6, GetFacts
<1>8. tokens' = Append(tokens, TokenAt(text, pos))
  BY <1>0, <1>1, <1>2, <1>3
<1> QED BY <1>0, <1>1, <1>3, <1>4, <1>5, <1>6, <1>7, <1>8, TokenMade

\* The characters from i to j of a lexeme have been read.
LEMMA LexemeGrows ==
  ASSUME ScanInv, NEW i \in 1 .. Len(text), NEW j \in i .. Len(text),
         ReadUpTo(text, i - 1, tokens), ~ Open(text, i - 1), start = PlaceOf(text, i),
         text' = text, tokens' = tokens, start' = start, skip' = skip,
         pos' = j, <<line', col'>> = PlaceOf(text, j + 1),
         \/ /\ at' = "number"
            /\ \A k \in i .. j : text[k] \in Digits
            /\ lexeme' = Wrap(Numeral(text, i, j))
         \/ /\ at' = "word"
            /\ text[i] \in Letters /\ \A k \in i .. j : text[k] \in WordChars
            /\ lexeme' = Spelling(text, i, j)
  PROVE  ScanInv'
<1>1. InvLexeme(i)'
  BY DEF InvLexeme, NextIs
<1>2. i \in 1 .. pos' /\ pos' \in 0 .. Len(text)
  BY Basis
<1>3. \E k \in 1 .. pos' : InvLexeme(k)'
  BY <1>1, <1>2, Zenon
<1> QED BY <1>2, <1>3, Basis DEF ScanInv, TokensAreLexemes

LEMMA CallStep ==
  ASSUME ScanInv, Number \/ Word
  PROVE  ScanInv'
<1>0. /\ at = "skip" /\ ~ skip /\ t \in WordChars
      /\ \/ t \in Digits /\ at' = "number" /\ lexeme' = DigitValue[t]
         \/ t \in Letters /\ at' = "word" /\ lexeme' = t
      /\ UNCHANGED <<text, pos, line, col, t, skip, start, tokens>>
  BY DEF Number, Word, Starts, Call, WordChars
<1>a. t # Eof
  BY <1>0, EofDiffers DEF Starters
<1>1. /\ pos \in 1 .. Len(text) /\ t = text[pos]
      /\ ReadUpTo(text, pos - 1, tokens) /\ ~ Open(text, pos - 1)
      /\ start = PlaceOf(text, pos) /\ NextIs(pos + 1)
  BY <1>0, <1>a, Gotten
<1>2. pos \in pos .. Len(text) /\ \A k \in pos .. pos : k = pos
  BY <1>1, Basis
<1>3. <<line', col'>> = PlaceOf(text, pos + 1)
  BY <1>0, <1>1 DEF NextIs
<1>4. \/ /\ at' = "number"
         /\ \A k \in pos .. pos : text[k] \in Digits
         /\ lexeme' = Wrap(Numeral(text, pos, pos))
      \/ /\ at' = "word"
         /\ text[pos] \in Letters /\ \A k \in pos .. pos : text[k] \in WordChars
         /\ lexeme' = Spelling(text, pos, pos)
  <2>1. CASE t \in Digits /\ at' = "number" /\ lexeme' = DigitValue[t]
    <3>1. Numeral(text, pos, pos) = DigitValue[t]
      BY <1>1, Basis, NumeralEquations
    <3>2. Wrap(Numeral(text, pos, pos)) = DigitValue[t]
      BY <2>1, <3>1, DigitFacts, WrapADigit
    <3> QED BY <1>1, <1>2, <2>1, <3>2
  <2>2. CASE t \in Letters /\ at' = "word" /\ lexeme' = t
    <3>1. Spelling(text, pos, pos) = t
      BY <1>1, Basis, SpellingEquations
    <3> QED BY <1>0, <1>1, <1>2, <2>2, <3>1
  <2> QED BY <1>0, <2>1, <2>2
<1> QED BY <1>0, <1>1, <1>2, <1>3, <1>4, LexemeGrows

LEMMA MoreStep ==
  ASSUME ScanInv, MoreNumber \/ MoreWord
  PROVE  ScanInv'
<1>0. /\ at \in {"number", "word"} /\ at' = at /\ Peek \in WordChars /\ Get
      /\ at = "number" => Peek \in Digits /\ lexeme' = Wrap(lexeme * 10 + DigitValue[Peek])
      /\ at = "word" => lexeme' = lexeme \o Peek
      /\ UNCHANGED <<text, t, skip, start, tokens>>
  BY DEF MoreNumber, MoreWord, More, WordChars
<1>1. PICK i \in 1 .. pos : InvLexeme(i)
  BY <1>0 DEF ScanInv
<1>2. /\ ReadUpTo(text, i - 1, tokens) /\ ~ Open(text, i - 1) /\ start = PlaceOf(text, i)
      /\ NextIs(pos + 1)
  BY <1>1 DEF InvLexeme
<1>3. Peek # Eof
  BY <1>0, EofDiffers DEF Starters
<1> DEFINE j == pos + 1
<1>4. pos < Len(text) /\ j \in 1 .. Len(text) /\ Peek = text[j]
  BY <1>3, PeekFacts
<1>5. /\ i \in 1 .. Len(text) /\ j \in i .. Len(text) /\ pos \in i .. Len(text)
      /\ j \in i + 1 .. Len(text) /\ j - 1 = pos /\ j + 1 = pos + 2
      /\ \A k \in i .. j : k \in i .. pos \/ k = j
  BY <1>4, Basis
<1>6. pos' = j
  BY <1>0, <1>4 DEF Get
<1>7. <<line', col'>> = PlaceOf(text, j + 1)
  BY <1>0, <1>2, <1>5, GetFacts
<1> HIDE DEF j
<1>8. CASE at = "number"
  <2>1. (\A k \in i .. pos : text[k] \in Digits) /\ lexeme = Wrap(Numeral(text, i, pos))
    BY <1>1, <1>8 DEF InvLexeme
  <2>2. \A k \in i .. j : text[k] \in Digits
    BY <1>0, <1>4, <1>5, <1>8, <2>1
  <2>3. Numeral(text, i, j) = 10 * Numeral(text, i, pos) + DigitValue[text[j]]
    BY <1>5, Basis, NumeralEquations
  <2>4. Numeral(text, i, pos) \in Int /\ DigitValue[text[j]] \in Int
    <3>1. Numeral(text, i, pos) \in Int
      BY <1>5, <2>1, Basis, NumeralType
    <3>2. text[j] \in Digits
      BY <1>0, <1>4, <1>8
    <3> QED BY <3>1, <3>2, DigitFacts
  <2>5. lexeme' = Wrap(Numeral(text, i, j))
    BY <1>0, <1>4, <1>8, <2>1, <2>3, <2>4, WrapStep
  <2> QED BY <1>0, <1>2, <1>5, <1>6, <1>7, <1>8, <2>2, <2>5, LexemeGrows
<1>9. CASE at = "word"
  <2>1. /\ text[i] \in Letters /\ \A k \in i .. pos : text[k] \in WordChars
        /\ lexeme = Spelling(text, i, pos)
    BY <1>1, <1>9 DEF InvLexeme
  <2>2. \A k \in i .. j : text[k] \in WordChars
    BY <1>0, <1>4, <1>5, <2>1
  <2>3. Spelling(text, i, j) = Spelling(text, i, pos) \o text[j]
    BY <1>5, Basis, SpellingEquations
  <2>4. lexeme' = Spelling(text, i, j)
    BY <1>0, <1>4, <1>9, <2>1, <2>3
  <2> QED BY <1>0, <1>2, <1>5, <1>6, <1>7, <1>9, <2>1, <2>2, <2>4, LexemeGrows
<1> QED BY <1>0, <1>8, <1>9

LEMMA EndStep ==
  ASSUME ScanInv, EndNumber \/ EndWord
  PROVE  ScanInv'
<1>0. /\ at \in {"number", "word"} /\ at' = "next"
      /\ UNCHANGED <<text, pos, line, col, skip>>
      /\ at = "number" => /\ Peek \notin Digits
                          /\ tokens' = Append(tokens, Token("number", "", lexeme, start))
      /\ at = "word" => /\ Peek \notin WordChars
                        /\ tokens' = Append(tokens, IF lexeme \in Keywords THEN Plain(lexeme, start)
                                                    ELSE Token("ident", lexeme, 0, start))
  BY DEF EndNumber, EndWord, Return, PushBack
<1>1. PICK i \in 1 .. pos : InvLexeme(i)
  BY <1>0 DEF ScanInv
<1>2. /\ ReadUpTo(text, i - 1, tokens) /\ ~ Open(text, i - 1) /\ start = PlaceOf(text, i)
      /\ NextIs(pos + 1)
  BY <1>1 DEF InvLexeme
<1>3. i \in 1 .. Len(text) /\ pos \in i .. Len(text)
  BY Basis
<1>4. <<line', col'>> = PlaceOf(text, pos + 1)
  BY <1>0, <1>2 DEF NextIs
<1>5. pos < Len(text) => Peek = text[pos + 1]
  BY DEF Peek
<1>6. ASSUME Known(text, i), LastOf(text, i) = pos, \A k \in i .. pos : text[k] \in WordChars,
             tokens' = Append(tokens, TokenAt(text, i))
      PROVE  ScanInv'
  <2>1. \A k \in i .. pos : text[k] \in Starters
    BY <1>6 DEF Starters
  <2> QED BY <1>0, <1>2, <1>3, <1>4, <1>6, <2>1, TokenMade
<1>7. CASE at = "number"
  <2>1. (\A k \in i .. pos : text[k] \in Digits) /\ lexeme = Wrap(Numeral(text, i, pos))
    BY <1>1, <1>7 DEF InvLexeme
  <2>2. pos < Len(text) => text[pos + 1] \notin Digits
    BY <1>0, <1>5, <1>7
  <2>3. /\ Known(text, i) /\ LastOf(text, i) = pos
        /\ TokenAt(text, i) = Token("number", "", Wrap(Numeral(text, i, pos)), PlaceOf(text, i))
    BY <1>3, <2>1, <2>2, Basis, NumberEnds
  <2>4. \A k \in i .. pos : text[k] \in WordChars
    BY <2>1 DEF WordChars
  <2> QED BY <1>0, <1>2, <1>6, <1>7, <2>1, <2>3, <2>4
<1>8. CASE at = "word"
  <2>1. /\ text[i] \in Letters /\ \A k \in i .. pos : text[k] \in WordChars
        /\ lexeme = Spelling(text, i, pos)
    BY <1>1, <1>8 DEF InvLexeme
  <2>2. pos < Len(text) => text[pos + 1] \notin WordChars
    BY <1>0, <1>5, <1>8
  <2>3. /\ Known(text, i) /\ LastOf(text, i) = pos
        /\ TokenAt(text, i) = IF Spelling(text, i, pos) \in Keywords
                              THEN Plain(Spelling(text, i, pos), PlaceOf(text, i))
                              ELSE Token("ident", Spelling(text, i, pos), 0, PlaceOf(text, i))
    BY <1>3, <2>1, <2>2, Basis, WordEnds
  <2>4. tokens' = Append(tokens, TokenAt(text, i))
    BY <1>0, <1>2, <1>8, <2>1, <2>3
  <2> QED BY <1>6, <2>1, <2>3, <2>4
<1> QED BY <1>0, <1>7, <1>8

-----------------------------------------------------------------------------
(* The results. *)

(* What the scanner has read, made and got is at any time what the text    *)
(* has up to there: in next(), in the skipping of white space and comments *)
(* and in the middle of a number or word.                                  *)
THEOREM ReadsTheText == ScanSpec => []ScanInv
<1>1. ScanInit => ScanInv
  BY InitStep
<1>2. ScanInv /\ [ScanNext]_scanVars => ScanInv'
  <2> SUFFICES ASSUME ScanInv, [ScanNext]_scanVars PROVE ScanInv'
    OBVIOUS
  <2>1. CASE ScanNext
    BY <2>1, BeginStep, SkipStep, EndOfFileStep, OperatorStep, DoubleOperatorStep, CallStep,
       MoreStep, EndStep, UnknownStep DEF ScanNext
  <2>2. CASE UNCHANGED scanVars
    BY <2>2 DEF scanVars, ScanInv, InvNext, InvSkip, InvLexeme, NextIs, TokensAreLexemes
  <2> QED BY <2>1, <2>2
<1> QED BY <1>1, <1>2, PTL DEF ScanSpec

(* For every text, of any length, and every width of an int: when the      *)
(* constructor of Scanner returns, the tokens are the longest lexemes      *)
(* outside of comments with their values and places, then eof; when it     *)
(* throws, a character starts no lexeme, and the tokens are those before   *)
(* it.                                                                     *)
THEOREM TokensCorrect == ScanSpec => []TokensAreLexemes
<1>1. ScanInv => TokensAreLexemes
  BY DEF ScanInv
<1> QED BY <1>1, ReadsTheText, PTL
=============================================================================
