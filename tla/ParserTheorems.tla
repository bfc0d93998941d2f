---------------------------- MODULE ParserTheorems ----------------------------
(***************************************************************************)
(* The cursor of the parser, for every sequence of tokens that ends with   *)
(* eof: it stays on a token, and what is taken back is an identifier.      *)
(***************************************************************************)
EXTENDS Parser, SequenceTheorems, TLAPS

\* The calls that may be anywhere on the stack: all but that of what follows
\* the identifier at the start of a statement.
Methods == {"module", "functions", "declarations", "main", "block", "statements", "statement",
            "else", "E3", "call", "newList", "collect"}

Kinds == {"var", "const", "function", "block", "write", "read", "return", "assignment", "if",
          "while", "binary", "unary", "call", "variable"}

Element ==
  [at : Methods] \cup [at : {"expect", "optional"}, type : Types]
    \cup [at : {"build"}, kind : Kinds, op : Types \cup {""}]
    \cup [at : {"level", "operators"}, level : 1 .. 3]

Anywhere ==
  Element \cup [at : {"more", "listOf"}, calls : Seq(Element)]
          \cup [at : {"makeModule"}, before : BOOLEAN, token : Types]

Identifier == Expect("ident")
Assignment == Parse("assignment")

(* The call that may take a token back is on the stack only as the next    *)
(* one, right after an identifier has been taken, or as the one after the  *)
(* call that takes it.                                                     *)
StackInv ==
  \/ todo \in Seq(Anywhere)
  \/ \E rest \in Seq(Anywhere) :
       /\ todo = <<Assignment>> \o rest
       /\ current > 1
       /\ tokens[current - 1].type = "ident"
  \/ \E rest \in Seq(Anywhere) : todo = <<Identifier, Assignment>> \o rest

CursorInv == WellFormed(tokens) /\ CursorInside /\ StackInv

-----------------------------------------------------------------------------
LEMMA TokenFacts ==
  ASSUME CursorInv
  PROVE  /\ Len(tokens) \in Nat
         /\ current \in Nat /\ current >= 1 /\ current <= Len(tokens)
         /\ TopType \in Types
         /\ TopType # "eof" => current + 1 \in 1 .. Len(tokens)
<1> DEFINE Token == [type : Types, symbol : STRING, value : Int, line : Nat, col : Nat]
<1>1. tokens \in Seq(Token) /\ tokens[Len(tokens)].type = "eof" /\ current \in 1 .. Len(tokens)
  BY DEF CursorInv, WellFormed, CursorInside
<1> HIDE DEF Token
<1>2. Len(tokens) \in Nat /\ tokens[current] \in Token
  BY <1>1
<1>3. TopType \in Types
  BY <1>2 DEF Token, TopType
<1>4. TopType # "eof" => current # Len(tokens)
  BY <1>1 DEF TopType
<1> QED BY <1>1, <1>2, <1>3, <1>4

\* The calls are elements.
LEMMA CallFacts ==
  /\ \A type \in Types : Expect(type) \in Element /\ Optional(type) \in Element
  /\ \A kind \in Kinds : Build(kind) \in Element /\ \A op \in Types : BuildOp(kind, op) \in Element
  /\ \A method \in Methods : Parse(method) \in Element
  /\ Collect \in Element /\ NewList \in Element
  /\ \A k \in 1 .. 3 : Level(k) \in Element /\ Operators(k) \in Element
  /\ Expression \in Element /\ OptionalSemicolon \in Element
  /\ \A made \in Seq(Element) : More(made) \in Anywhere /\ ListOf(made) \in Anywhere
  /\ Element \subseteq Anywhere
<1>1. \A type \in Types : Expect(type) \in Element /\ Optional(type) \in Element
  BY DEF Expect, Optional, Element
<1>2. \A kind \in Kinds : Build(kind) \in Element /\ \A op \in Types : BuildOp(kind, op) \in Element
  <2>1. \A kind \in Kinds, op \in Types \cup {""} : BuildOp(kind, op) \in Element
    BY DEF BuildOp, Element
  <2>2. \A kind : Build(kind) = BuildOp(kind, "")
    BY DEF Build, BuildOp
  <2> QED BY <2>1, <2>2
<1>3. \A method \in Methods : Parse(method) \in Element
  BY DEF Parse, Element
<1>4. Collect \in Element /\ NewList \in Element
  BY DEF Collect, NewList, Element, Methods
<1>5. \A k \in 1 .. 3 : Level(k) \in Element /\ Operators(k) \in Element
  BY DEF Level, Operators, Element
<1>6. \A made \in Seq(Element) : More(made) \in Anywhere /\ ListOf(made) \in Anywhere
  <2> SUFFICES ASSUME NEW made \in Seq(Element)
               PROVE  More(made) \in Anywhere /\ ListOf(made) \in Anywhere
    OBVIOUS
  <2> HIDE DEF Element
  <2> QED BY DEF More, ListOf, Anywhere
<1>7. Element \subseteq Anywhere
  BY DEF Anywhere
<1>8. Expression \in Element
  BY <1>5 DEF Expression
<1>9. OptionalSemicolon \in Element
  BY <1>1, Zenon DEF OptionalSemicolon, Types
<1> QED BY <1>1, <1>2, <1>3, <1>4, <1>5, <1>6, <1>7, <1>8, <1>9

\* What is known of a call from where it is on the stack.
LEMMA HeadFacts ==
  ASSUME NEW call \in Anywhere
  PROVE  /\ call.at # "assignment"
         /\ call.at \in {"level", "operators"} => call.level \in 1 .. 3
         /\ call.at \in {"more", "listOf"} => call.calls \in Seq(Element)
<1> HIDE DEF Element
<1>1. CASE call \in Element
  BY <1>1 DEF Element, Methods
<1>2. CASE call \notin Element
  BY <1>2 DEF Anywhere
<1> QED BY <1>1, <1>2

\* A list with its commas.
LEMMA SeparatedFacts ==
  ASSUME NEW made \in Seq(Element)
  PROVE  Separated(made) \in Seq(Anywhere)
<1>1. made \in Seq(Anywhere) /\ <<More(made)>> \in Seq(Anywhere)
  BY CallFacts
<1> QED BY <1>1, ConcatProperties DEF Separated

\* What the methods call is what may be anywhere on the stack.
LEMMA MadeFacts ==
  /\ <<NewList, Parse("functions"), NewList, Parse("declarations"), Parse("main")>> \in Seq(Anywhere)
  /\ <<Expect("function"), Expect("ident"), Expect("("), NewList,
       ListOf(<<Expect("ident"), Collect>>), Expect(")"),
       Parse("statement"), OptionalSemicolon, Build("function"), Collect, Parse("functions")>>
       \in Seq(Anywhere)
  /\ Separated(<<Expect("ident"), Build("var"), Collect>>) \in Seq(Anywhere)
  /\ Separated(<<Expect("ident"), Expect("="), Expect("number"), Build("const"), Collect>>)
       \in Seq(Anywhere)
  /\ <<Expect("var")>> \in Seq(Anywhere) /\ <<Expect("const")>> \in Seq(Anywhere)
  /\ <<OptionalSemicolon, Parse("declarations")>> \in Seq(Anywhere)
  /\ <<Expect("begin"), NewList, Parse("declarations"), NewList, Parse("statements"),
       Expect("end"), Build("block")>> \in Seq(Anywhere)
  /\ <<Parse("statement"), Collect, Parse("statements")>> \in Seq(Anywhere)
  /\ <<Parse("statement")>> \in Seq(Anywhere)
  /\ <<Build("variable")>> \in Seq(Anywhere)
  /\ <<Expect("("), NewList, ListOf(<<Expression, Collect>>), Expect(")"), Build("call")>>
       \in Seq(Anywhere)
<1>1. /\ Expect("ident") \in Element /\ Expect("=") \in Element /\ Expect("number") \in Element
      /\ Expect("function") \in Element /\ Expect("(") \in Element /\ Expect(")") \in Element
      /\ Expect("var") \in Element /\ Expect("const") \in Element
      /\ Expect("begin") \in Element /\ Expect("end") \in Element
  BY CallFacts DEF Types
<1>2. /\ Build("var") \in Element /\ Build("const") \in Element /\ Build("function") \in Element
      /\ Build("block") \in Element /\ Build("variable") \in Element /\ Build("call") \in Element
  BY CallFacts DEF Kinds
<1>3. /\ Parse("functions") \in Element /\ Parse("declarations") \in Element
      /\ Parse("main") \in Element /\ Parse("statement") \in Element
      /\ Parse("statements") \in Element
  BY CallFacts DEF Methods
<1>4. /\ NewList \in Element /\ Collect \in Element
      /\ Expression \in Element /\ OptionalSemicolon \in Element
  BY CallFacts
<1>5. Element \subseteq Anywhere /\ \A made \in Seq(Element) : ListOf(made) \in Anywhere
  BY CallFacts
<1>6. /\ <<Expect("ident"), Collect>> \in Seq(Element)
      /\ <<Expression, Collect>> \in Seq(Element)
      /\ <<Expect("ident"), Build("var"), Collect>> \in Seq(Element)
      /\ <<Expect("ident"), Expect("="), Expect("number"), Build("const"), Collect>>
           \in Seq(Element)
  BY <1>1, <1>2, <1>4
<1>7. /\ ListOf(<<Expect("ident"), Collect>>) \in Anywhere
      /\ ListOf(<<Expression, Collect>>) \in Anywhere
  BY <1>5, <1>6
<1>8. /\ Separated(<<Expect("ident"), Build("var"), Collect>>) \in Seq(Anywhere)
      /\ Separated(<<Expect("ident"), Expect("="), Expect("number"), Build("const"), Collect>>)
           \in Seq(Anywhere)
  BY <1>6, SeparatedFacts
<1> HIDE DEF Element, Anywhere
<1>9. <<NewList, Parse("functions"), NewList, Parse("declarations"), Parse("main")>>
        \in Seq(Anywhere)
  BY <1>3, <1>4, <1>5
<1>10. <<Expect("function"), Expect("ident"), Expect("("), NewList,
         ListOf(<<Expect("ident"), Collect>>), Expect(")"),
         Parse("statement"), OptionalSemicolon, Build("function"), Collect, Parse("functions")>>
         \in Seq(Anywhere)
  BY <1>1, <1>2, <1>3, <1>4, <1>5, <1>7
<1>11. <<Expect("begin"), NewList, Parse("declarations"), NewList, Parse("statements"),
         Expect("end"), Build("block")>> \in Seq(Anywhere)
  BY <1>1, <1>2, <1>3, <1>4, <1>5
<1>12. /\ <<Expect("var")>> \in Seq(Anywhere) /\ <<Expect("const")>> \in Seq(Anywhere)
       /\ <<OptionalSemicolon, Parse("declarations")>> \in Seq(Anywhere)
       /\ <<Parse("statement"), Collect, Parse("statements")>> \in Seq(Anywhere)
       /\ <<Parse("statement")>> \in Seq(Anywhere)
       /\ <<Build("variable")>> \in Seq(Anywhere)
  BY <1>1, <1>2, <1>3, <1>4, <1>5
<1>13. <<Expect("("), NewList, ListOf(<<Expression, Collect>>), Expect(")"), Build("call")>>
         \in Seq(Anywhere)
  BY <1>1, <1>2, <1>4, <1>5, <1>7
<1> QED BY <1>8, <1>9, <1>10, <1>11, <1>12, <1>13

LEMMA StatementFacts ==
  /\ <<Expect("write"), Expression, Build("write")>> \in Seq(Anywhere)
  /\ <<Expect("read"), Expect("ident"), Build("read")>> \in Seq(Anywhere)
  /\ <<Expect("if"), Expression, Expect("then"), Parse("statement"), Parse("else"), Build("if")>>
       \in Seq(Anywhere)
  /\ <<Expect("while"), Expression, Expect("do"), Parse("statement"), Build("while")>>
       \in Seq(Anywhere)
  /\ <<Parse("block")>> \in Seq(Anywhere)
  /\ <<Expect("return"), Expression, Build("return")>> \in Seq(Anywhere)
  /\ <<Expression>> \in Seq(Anywhere)
<1>1. /\ Expect("write") \in Element /\ Expect("read") \in Element /\ Expect("ident") \in Element
      /\ Expect("if") \in Element /\ Expect("then") \in Element
      /\ Expect("while") \in Element /\ Expect("do") \in Element /\ Expect("return") \in Element
  BY CallFacts DEF Types
<1>2. /\ Build("write") \in Element /\ Build("read") \in Element /\ Build("if") \in Element
      /\ Build("while") \in Element /\ Build("return") \in Element
  BY CallFacts DEF Kinds
<1>3. /\ Parse("statement") \in Element /\ Parse("else") \in Element /\ Parse("block") \in Element
  BY CallFacts DEF Methods
<1>4. Expression \in Element /\ Element \subseteq Anywhere
  BY CallFacts
<1> HIDE DEF Element, Anywhere
<1> QED BY <1>1, <1>2, <1>3, <1>4

LEMMA FactorFacts ==
  /\ \A type \in Types : BuildOp("binary", type) \in Anywhere
  /\ \A type \in Types :
       <<Expect(type), Parse("E3"), BuildOp("unary", type)>> \in Seq(Anywhere)
  /\ <<Expect("("), Expression, Expect(")")>> \in Seq(Anywhere)
  /\ <<Expect("number")>> \in Seq(Anywhere)
  /\ <<Expect("ident"), Parse("call")>> \in Seq(Anywhere)
<1>1. /\ Expect("(") \in Element /\ Expect(")") \in Element
      /\ Expect("number") \in Element /\ Expect("ident") \in Element
  BY CallFacts DEF Types
<1>2. Parse("E3") \in Element /\ Parse("call") \in Element
  BY CallFacts DEF Methods
<1>3. "unary" \in Kinds /\ "binary" \in Kinds
  BY DEF Kinds
<1>4. Expression \in Element /\ Element \subseteq Anywhere
  BY CallFacts
<1>5. ASSUME NEW type \in Types
      PROVE  <<Expect(type), Parse("E3"), BuildOp("unary", type)>> \in Seq(Anywhere)
  <2>1. Expect(type) \in Element /\ BuildOp("unary", type) \in Element
    BY <1>3, CallFacts
  <2> QED BY <2>1, <1>2, <1>4
<1>6. /\ <<Expect("("), Expression, Expect(")")>> \in Seq(Anywhere)
      /\ <<Expect("number")>> \in Seq(Anywhere)
      /\ <<Expect("ident"), Parse("call")>> \in Seq(Anywhere)
  BY <1>1, <1>2, <1>4
<1>7. ASSUME NEW type \in Types PROVE BuildOp("binary", type) \in Anywhere
  <2>1. BuildOp("binary", type) \in Element
    BY <1>3, CallFacts
  <2> QED BY <2>1, <1>4
<1> QED BY <1>5, <1>6, <1>7

\* Calls made from a stack without the call after an identifier.
LEMMA ThenFacts ==
  ASSUME NEW made \in Seq(Anywhere), todo \in Seq(Anywhere), todo # <<>>,
         Then(made), StackInv
  PROVE  todo' \in Seq(Anywhere) /\ StackInv'
<1>1. Tail(todo) \in Seq(Anywhere)
  BY HeadTailProperties
<1>2. todo' \in Seq(Anywhere)
  BY <1>1, ConcatProperties DEF Then
<1> QED BY <1>2 DEF StackInv

-----------------------------------------------------------------------------
\* The cursor stays or moves to the token after one that is not the last.
Forward ==
  /\ tokens' = tokens
  /\ \/ current' = current
     \/ TopType # "eof" /\ current' = current + 1

LEMMA ForwardFacts ==
  ASSUME CursorInv, Forward, StackInv'
  PROVE  CursorInv'
<1>1. current' \in 1 .. Len(tokens)
  BY TokenFacts DEF Forward
<1>2. WellFormed(tokens') /\ CursorInside'
  BY <1>1 DEF CursorInv, Forward, CursorInside
<1> QED BY <1>2 DEF CursorInv

LEMMA PopFacts ==
  ASSUME tokens' = tokens, Pop \/ Stay
  PROVE  Forward
BY DEF Pop, Stay, Forward

(* Where the call that may take a token back is not on the stack, a step   *)
(* moves the cursor forward, and puts that call on the stack after the one *)
(* that takes an identifier or not at all.                                 *)
LEMMA CleanStep ==
  ASSUME CursorInv, todo \in Seq(Anywhere), Next
  PROVE  Forward /\ StackInv'
<1> USE DEF Running
<1> HIDE DEF Element, Anywhere
<1>1. TopType \in Types
  BY TokenFacts
<1>2. StackInv
  BY DEF StackInv
<1>3. ASSUME todo # <<>> PROVE Head(todo) \in Anywhere
  BY <1>3, HeadTailProperties
<1>4. ASSUME Throw PROVE Forward /\ StackInv'
  BY <1>4, <1>2 DEF Throw, Forward, StackInv
<1>5. ASSUME NEW made \in Seq(Anywhere), todo # <<>>, Then(made), Pop \/ Stay
      PROVE  Forward /\ StackInv'
  <2>1. tokens' = tokens
    BY <1>5 DEF Then
  <2> QED BY <1>2, <1>5, <2>1, ThenFacts, PopFacts
<1>6. <<>> \in Seq(Anywhere)
  OBVIOUS
<1>7. CASE ExpectToken
  BY <1>7, <1>4, <1>5, <1>6 DEF ExpectToken
<1>8. CASE TakeOptional
  BY <1>8, <1>5, <1>6 DEF TakeOptional
<1>9. CASE BuildNode
  BY <1>9, <1>5, <1>6 DEF BuildNode
<1>10. CASE StartList
  BY <1>10, <1>5, <1>6 DEF StartList
<1>11. CASE CollectValue
  BY <1>11, <1>5, <1>6 DEF CollectValue
<1>12. CASE NextOfList
  <2>1. Separated(Head(todo).calls) \in Seq(Anywhere)
    BY <1>12, <1>3, HeadFacts, SeparatedFacts DEF NextOfList
  <2> QED BY <1>12, <2>1, <1>5, <1>6 DEF NextOfList
<1>13. CASE StartListOf
  <2>1. Separated(Head(todo).calls) \in Seq(Anywhere)
    BY <1>13, <1>3, HeadFacts, SeparatedFacts DEF StartListOf, Predict
  <2> QED BY <1>13, <2>1, <1>5, <1>6 DEF StartListOf, Predict
<1>14. CASE ParseModule
  BY <1>14, <1>5, MadeFacts DEF ParseModule, Predict
<1>15. CASE ParseFunctions
  BY <1>15, <1>5, <1>6, MadeFacts DEF ParseFunctions, Predict
<1>16. CASE ParseDeclarations
  <2> DEFINE variables == Separated(<<Expect("ident"), Build("var"), Collect>>)
             constants == Separated(<<Expect("ident"), Expect("="), Expect("number"),
                                      Build("const"), Collect>>)
             ending    == <<OptionalSemicolon, Parse("declarations")>>
             made(type) ==
               CASE type = "var"   -> <<Expect("var")>> \o variables \o ending
                 [] type = "const" -> <<Expect("const")>> \o constants \o ending
                 [] OTHER          -> <<>>
  <2>1. Then(made(TopType)) /\ todo # <<>> /\ Stay
    BY <1>16 DEF ParseDeclarations, Predict
  <2>2. /\ variables \in Seq(Anywhere) /\ constants \in Seq(Anywhere)
        /\ ending \in Seq(Anywhere)
    BY MadeFacts
  <2> HIDE DEF variables, constants, ending
  <2>3. made(TopType) \in Seq(Anywhere)
    BY <2>2, <1>6, MadeFacts, ConcatProperties
  <2> HIDE DEF made
  <2> QED BY <2>1, <2>3, <1>5
<1>17. CASE ParseMain
  <2>1. PICK before \in BOOLEAN :
          Then(<<Parse("block"), [at |-> "makeModule", before |-> before, token |-> TopType]>>)
    BY <1>17 DEF ParseMain
  <2> DEFINE making == [at |-> "makeModule", before |-> before, token |-> TopType]
  <2>2. making \in Anywhere
    BY <1>1 DEF Anywhere
  <2>3. Parse("block") \in Anywhere
    BY CallFacts DEF Methods
  <2> HIDE DEF making
  <2>4. <<Parse("block"), making>> \in Seq(Anywhere)
    BY <2>2, <2>3
  <2> QED BY <1>17, <2>1, <2>4, <1>5 DEF ParseMain, making
<1>18. CASE MakeModule
  <2>1. todo # <<>> /\ todo' = Tail(todo) /\ UNCHANGED <<tokens, current>>
    BY <1>18 DEF MakeModule
  <2>2. Tail(todo) \in Seq(Anywhere)
    BY <2>1, HeadTailProperties
  <2> QED BY <2>1, <2>2 DEF Forward, StackInv
<1>19. CASE ParseBlock
  BY <1>19, <1>5, MadeFacts DEF ParseBlock, Predict
<1>20. CASE ParseStatements
  BY <1>20, <1>5, <1>6, MadeFacts DEF ParseStatements, Predict
<1>21. CASE ParseStatement
  <2> DEFINE made ==
        CASE TopType = "write"  -> <<Expect(TopType), Expression, Build("write")>>
          [] TopType = "read"   -> <<Expect(TopType), Expect("ident"), Build("read")>>
          [] TopType = "if"     -> <<Expect(TopType), Expression, Expect("then"),
                                     Parse("statement"), Parse("else"), Build("if")>>
          [] TopType = "while"  -> <<Expect(TopType), Expression, Expect("do"),
                                     Parse("statement"), Build("while")>>
          [] TopType = "begin"  -> <<Parse("block")>>
          [] TopType = "return" -> <<Expect(TopType), Expression, Build("return")>>
          [] TopType = "ident"  -> <<Expect(TopType), Parse("assignment")>>
          [] OTHER              -> <<Expression>>
  <2>1. Then(Append(made, OptionalSemicolon)) /\ todo # <<>> /\ Stay
    BY <1>21 DEF ParseStatement, Predict
  <2>2. OptionalSemicolon \in Anywhere
    BY CallFacts
  <2>3. CASE TopType # "ident"
    <3>1. made \in Seq(Anywhere)
      BY <2>3, StatementFacts, Zenon
    <3>2. Append(made, OptionalSemicolon) \in Seq(Anywhere)
      BY <2>2, <3>1, AppendProperties
    <3> QED BY <2>1, <3>2, <1>5
  <2>4. CASE TopType = "ident"
    <3>1. made = <<Identifier, Assignment>>
      BY <2>4 DEF Identifier, Assignment
    <3> HIDE DEF made
    <3>2. Tail(todo) \in Seq(Anywhere)
      BY <2>1, HeadTailProperties
    <3> DEFINE rest == <<OptionalSemicolon>> \o Tail(todo)
    <3>3. rest \in Seq(Anywhere)
      BY <2>2, <3>2, ConcatProperties
    <3>4. todo' = <<Identifier, Assignment>> \o rest /\ tokens' = tokens
      BY <2>1, <3>1, <3>2 DEF Then
    <3> HIDE DEF rest
    <3> QED BY <2>1, <3>3, <3>4, PopFacts DEF StackInv
  <2> QED BY <2>3, <2>4
<1>22. CASE ParseAssignment
  BY <1>22, <1>3, HeadFacts DEF ParseAssignment
<1>23. CASE ParseElse
  BY <1>23, <1>5, <1>6, MadeFacts DEF ParseElse
<1>24. ASSUME NEW k \in 1 .. 3
       PROVE  (IF k = 3 THEN Parse("E3") ELSE Level(k + 1)) \in Anywhere
  <2>1. CASE k = 3
    BY <2>1, CallFacts DEF Methods, Types, Kinds
  <2>2. CASE k # 3
    BY <2>2, CallFacts
  <2> QED BY <2>1, <2>2
<1>25. CASE ParseLevel
  <2> DEFINE level == Head(todo).level
             deeper == IF level = 3 THEN Parse("E3") ELSE Level(level + 1)
  <2>1. level \in 1 .. 3
    BY <1>25, <1>3, HeadFacts DEF ParseLevel, Predict
  <2>2. deeper \in Anywhere /\ Operators(level) \in Anywhere
    BY <2>1, <1>24, CallFacts
  <2>3. Then(<<deeper, Operators(level)>>) /\ todo # <<>> /\ Stay
    BY <1>25 DEF ParseLevel, Predict
  <2> HIDE DEF deeper, level
  <2> QED BY <2>2, <2>3, <1>5
<1>26. CASE ParseOperators
  <2> DEFINE level == Head(todo).level
             deeper == IF level = 3 THEN Parse("E3") ELSE Level(level + 1)
             made   == <<deeper, BuildOp("binary", TopType), Operators(level)>>
  <2>1. level \in 1 .. 3
    BY <1>26, <1>3, HeadFacts DEF ParseOperators
  <2>2. deeper \in Anywhere /\ Operators(level) \in Anywhere
    BY <2>1, <1>24, CallFacts
  <2>5. BuildOp("binary", TopType) \in Anywhere
    BY <1>1, FactorFacts
  <2>3. todo # <<>> /\ ((Then(made) /\ Pop) \/ (Then(<<>>) /\ Stay))
    BY <1>26 DEF ParseOperators
  <2> HIDE DEF deeper, level
  <2>4. made \in Seq(Anywhere)
    BY <2>2, <2>5
  <2> HIDE DEF made
  <2> QED BY <2>3, <2>4, <1>5, <1>6
<1>27. CASE ParseE3
  <2> DEFINE made ==
        CASE TopType \in {"+", "-"} ->
               <<Expect(TopType), Parse("E3"), BuildOp("unary", TopType)>>
          [] TopType = "("      -> <<Expect("("), Expression, Expect(")")>>
          [] TopType = "number" -> <<Expect("number")>>
          [] TopType = "ident"  -> <<Expect("ident"), Parse("call")>>
  <2>1. Throw \/ (todo # <<>> /\ Then(made) /\ Stay /\ TopType \in {"+", "-", "(", "number", "ident"})
    BY <1>27 DEF ParseE3
  <2>2. CASE Throw
    BY <2>2, <1>4
  <2>3. CASE Then(made) /\ TopType \in {"+", "-", "(", "number", "ident"}
    <3>1. made \in Seq(Anywhere)
      BY <1>1, <2>3, FactorFacts, Zenon
    <3> HIDE DEF made
    <3> QED BY <2>1, <2>2, <3>1, <1>5
  <2> QED BY <2>1, <2>2, <2>3
<1>28. CASE ParseCall
  BY <1>28, <1>5, MadeFacts DEF ParseCall, Predict
<1> QED BY <1>7, <1>8, <1>9, <1>10, <1>11, <1>12, <1>13, <1>14, <1>15, <1>16, <1>17, <1>18, <1>19,
           <1>20, <1>21, <1>22, <1>23, <1>25, <1>26, <1>27, <1>28 DEF Next

(* With the call that may take a token back on the stack, a step makes it  *)
(* or the one before it.                                                   *)
LEMMA PendingStep ==
  ASSUME CursorInv, Next, todo # <<>>, Head(todo) \in {Identifier, Assignment}
  PROVE  \/ ExpectToken /\ Head(todo) = Identifier
         \/ ParseAssignment /\ Head(todo) = Assignment
<1>1. Head(todo).at \in {"expect", "assignment"}
  BY DEF Identifier, Assignment, Expect, Parse
<1>2. \/ ExpectToken /\ Head(todo).at = "expect"
      \/ ParseAssignment /\ Head(todo).at = "assignment"
  BY <1>1
  DEF Next, Running, Predict, ExpectToken, TakeOptional, BuildNode, StartList, CollectValue,
      NextOfList, StartListOf, ParseModule, ParseFunctions, ParseDeclarations, ParseMain,
      MakeModule, ParseBlock, ParseStatements, ParseStatement, ParseAssignment, ParseElse,
      ParseLevel, ParseOperators, ParseE3, ParseCall
<1> QED BY <1>2 DEF Identifier, Assignment, Expect, Parse

LEMMA CursorStep ==
  ASSUME CursorInv, [Next]_vars
  PROVE  /\ CursorInv'
         /\ current' < current => current' = current - 1 /\ tokens[current'].type = "ident"
<1>1. current \in Nat
  BY TokenFacts
<1>6. ASSUME UNCHANGED <<tokens, current, todo>> PROVE CursorInv' /\ ~(current' < current)
  <2>1. StackInv'
    BY <1>6 DEF CursorInv, StackInv
  <2>2. CursorInside' /\ WellFormed(tokens')
    BY <1>6 DEF CursorInv, CursorInside
  <2> QED BY <1>1, <1>6, <2>1, <2>2 DEF CursorInv
<1>2. CASE UNCHANGED vars
  BY <1>2, <1>6 DEF vars
<1>3. CASE Next /\ todo \in Seq(Anywhere)
  <2>1. Forward /\ StackInv'
    BY <1>3, CleanStep
  <2> QED BY <1>1, <2>1, ForwardFacts DEF Forward
<1>4. CASE Next /\ \E rest \in Seq(Anywhere) : todo = <<Identifier, Assignment>> \o rest
  <2>1. PICK rest \in Seq(Anywhere) : todo = <<Identifier, Assignment>> \o rest
    BY <1>4
  <2>2. todo # <<>> /\ Head(todo) = Identifier /\ Tail(todo) = <<Assignment>> \o rest
    BY <2>1
  <2>3. ExpectToken
    BY <1>4, <2>2, PendingStep DEF Identifier, Assignment, Expect, Parse
  <2>4. CASE TopType # "ident"
    <3>1. UNCHANGED <<tokens, current, todo>>
      BY <2>2, <2>3, <2>4 DEF ExpectToken, Identifier, Expect, Throw
    <3> QED BY <3>1, <1>6
  <2>5. CASE TopType = "ident"
    <3>4. Head(todo).type = "ident"
      BY <2>2 DEF Identifier, Expect
    <3>5. Then(<<>>) /\ Pop
      BY <2>3, <2>5, <3>4, Zenon DEF ExpectToken
    <3>6. <<>> \o Tail(todo) = <<Assignment>> \o rest
      BY <2>2
    <3>1. todo' = <<Assignment>> \o rest /\ tokens' = tokens /\ current' = current + 1
      BY <2>5, <3>5, <3>6 DEF Then, Pop
    <3>2. current' > 1 /\ tokens'[current' - 1].type = "ident"
      BY <1>1, <2>5, <3>1, TokenFacts DEF TopType
    <3>3. StackInv'
      BY <3>1, <3>2 DEF StackInv
    <3>7. Forward
      BY <2>5, <3>1 DEF Forward
    <3> QED BY <1>1, <3>1, <3>3, <3>7, ForwardFacts
  <2> QED BY <2>4, <2>5
<1>5. CASE /\ Next
           /\ \E rest \in Seq(Anywhere) :
                /\ todo = <<Assignment>> \o rest
                /\ current > 1
                /\ tokens[current - 1].type = "ident"
  <2>1. PICK rest \in Seq(Anywhere) : todo = <<Assignment>> \o rest
    BY <1>5
  <2>2. current > 1 /\ tokens[current - 1].type = "ident"
    BY <1>5
  <2>3. todo # <<>> /\ Head(todo) = Assignment /\ Tail(todo) = rest
    BY <2>1
  <2>4. ParseAssignment
    BY <1>5, <2>3, PendingStep DEF Identifier, Assignment, Expect, Parse
  <2>5. <<Expression, Build("assignment")>> \in Seq(Anywhere) /\ <<Expression>> \in Seq(Anywhere)
    <3>1. Expression \in Anywhere /\ Build("assignment") \in Anywhere
      BY CallFacts DEF Kinds
    <3> QED BY <3>1
  <2>6. tokens' = tokens /\ todo' \in Seq(Anywhere)
    BY <2>3, <2>4, <2>5, ConcatProperties DEF ParseAssignment, Then
  <2>7. StackInv'
    BY <2>6 DEF StackInv
  <2>8. CASE TopType = ":="
    <3>1. Forward
      BY <2>4, <2>6, <2>8, PopFacts DEF ParseAssignment
    <3> QED BY <1>1, <2>7, <3>1, ForwardFacts DEF Forward
  <2>9. CASE TopType # ":="
    <3>1. current' = current - 1
      BY <2>4, <2>9 DEF ParseAssignment
    <3>2. CursorInside'
      BY <2>2, <2>6, <3>1, TokenFacts DEF CursorInside
    <3> QED BY <2>2, <2>6, <2>7, <3>1, <3>2 DEF CursorInv
  <2> QED BY <2>8, <2>9
<1> QED BY <1>2, <1>3, <1>4, <1>5 DEF CursorInv, StackInv

-----------------------------------------------------------------------------
LEMMA InitCursor ==
  ASSUME \A s \in TokenSeqs : WellFormed(s), Init
  PROVE  CursorInv
<1>1. WellFormed(tokens) /\ current = 1 /\ todo = <<Parse("module")>>
  BY DEF Init
<1>2. CursorInside
  BY <1>1 DEF WellFormed, CursorInside
<1>3. Parse("module") \in Anywhere
  BY CallFacts DEF Methods
<1> QED BY <1>1, <1>2, <1>3 DEF CursorInv, StackInv

(* The parser's cursor is on a token whatever the tokens are, if only they *)
(* end with eof, although no bound is checked when it is moved back        *)
(* (scanner.h:283-296).                                                    *)
THEOREM CursorStaysInside ==
  ASSUME \A s \in TokenSeqs : WellFormed(s)
  PROVE  Spec => []CursorInside
<1>1. Init => CursorInv
  BY InitCursor
<1>2. CursorInv /\ [Next]_vars => CursorInv'
  BY CursorStep
<1>3. CursorInv => CursorInside
  BY DEF CursorInv
<1> QED BY <1>1, <1>2, <1>3, PTL DEF Spec

(* What the parser takes back is the identifier it has taken last, however *)
(* long the file and however deep its statements and expressions           *)
(* (parser.h:180-188).                                                     *)
THEOREM TakesBackOnlyIdentifiers ==
  ASSUME \A s \in TokenSeqs : WellFormed(s)
  PROVE  Spec => TakesBackIdentifiers
<1>1. Init => CursorInv
  BY InitCursor
<1>2. CursorInv /\ [Next]_vars => CursorInv'
  BY CursorStep
<1>3. CursorInv /\ [Next]_vars =>
        [current' < current => current' = current - 1 /\ tokens[current'].type = "ident"]_current
  BY CursorStep
<1> QED BY <1>1, <1>2, <1>3, PTL DEF Spec, TakesBackIdentifiers
=============================================================================
