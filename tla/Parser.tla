-------------------------------- MODULE Parser --------------------------------
(***************************************************************************)
(* The recursive descent, mila::Parser of src/mila/parser.h, over the      *)
(* token cursor of mila::Scanner: it looks at one token, takes it or calls *)
(* another method, and builds the tree the module Compiler walks.          *)
(*                                                                         *)
(* The calls still to be made are the stack todo; what the methods under   *)
(* way hold, tokens, nodes and lists of them, is the stack values.         *)
(***************************************************************************)
EXTENDS Integers, Sequences

CONSTANT TokenSeqs     \* the token sequences parsed, the last token eof

VARIABLES
  tokens,      \* the scanner's tokens
  current,     \* the scanner's cursor
  todo,        \* the stack of calls
  values,      \* the stack of values, the latest first
  parsed       \* "parsing", or how parse() ended

vars == <<tokens, current, todo, values, parsed>>

TopType == tokens[current].type

\* Calls: take a token of a type, take it if it is there, call a method, make
\* a node, append the latest value to the list before it.
Expect(type)  == [at |-> "expect", type |-> type]
Optional(type) == [at |-> "optional", type |-> type]
OptionalSemicolon == Optional(";")
Parse(method) == [at |-> method]
Build(kind)   == [at |-> "build", kind |-> kind, op |-> ""]
BuildOp(kind, op) == [at |-> "build", kind |-> kind, op |-> op]
Collect       == [at |-> "collect"]
Level(k)      == [at |-> "level", level |-> k]
Operators(k)  == [at |-> "operators", level |-> k]
NewList       == [at |-> "newList"]
More(calls)   == [at |-> "more", calls |-> calls]
Separated(calls) == calls \o <<More(calls)>>

\* A list in parentheses, of which the first is taken.
ListOf(calls) == [at |-> "listOf", calls |-> calls]

Expression == Level(1)
OperatorsOf == <<{"=", "<>", "<", ">", "<=", ">="}, {"+", "-"}, {"*", "/"}>>

-----------------------------------------------------------------------------
(* The node classes of ast.h: the node of a kind, from the values v, the   *)
(* latest first.  Symbols come as their tokens.                            *)
Number(literal) == [kind |-> "number", literal |-> literal]

DeclarationNode(kind, v) ==
  CASE kind = "var"      -> [symbol |-> v[1].symbol, constant |-> FALSE]
    [] kind = "const"    -> [symbol |-> v[2].symbol, constant |-> TRUE, value |-> v[1]]
    [] kind = "function" -> [kind |-> kind, name |-> v[3].symbol, body |-> v[1],
                             arguments |-> [k \in 1 .. Len(v[2]) |-> v[2][k].symbol]]
    [] kind = "block"    -> [kind |-> kind, declarations |-> v[2], statements |-> v[1]]
    [] kind = "module"   -> [kind |-> kind, functions |-> v[3], declarations |-> v[2], body |-> v[1]]

StatementNode(kind, v) ==
  CASE kind = "write"  -> [kind |-> kind, expression |-> v[1]]
    [] kind = "read"   -> [kind |-> kind, symbol |-> v[1].symbol]
    [] kind = "return" -> [kind |-> kind, value |-> v[1]]
    [] kind = "assignment" -> [kind |-> kind, symbol |-> v[2].symbol, value |-> v[1]]
    [] kind = "if"     -> [kind |-> kind, condition |-> v[3], trueCase |-> v[2], falseCase |-> v[1]]
    [] kind = "while"  -> [kind |-> kind, condition |-> v[2], body |-> v[1]]

ExpressionNode(kind, op, v) ==
  CASE kind = "binary"   -> [kind |-> kind, op |-> op, lhs |-> v[2], rhs |-> v[1]]
    [] kind = "unary"    -> [kind |-> kind, op |-> op, negates |-> op = "-", operand |-> v[1]]
    [] kind = "call"     -> [kind |-> kind, function |-> v[2].symbol, arguments |-> v[1]]
    [] kind = "variable" -> [kind |-> kind, symbol |-> v[1].symbol]

NodeOf(kind, op, v) ==
  CASE kind \in {"var", "const", "function", "block", "module"} -> DeclarationNode(kind, v)
    [] kind \in {"binary", "unary", "call", "variable"} -> ExpressionNode(kind, op, v)
    [] OTHER -> StatementNode(kind, v)

ValuesOf(kind) ==
  CASE kind \in {"var", "write", "read", "return", "unary", "variable"} -> 1
    [] kind \in {"const", "block", "assignment", "while", "binary", "call"} -> 2
    [] kind \in {"function", "if"} -> 3

-----------------------------------------------------------------------------
Init ==
  /\ tokens \in TokenSeqs
  /\ current = 1
  /\ todo = <<Parse("module")>>
  /\ values = <<>>
  /\ parsed = "parsing"

Running(method) == parsed = "parsing" /\ todo # <<>> /\ Head(todo).at = method

Then(calls) == todo' = calls \o Tail(todo) /\ UNCHANGED <<tokens, parsed>>

\* Scanner::pop() does not move past the end.
Pop  == current' = IF TopType = "eof" THEN current ELSE current + 1
Stay == UNCHANGED current

Push(v) == values' = <<v>> \o values

\* throw ParserError
Throw == parsed' = "rejected" /\ UNCHANGED <<tokens, current, todo, values>>

\* The calls depend on the token at the cursor, which is left there.
Predict(method, callsFor(_)) ==
  /\ Running(method)
  /\ Then(callsFor(TopType))
  /\ Stay /\ UNCHANGED values

\* pop(Token::Type); an identifier or a number is kept.
ExpectToken ==
  /\ Running("expect")
  /\ IF TopType # Head(todo).type THEN Throw
     ELSE /\ Then(<<>>) /\ Pop
          /\ CASE TopType = "ident"  -> Push(tokens[current])
               [] TopType = "number" -> Push(Number(tokens[current].value))
               [] OTHER              -> UNCHANGED values

\* A bug: the token is taken, and taken back if it is another; at the end of
\* the tokens, where taking does not move, this goes back too far.
TakeOptionalReverts ==
  /\ Running("optional")
  /\ Then(<<>>) /\ UNCHANGED values
  /\ IF TopType = Head(todo).type THEN Pop
     ELSE current' = IF TopType = "eof" THEN current - 1 ELSE current

\* condPop(), its answer not asked for.
TakeOptional ==
  /\ Running("optional")
  /\ Then(<<>>) /\ UNCHANGED values
  /\ IF TopType = Head(todo).type THEN Pop ELSE Stay

BuildNode ==
  LET call == Head(todo)
      n == ValuesOf(call.kind)
  IN
  /\ Running("build")
  /\ Then(<<>>) /\ Stay
  /\ values' = <<NodeOf(call.kind, call.op, values)>> \o SubSeq(values, n + 1, Len(values))

StartList == Running("newList") /\ Then(<<>>) /\ Push(<<>>) /\ Stay

CollectValue ==
  /\ Running("collect")
  /\ Then(<<>>) /\ Stay
  /\ values' = <<Append(values[2], values[1])>> \o SubSeq(values, 3, Len(values))

\* do ... while (condPop(comma))
NextOfList ==
  /\ Running("more")
  /\ UNCHANGED values
  /\ IF TopType = "," THEN Then(Separated(Head(todo).calls)) /\ Pop ELSE Then(<<>>) /\ Stay

StartListOf ==
  LET calls(type) == IF type = ")" THEN <<>> ELSE Separated(Head(todo).calls) IN
  Predict("listOf", calls)

-----------------------------------------------------------------------------
(* Module, functions and declarations *)

ParseModule ==
  LET calls(type) == <<NewList, Parse("functions"), NewList, Parse("declarations"), Parse("main")>>
  IN  Predict("module", calls)

ParseFunctions ==
  LET calls(type) ==
        IF type # "function" THEN <<>>
        ELSE <<Expect("function"), Expect("ident"), Expect("("), NewList,
               ListOf(<<Expect("ident"), Collect>>), Expect(")"),
               Parse("statement"), OptionalSemicolon, Build("function"), Collect, Parse("functions")>>
  IN  Predict("functions", calls)

ParseDeclarations ==
  LET variables == Separated(<<Expect("ident"), Build("var"), Collect>>)
      constants == Separated(<<Expect("ident"), Expect("="), Expect("number"),
                               Build("const"), Collect>>)
      calls(type) ==
        CASE type = "var"   -> <<Expect("var")>> \o variables
                                  \o <<OptionalSemicolon, Parse("declarations")>>
          [] type = "const" -> <<Expect("const")>> \o constants
                                  \o <<OptionalSemicolon, Parse("declarations")>>
          [] OTHER          -> <<>>
  IN  Predict("declarations", calls)

\* In what order the arguments of new Module(top(), ..., parseBlock()) are
\* evaluated is not defined: top() is read before the block is parsed, or after.
ParseMain ==
  /\ Running("main")
  /\ \E before \in BOOLEAN :
       Then(<<Parse("block"), [at |-> "makeModule", before |-> before, token |-> TopType]>>)
  /\ Stay /\ UNCHANGED values

\* The constructor asserts that its token is kwBegin (ast.h:123).
MakeModule ==
  LET call == Head(todo) IN
  /\ Running("makeModule")
  /\ IF (IF call.before THEN call.token ELSE TopType) = "begin"
     THEN values' = <<NodeOf("module", "", values)>> /\ parsed' = "accepted"
     ELSE parsed' = "aborted" /\ UNCHANGED values
  /\ todo' = Tail(todo)
  /\ UNCHANGED <<tokens, current>>

ParseBlock ==
  LET calls(type) == <<Expect("begin"), NewList, Parse("declarations"), NewList,
                       Parse("statements"), Expect("end"), Build("block")>>
  IN  Predict("block", calls)

\* while (not condPop(kwEnd))
ParseStatements ==
  LET calls(type) ==
        IF type = "end" THEN <<>> ELSE <<Parse("statement"), Collect, Parse("statements")>>
  IN  Predict("statements", calls)

-----------------------------------------------------------------------------
(* Statements *)

\* parseStatement() and parseStatement_().
ParseStatement ==
  LET calls(type) ==
        CASE type = "write"  -> <<Expect(type), Expression, Build("write")>>
          [] type = "read"   -> <<Expect(type), Expect("ident"), Build("read")>>
          [] type = "if"     -> <<Expect(type), Expression, Expect("then"),
                                  Parse("statement"), Parse("else"), Build("if")>>
          [] type = "while"  -> <<Expect(type), Expression, Expect("do"),
                                  Parse("statement"), Build("while")>>
          [] type = "begin"  -> <<Parse("block")>>
          [] type = "return" -> <<Expect(type), Expression, Build("return")>>
          [] type = "ident"  -> <<Expect(type), Parse("assignment")>>
          [] OTHER           -> <<Expression>>
      withSemicolon(type) == Append(calls(type), OptionalSemicolon)
  IN  Predict("statement", withSemicolon)

\* A bug: the identifier is not given back.
ParseAssignmentKeeps ==
  /\ Running("assignment")
  /\ IF TopType = ":="
     THEN Then(<<Expression, Build("assignment")>>) /\ Pop /\ UNCHANGED values
     ELSE Then(<<Expression>>) /\ Stay /\ values' = Tail(values)

\* After an identifier: an assignment, or else the identifier is given back.
ParseAssignment ==
  /\ Running("assignment")
  /\ IF TopType = ":="
     THEN Then(<<Expression, Build("assignment")>>) /\ Pop /\ UNCHANGED values
     ELSE Then(<<Expression>>) /\ current' = current - 1 /\ values' = Tail(values)

\* Without an else the false case is the number 0.
ParseElse ==
  /\ Running("else")
  /\ IF TopType = "else" THEN Then(<<Parse("statement")>>) /\ Pop /\ UNCHANGED values
     ELSE Then(<<>>) /\ Push(Number(0)) /\ Stay

-----------------------------------------------------------------------------
(* Expressions: parseExpression(), parseE1() and parseE2() are the levels  *)
(* 1 to 3.                                                                 *)

ParseLevel ==
  LET level == Head(todo).level
      calls(type) ==
        <<IF level = 3 THEN Parse("E3") ELSE Level(level + 1), Operators(level)>>
  IN  Predict("level", calls)

\* One turn of the loop of a level, which groups to the left.
ParseOperators ==
  LET level == Head(todo).level IN
  /\ Running("operators")
  /\ UNCHANGED values
  /\ IF TopType \in OperatorsOf[level]
     THEN /\ Then(<<IF level = 3 THEN Parse("E3") ELSE Level(level + 1),
                    BuildOp("binary", TopType), Operators(level)>>)
          /\ Pop
     ELSE Then(<<>>) /\ Stay

\* parseE3(), and parseFactor() where there is no sign.
ParseE3 ==
  /\ Running("E3")
  /\ IF TopType \notin {"+", "-", "(", "number", "ident"} THEN Throw
     ELSE /\ Then(CASE TopType \in {"+", "-"} ->
                         <<Expect(TopType), Parse("E3"), BuildOp("unary", TopType)>>
                    [] TopType = "("      -> <<Expect("("), Expression, Expect(")")>>
                    [] TopType = "number" -> <<Expect("number")>>
                    [] TopType = "ident"  -> <<Expect("ident"), Parse("call")>>)
          /\ Stay /\ UNCHANGED values

ParseCall ==
  LET calls(type) ==
        IF type # "(" THEN <<Build("variable")>>
        ELSE <<Expect("("), NewList, ListOf(<<Expression, Collect>>), Expect(")"), Build("call")>>
  IN  Predict("call", calls)

Next ==
  \/ ExpectToken \/ TakeOptional \/ BuildNode \/ StartList \/ CollectValue
  \/ NextOfList \/ StartListOf
  \/ ParseModule \/ ParseFunctions \/ ParseDeclarations \/ ParseMain \/ MakeModule
  \/ ParseBlock \/ ParseStatements
  \/ ParseStatement \/ ParseAssignment \/ ParseElse
  \/ ParseLevel \/ ParseOperators \/ ParseE3 \/ ParseCall

Spec == Init /\ [][Next]_vars

-----------------------------------------------------------------------------
\* Token::Type.
Types ==
  {"ident", "number", "+", "-", "*", "/", "<", ">", "<=", ">=", "=", "<>", ":=", "(", ")",
   ",", ":", ";", "var", "const", "begin", "end", "if", "then", "else", "while", "do",
   "write", "read", "function", "return", "eof"}

\* What the scanner makes: the end of the file is the last token.
WellFormed(s) ==
  /\ s \in Seq([type : Types, symbol : STRING, value : Int, line : Nat, col : Nat])
  /\ s # <<>>
  /\ s[Len(s)].type = "eof"

(* There always is a token at the cursor, although taking one back moves   *)
(* it to the left unchecked (scanner.h:283-296).                           *)
CursorInside == current \in 1 .. Len(tokens)

(* The parser only ever takes back an identifier, and just the one it has  *)
(* taken last: where no taking could have been without moving              *)
(* (parser.h:180-188, scanner.h:287-296).                                  *)
TakesBackIdentifiers ==
  [][current' < current => current' = current - 1 /\ tokens[current'].type = "ident"]_current
=============================================================================
