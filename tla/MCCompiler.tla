----------------------------- MODULE MCCompiler -----------------------------
(***************************************************************************)
(* Programs for the compiler: every nesting of statements two deep in the  *)
(* main block, every pair of a function and a main block of statements one *)
(* deep, and every use of the name x under declarations at three levels.   *)
(***************************************************************************)
EXTENDS CompilerProperties, CompilerLegality

Number == [kind |-> "number"]
Variable(s) == [kind |-> "variable", symbol |-> s]
CallOf(g, args) == [kind |-> "call", function |-> g, arguments |-> args]
WriteOf(e) == [kind |-> "write", expression |-> e]
ReadOf(s) == [kind |-> "read", symbol |-> s]
Assignment(s, e) == [kind |-> "assignment", symbol |-> s, value |-> e]
ReturnOf(e) == [kind |-> "return", value |-> e]
If(e, a, b) == [kind |-> "if", condition |-> e, trueCase |-> a, falseCase |-> b]
While(e, a) == [kind |-> "while", condition |-> e, body |-> a]
Block(ds, ss) == [kind |-> "block", declarations |-> ds, statements |-> ss]
Function(g, args, s) == [kind |-> "function", name |-> g, arguments |-> args, body |-> s]
Module(ds, fs, s) == [kind |-> "module", declarations |-> ds, functions |-> fs, body |-> s]

Var(s)   == [symbol |-> s, constant |-> FALSE]
Const(s) == [symbol |-> s, constant |-> TRUE]

X == Variable("x")
GlobalX == <<Var("x")>>

Simple == {Number, Assignment("x", [kind |-> "unary", negates |-> TRUE, operand |-> X]),
           ReturnOf(X), Block(<<>>, <<>>)}

Nested(ss, ts) ==
  ss \cup {If(X, s, t) : s \in ss, t \in ts} \cup {While(X, s) : s \in ss}
     \cup {Block(<<>>, <<s, t>>) : s \in ss, t \in ts}

OneDeep == Nested(Simple, Simple)
TwoDeep == Nested(OneDeep, Simple) \cup Nested(Simple, OneDeep)
             \cup {If(X, s, t) : s \in OneDeep, t \in OneDeep}

DeepPrograms == {Module(GlobalX, <<>>, Block(<<>>, <<ReadOf("x"), s>>)) : s \in TwoDeep}

\* The result a function leaves is the one the main block finds.
FunctionPrograms ==
  {Module(GlobalX, <<Function("f", <<"a">>, s)>>, Block(<<>>, <<t>>)) : s \in OneDeep, t \in OneDeep}

Declared == {<<>>, <<Var("x")>>, <<Const("x")>>, <<Var("x"), Const("x")>>, <<Const("y"), Var("x")>>}

UsesOfX ==
  {Assignment("x", Number), ReadOf("x"), ReturnOf(Number),
   WriteOf([kind |-> "binary", lhs |-> X, rhs |-> Number]),
   WriteOf(CallOf("f", <<>>)), WriteOf(CallOf("f", <<Number>>)), WriteOf(CallOf("main", <<>>)),
   WriteOf([kind |-> "unary", negates |-> FALSE, operand |-> Number])}

NamePrograms ==
  {Module(ds, <<Function("f", args, Block(es, <<s, t>>))>>, Block(<<>>, <<s>>)) :
     ds \in Declared, args \in {<<>>, <<"x">>, <<"x", "x">>}, es \in Declared,
     s \in UsesOfX, t \in UsesOfX}

\* The name of a block hides that of the blocks around it, up to its end.
ScopePrograms ==
  {Module(ds, <<>>, Block(es, <<Block(gs, <<s>>), t>>)) :
     ds \in Declared, es \in Declared, gs \in Declared,
     s \in {Assignment("x", Number), WriteOf(X)}, t \in {Assignment("x", Number), WriteOf(X)}}

FunctionNames ==
  {Module(<<>>, <<Function(g, <<>>, Number), Function(h, <<>>, WriteOf(CallOf(i, <<>>)))>>,
          Block(<<>>, <<WriteOf(CallOf(j, <<>>))>>)) :
     g \in {"f", "main"}, h \in {"f", "g", "main", "write_"}, i \in {"f", "g", "h", "read_"}, j \in {"f", "g", "main"}}

MCModules ==
  DeepPrograms \cup FunctionPrograms \cup NamePrograms \cup ScopePrograms \cup FunctionNames

\* The nodes of these programs.
AllNodes == UNION {UNION {Nodes(b) : b \in BodiesOf(m)} : m \in MCModules}

AllExpressions == {n \in AllNodes : n.kind \in {"number", "variable", "unary", "binary", "call"}}

\* TLC evaluates what a constant is replaced by anew at each use.
MCExpressions == AllExpressions
MCStatements == AllNodes

\* A function and a main block that do nothing.
MCEmptyModules == {Module(<<>>, <<Function("f", <<>>, Block(<<>>, <<>>))>>, Block(<<>>, <<>>))}
=============================================================================
